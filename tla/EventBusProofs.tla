---------------------------- MODULE EventBusProofs ----------------------------
(* The event bus keeps every message it took with exactly one owner, bounds the *)
(* runs of a message that always fails, and implements AtLeastOnce, for every   *)
(* number of messages, replicas, attempts and faults.                           *)
EXTENDS EventBus, FiniteSetTheorems, TLAPS

FaultsCounted == crashes + disconnects <= MaxFaults

DispatchedWasTaken == \A d \in dispatches : place[d.msg] \notin {"unsent", "lost"}

LiveIsUnacked == \A d \in dispatches : Live(d) => place[d.msg] = "unacked"

UnackedIsLive ==
  \A m \in Messages : place[m] = "unacked" => \E d \in dispatches : d.msg = m /\ Live(d)

\* One dispatch of a message per channel that carried it: none is counted twice.
OneEach == \A d, e \in dispatches : d.msg = e.msg /\ d.lost = e.lost => d = e

LostBefore == \A d \in dispatches : d.lost <= disconnects

Ownership == DispatchedWasTaken /\ LiveIsUnacked /\ UnackedIsLive /\ OneEach /\ LostBefore

HandledTookEffect == \A d \in dispatches : d.pc = "handled" => effects[d.msg] > 0

AttemptsFailed == \A c \in Replicas, m \in Messages : attempts[c][m] <= failures[m]

BusInv == TypeOK /\ FaultsCounted /\ Ownership /\ HandledTookEffect /\ AttemptsFailed

-------------------------------------------------------------------------------
LEMMA BusInvInit == Init => BusInv
<1> SUFFICES ASSUME Init PROVE BusInv  OBVIOUS
<1>1. TypeOK  BY AttemptsAssumption DEF Init, TypeOK, Places
<1> QED  BY <1>1, BoundsAssumption DEF Init, BusInv, FaultsCounted, Ownership, DispatchedWasTaken, LiveIsUnacked,
                    UnackedIsLive, OneEach, LostBefore, HandledTookEffect, AttemptsFailed

\* A dispatch goes on to another point.
LEMMA TurnKeeps ==
  ASSUME TypeOK, Ownership, NEW d \in dispatches, NEW to \in {"handling", "handled", "backoff"},
         Turn(d, to), UNCHANGED <<place, disconnects>>
  PROVE  /\ Ownership' /\ dispatches' \subseteq Dispatch
         /\ \A e \in dispatches' : e.pc = "handled" => e \in dispatches \/ (to = "handled" /\ e.msg = d.msg)
<1> DEFINE new == [d EXCEPT !.pc = to]
<1>1. d \in Dispatch  BY DEF TypeOK
<1>2. new \in Dispatch /\ new.msg = d.msg /\ new.lost = d.lost /\ new.pc = to  BY <1>1 DEF Dispatch
<1>3. dispatches' = (dispatches \ {d}) \union {new}  BY DEF Turn
<1> HIDE DEF new
<1>4. DispatchedWasTaken' /\ LostBefore'
  BY <1>2, <1>3 DEF Ownership, DispatchedWasTaken, LostBefore
<1>5. LiveIsUnacked'  BY <1>2, <1>3 DEF Ownership, LiveIsUnacked, Live
<1>6. UnackedIsLive'  BY <1>2, <1>3 DEF Ownership, UnackedIsLive, Live
<1>7. OneEach'  BY <1>2, <1>3 DEF Ownership, OneEach
<1> QED  BY <1>2, <1>3, <1>4, <1>5, <1>6, <1>7 DEF Ownership, TypeOK

\* A dispatch is over, and the message is settled if it could still settle it.
LEMMA LeaveKeeps ==
  ASSUME TypeOK, Ownership, NEW d \in dispatches, NEW where \in Places \ {"unsent", "lost", "unacked"},
         Leave(d), Settle(d, where), UNCHANGED disconnects
  PROVE  Ownership' /\ place' \in [Messages -> Places]
<1>1. d.msg \in Messages /\ d \in Dispatch  BY DEF TypeOK, Dispatch
<1>2. dispatches' = dispatches \ {d}  BY DEF Leave
<1>3. /\ place' \in [Messages -> Places]
      /\ \A m \in Messages : m # d.msg => place'[m] = place[m]
      /\ place'[d.msg] = IF Live(d) THEN where ELSE place[d.msg]
  BY <1>1 DEF Settle, TypeOK
<1>4. \A e \in dispatches : e.msg \in Messages  BY DEF TypeOK, Dispatch
<1>5. DispatchedWasTaken' /\ LostBefore'
  BY <1>2, <1>3, <1>4 DEF Ownership, DispatchedWasTaken, LostBefore
<1>6. LiveIsUnacked'
  <2> SUFFICES ASSUME NEW e \in dispatches', Live(e) PROVE place'[e.msg] = "unacked"
    BY DEF LiveIsUnacked, Live
  <2>1. e \in dispatches /\ e # d /\ place[e.msg] = "unacked"  BY <1>2 DEF Ownership, LiveIsUnacked
  <2>2. CASE e.msg = d.msg
    <3>1. ~Live(d)  BY <2>1, <2>2 DEF Ownership, OneEach, Live
    <3> QED  BY <1>3, <2>1, <2>2, <3>1
  <2>3. CASE e.msg # d.msg  BY <1>3, <1>4, <2>1, <2>3
  <2> QED  BY <2>2, <2>3
<1>7. UnackedIsLive'
  <2> SUFFICES ASSUME NEW m \in Messages, place'[m] = "unacked"
               PROVE \E e \in dispatches' : e.msg = m /\ Live(e)
    BY DEF UnackedIsLive, Live
  <2>1. place[m] = "unacked" /\ (m = d.msg => ~Live(d))  BY <1>3
  <2>2. PICK e \in dispatches : e.msg = m /\ Live(e)  BY <2>1 DEF Ownership, UnackedIsLive
  <2> QED  BY <1>2, <2>1, <2>2
<1>8. OneEach'  BY <1>2 DEF Ownership, OneEach
<1> QED  BY <1>3, <1>5, <1>6, <1>7, <1>8 DEF Ownership

\* A dispatch is over, and its channel does not matter any more.
LEMMA OrphanLeaves ==
  ASSUME TypeOK, Ownership, NEW d \in dispatches, ~Live(d), Leave(d), UNCHANGED <<place, disconnects>>
  PROVE  Ownership'
<1>1. Settle(d, "done")  BY DEF Settle
<1> QED  BY <1>1, LeaveKeeps DEF Places

\* What SetAttempts writes.
LEMMA CounterSet ==
  ASSUME TypeOK, NEW d \in dispatches, NEW n \in 0..(MaxAttempts - 1), SetAttempts(d, n)
  PROVE  /\ attempts' \in [Replicas -> [Messages -> 0..(MaxAttempts - 1)]]
         /\ attempts'[d.at][d.msg] = n
         /\ \A c \in Replicas, m \in Messages :
              c # d.at \/ m # d.msg => attempts'[c][m] = attempts[c][m]
<1>1. d.at \in Replicas /\ d.msg \in Messages  BY DEF TypeOK, Dispatch
<1>2. attempts \in [Replicas -> [Messages -> 0..(MaxAttempts - 1)]]  BY DEF TypeOK
<1> DEFINE row == [attempts[d.at] EXCEPT ![d.msg] = n]
<1>3. row \in [Messages -> 0..(MaxAttempts - 1)] /\ row[d.msg] = n
      /\ \A m \in Messages : m # d.msg => row[m] = attempts[d.at][m]
  BY <1>1, <1>2
<1>4. attempts' = [attempts EXCEPT ![d.at] = row]  BY DEF SetAttempts
<1> HIDE DEF row
<1> QED  BY <1>1, <1>2, <1>3, <1>4

-------------------------------------------------------------------------------
LEMMA PublishKeeps == ASSUME BusInv, NEW m \in Messages, Publish(m)  PROVE BusInv'
<1> USE DEF BusInv
<1>1. PICK where \in {"ready", "lost"} : place' = [place EXCEPT ![m] = where]  BY DEF Publish
<1>2. /\ place' \in [Messages -> Places]
      /\ place[m] = "unsent" /\ place'[m] \in {"ready", "lost"}
      /\ \A n \in Messages : n # m => place'[n] = place[n]
  BY <1>1 DEF Publish, TypeOK, Places
<1>3. UNCHANGED <<bus, dispatches, attempts, effects, failures, crashes, disconnects>>  BY DEF Publish
<1>4. TypeOK' /\ FaultsCounted' /\ HandledTookEffect' /\ AttemptsFailed'
  BY <1>2, <1>3 DEF TypeOK, FaultsCounted, HandledTookEffect, AttemptsFailed
<1>5. \A d \in dispatches : d.msg \in Messages /\ d.msg # m  BY <1>2 DEF TypeOK, Dispatch, Ownership, DispatchedWasTaken
<1>6. DispatchedWasTaken' /\ LiveIsUnacked' /\ OneEach' /\ LostBefore'
  BY <1>2, <1>3, <1>5 DEF Ownership, DispatchedWasTaken, LiveIsUnacked, OneEach, LostBefore, Live
<1>7. UnackedIsLive'  BY <1>2, <1>3 DEF Ownership, UnackedIsLive, Live
<1> QED  BY <1>4, <1>6, <1>7 DEF Ownership

LEMMA DeliverKeeps == ASSUME BusInv, NEW c \in Replicas, NEW m \in Messages, Deliver(c, m)  PROVE BusInv'
<1> USE DEF BusInv
<1> DEFINE new == [msg |-> m, at |-> c, lost |-> 0, pc |-> "handling"]
<1>1. new \in Dispatch /\ new.msg = m /\ new.lost = 0 /\ new.pc = "handling"  BY BoundsAssumption DEF Dispatch
<1>2. dispatches' = dispatches \union {new}  BY DEF Deliver
<1> HIDE DEF new
<1>3. /\ place' \in [Messages -> Places]
      /\ place[m] = "ready" /\ place'[m] = "unacked"
      /\ \A n \in Messages : n # m => place'[n] = place[n]
  BY DEF Deliver, TypeOK, Places
<1>4. UNCHANGED <<bus, attempts, effects, failures, crashes, disconnects>>  BY DEF Deliver
<1>5. TypeOK' /\ FaultsCounted' /\ HandledTookEffect' /\ AttemptsFailed'
  BY <1>1, <1>2, <1>3, <1>4 DEF TypeOK, FaultsCounted, HandledTookEffect, AttemptsFailed
<1>6. \A d \in dispatches : d.msg \in Messages  BY DEF TypeOK, Dispatch
<1>7. \A d \in dispatches : d.msg = m => ~Live(d)  BY <1>3 DEF Ownership, LiveIsUnacked
<1>8. DispatchedWasTaken' /\ LiveIsUnacked'
  BY <1>1, <1>2, <1>3, <1>6 DEF Ownership, DispatchedWasTaken, LiveIsUnacked, Live
<1>9. UnackedIsLive'  BY <1>1, <1>2, <1>3 DEF Ownership, UnackedIsLive, Live
<1>10. OneEach'  BY <1>1, <1>2, <1>7 DEF Ownership, OneEach, Live
<1>11. LostBefore'  BY <1>1, <1>2, <1>4 DEF TypeOK, Ownership, LostBefore
<1> QED  BY <1>5, <1>8, <1>9, <1>10, <1>11 DEF Ownership

LEMMA TakeEffectKeeps == ASSUME BusInv, NEW d \in dispatches, TakeEffect(d)  PROVE BusInv'
<1> USE DEF BusInv
<1>1. Turn(d, "handled") /\ UNCHANGED <<bus, place, attempts, failures, crashes, disconnects>>  BY DEF TakeEffect
<1>2. /\ Ownership' /\ dispatches' \subseteq Dispatch
      /\ \A e \in dispatches' : e.pc = "handled" => e \in dispatches \/ e.msg = d.msg
  BY <1>1, TurnKeeps
<1>3. d.msg \in Messages  BY DEF TypeOK, Dispatch
<1>4. /\ effects' \in [Messages -> 0..2] /\ effects'[d.msg] > 0
      /\ \A n \in Messages : n # d.msg => effects'[n] = effects[n]
  BY <1>3 DEF TakeEffect, TypeOK
<1>5. HandledTookEffect'  BY <1>2, <1>4 DEF HandledTookEffect, Dispatch
<1>6. TypeOK' /\ FaultsCounted' /\ AttemptsFailed'
  BY <1>1, <1>2, <1>4 DEF TypeOK, FaultsCounted, AttemptsFailed
<1> QED  BY <1>2, <1>5, <1>6

LEMMA LeavingKeeps ==
  ASSUME BusInv, NEW d \in dispatches, NEW where \in Places \ {"unsent", "lost", "unacked"},
         Leave(d), Settle(d, where), UNCHANGED <<bus, effects, crashes, disconnects>>,
         attempts' \in [Replicas -> [Messages -> 0..(MaxAttempts - 1)]], failures' \in [Messages -> Nat],
         AttemptsFailed'
  PROVE  BusInv'
<1>1. Ownership' /\ place' \in [Messages -> Places]  BY LeaveKeeps DEF BusInv
<1>2. dispatches' \subseteq dispatches  BY DEF Leave
<1>3. TypeOK' /\ FaultsCounted' /\ HandledTookEffect'
  BY <1>1, <1>2 DEF BusInv, TypeOK, FaultsCounted, HandledTookEffect
<1> QED  BY <1>1, <1>3 DEF BusInv

LEMMA TurningKeeps ==
  ASSUME BusInv, NEW d \in dispatches,
         Turn(d, "backoff"), UNCHANGED <<bus, place, effects, crashes, disconnects>>,
         attempts' \in [Replicas -> [Messages -> 0..(MaxAttempts - 1)]], failures' \in [Messages -> Nat],
         AttemptsFailed'
  PROVE  BusInv'
<1>1. /\ Ownership' /\ dispatches' \subseteq Dispatch
      /\ \A e \in dispatches' : e.pc = "handled" => e \in dispatches
  BY TurnKeeps DEF BusInv
<1>2. TypeOK' /\ FaultsCounted' /\ HandledTookEffect'
  BY <1>1 DEF BusInv, TypeOK, FaultsCounted, HandledTookEffect
<1> QED  BY <1>1, <1>2 DEF BusInv

\* One more failure of a message, as Fail and AckRaises count it.
LEMMA OneMoreFailure ==
  ASSUME BusInv, NEW d \in dispatches, failures' = [failures EXCEPT ![d.msg] = @ + 1],
         NEW n \in 0..(MaxAttempts - 1), n <= attempts[d.at][d.msg] + 1, SetAttempts(d, n)
  PROVE  /\ attempts' \in [Replicas -> [Messages -> 0..(MaxAttempts - 1)]]
         /\ failures' \in [Messages -> Nat] /\ AttemptsFailed'
<1>1. d.at \in Replicas /\ d.msg \in Messages  BY DEF BusInv, TypeOK, Dispatch
<1>2. /\ attempts' \in [Replicas -> [Messages -> 0..(MaxAttempts - 1)]]
      /\ attempts'[d.at][d.msg] = n
      /\ \A c \in Replicas, m \in Messages : c # d.at \/ m # d.msg => attempts'[c][m] = attempts[c][m]
  BY CounterSet DEF BusInv
<1>3. /\ failures' \in [Messages -> Nat] /\ failures'[d.msg] = failures[d.msg] + 1
      /\ \A m \in Messages : m # d.msg => failures'[m] = failures[m]
  BY <1>1 DEF BusInv, TypeOK
<1>4. ASSUME NEW c \in Replicas, NEW m \in Messages  PROVE attempts'[c][m] <= failures'[m]
  <2>1. attempts[c][m] <= failures[m] /\ attempts[c][m] \in Nat /\ failures[m] \in Nat /\ n \in Nat
    BY AttemptsAssumption DEF BusInv, AttemptsFailed, TypeOK
  <2> QED  BY <1>1, <1>2, <1>3, <2>1
<1> QED  BY <1>2, <1>3, <1>4 DEF AttemptsFailed

LEMMA AckKeeps == ASSUME BusInv, NEW d \in dispatches, Ack(d)  PROVE BusInv'
<1>1. SetAttempts(d, 0) /\ Settle(d, "done") /\ Leave(d)
      /\ UNCHANGED <<bus, effects, failures, crashes, disconnects>>
  BY DEF Ack
<1>2. /\ attempts' \in [Replicas -> [Messages -> 0..(MaxAttempts - 1)]]
      /\ attempts'[d.at][d.msg] = 0
      /\ \A c \in Replicas, m \in Messages : c # d.at \/ m # d.msg => attempts'[c][m] = attempts[c][m]
  BY <1>1, CounterSet, AttemptsAssumption DEF BusInv
<1>3. failures' \in [Messages -> Nat] /\ AttemptsFailed'
  BY <1>1, <1>2 DEF BusInv, AttemptsFailed, TypeOK
<1> QED  BY <1>1, <1>2, <1>3, LeavingKeeps DEF Places

LEMMA AckRaisesKeeps == ASSUME BusInv, NEW d \in dispatches, AckRaises(d)  PROVE BusInv'
<1>1. ~Live(d) /\ failures' = [failures EXCEPT ![d.msg] = @ + 1]
      /\ UNCHANGED <<bus, place, effects, crashes, disconnects>>
  BY DEF AckRaises, AckWouldRaise
<1>2. attempts[d.at][d.msg] \in Nat  BY DEF BusInv, TypeOK, Dispatch
<1>3. CASE MaxAttempts > 1
  <2>1. SetAttempts(d, 1) /\ Turn(d, "backoff")  BY <1>3 DEF AckRaises
  <2>9. 1 \in 0..(MaxAttempts - 1) /\ 1 <= attempts[d.at][d.msg] + 1  BY <1>2, <1>3, AttemptsAssumption
  <2>2. /\ attempts' \in [Replicas -> [Messages -> 0..(MaxAttempts - 1)]]
        /\ failures' \in [Messages -> Nat] /\ AttemptsFailed'
    BY <1>1, <2>1, <2>9, OneMoreFailure
  <2> QED  BY <1>1, <2>1, <2>2, TurningKeeps
<1>4. CASE ~(MaxAttempts > 1)
  <2>1. SetAttempts(d, 0) /\ Leave(d)  BY <1>4 DEF AckRaises
  <2>9. 0 \in 0..(MaxAttempts - 1) /\ 0 <= attempts[d.at][d.msg] + 1  BY <1>2, AttemptsAssumption
  <2>2. /\ attempts' \in [Replicas -> [Messages -> 0..(MaxAttempts - 1)]]
        /\ failures' \in [Messages -> Nat] /\ AttemptsFailed'
    BY <1>1, <2>1, <2>9, OneMoreFailure
  <2>3. Settle(d, "done")  BY <1>1 DEF Settle
  <2> QED  BY <1>1, <2>1, <2>2, <2>3, LeavingKeeps DEF Places
<1> QED  BY <1>3, <1>4

LEMMA RejectKeeps == ASSUME BusInv, NEW d \in dispatches, Reject(d)  PROVE BusInv'
<1>1. Settle(d, "rejected") /\ Leave(d) /\ UNCHANGED <<bus, attempts, effects, failures, crashes, disconnects>>
  BY DEF Reject
<1>2. /\ attempts' \in [Replicas -> [Messages -> 0..(MaxAttempts - 1)]]
      /\ failures' \in [Messages -> Nat] /\ AttemptsFailed'
  BY <1>1 DEF BusInv, TypeOK, AttemptsFailed
<1> QED  BY <1>1, <1>2, LeavingKeeps DEF Places

LEMMA FailKeeps == ASSUME BusInv, NEW d \in dispatches, Fail(d)  PROVE BusInv'
<1>1. failures' = [failures EXCEPT ![d.msg] = @ + 1] /\ UNCHANGED <<bus, effects, crashes, disconnects>>
  BY DEF Fail
<1>2. attempts[d.at][d.msg] \in 0..(MaxAttempts - 1)  BY DEF BusInv, TypeOK, Dispatch
<1>3. CASE attempts[d.at][d.msg] + 1 >= MaxAttempts
  <2>1. SetAttempts(d, 0) /\ Settle(d, "dead") /\ Leave(d)  BY <1>3 DEF Fail
  <2>9. 0 \in 0..(MaxAttempts - 1) /\ 0 <= attempts[d.at][d.msg] + 1  BY <1>2, AttemptsAssumption
  <2>2. /\ attempts' \in [Replicas -> [Messages -> 0..(MaxAttempts - 1)]]
        /\ failures' \in [Messages -> Nat] /\ AttemptsFailed'
    BY <1>1, <2>1, <2>9, OneMoreFailure
  <2> QED  BY <1>1, <2>1, <2>2, LeavingKeeps DEF Places
<1>4. CASE ~(attempts[d.at][d.msg] + 1 >= MaxAttempts)
  <2>1. SetAttempts(d, attempts[d.at][d.msg] + 1) /\ Turn(d, "backoff") /\ UNCHANGED place
    BY <1>4 DEF Fail
  <2>2. attempts[d.at][d.msg] + 1 \in 0..(MaxAttempts - 1)
        /\ attempts[d.at][d.msg] + 1 <= attempts[d.at][d.msg] + 1
    BY <1>2, <1>4, AttemptsAssumption
  <2>3. /\ attempts' \in [Replicas -> [Messages -> 0..(MaxAttempts - 1)]]
        /\ failures' \in [Messages -> Nat] /\ AttemptsFailed'
    BY <1>1, <2>1, <2>2, OneMoreFailure
  <2> QED  BY <1>1, <2>1, <2>3, TurningKeeps
<1> QED  BY <1>3, <1>4

LEMMA RequeueKeeps == ASSUME BusInv, NEW d \in dispatches, Requeue(d)  PROVE BusInv'
<1>1. Settle(d, "ready") /\ Leave(d) /\ UNCHANGED <<bus, attempts, effects, failures, crashes, disconnects>>
  BY DEF Requeue
<1>2. /\ attempts' \in [Replicas -> [Messages -> 0..(MaxAttempts - 1)]]
      /\ failures' \in [Messages -> Nat] /\ AttemptsFailed'
  BY <1>1 DEF BusInv, TypeOK, AttemptsFailed
<1> QED  BY <1>1, <1>2, LeavingKeeps DEF Places

\* The broker takes back what was live at the replica and leaves the rest alone.
LEMMA Requeueing ==
  ASSUME BusInv, NEW c \in Replicas, place' = Requeued(c)
  PROVE  /\ place' \in [Messages -> Places]
         /\ \A d \in LiveAt(c) : place'[d.msg] = "ready"
         /\ \A m \in Messages : \/ place'[m] = place[m] /\ \A d \in LiveAt(c) : d.msg # m
                                \/ place'[m] = "ready" /\ place[m] = "unacked" /\ \E d \in LiveAt(c) : d.msg = m
<1>1. \A d \in LiveAt(c) : d \in dispatches /\ d.msg \in Messages /\ place[d.msg] = "unacked"
  BY DEF LiveAt, BusInv, TypeOK, Dispatch, Ownership, LiveIsUnacked
<1>2. \A m \in Messages : place'[m] = IF \E d \in LiveAt(c) : d.msg = m THEN "ready" ELSE place[m]
  BY DEF Requeued
<1>3. place' \in [Messages -> Places]
  BY DEF Requeued, BusInv, TypeOK, Places
<1> QED  BY <1>1, <1>2, <1>3

LEMMA CrashKeeps == ASSUME BusInv, NEW c \in Replicas, Crash(c)  PROVE BusInv'
<1> USE DEF BusInv
<1>1. /\ crashes + disconnects < MaxFaults /\ crashes' = crashes + 1 /\ place' = Requeued(c)
      /\ dispatches' = {d \in dispatches : d.at # c}
      /\ attempts' = [attempts EXCEPT ![c] = [m \in Messages |-> 0]]
      /\ UNCHANGED <<bus, effects, failures, disconnects>>
  BY DEF Crash
<1>2. /\ place' \in [Messages -> Places]
      /\ \A m \in Messages : \/ place'[m] = place[m] /\ \A d \in LiveAt(c) : d.msg # m
                             \/ place'[m] = "ready" /\ place[m] = "unacked" /\ \E d \in LiveAt(c) : d.msg = m
  BY <1>1, Requeueing
<1>3. attempts' \in [Replicas -> [Messages -> 0..(MaxAttempts - 1)]]
      /\ \A e \in Replicas, m \in Messages : attempts'[e][m] = IF e = c THEN 0 ELSE attempts[e][m]
  BY <1>1, AttemptsAssumption DEF TypeOK
<1>4. TypeOK'  BY <1>1, <1>2, <1>3 DEF TypeOK
<1>5. FaultsCounted'  BY <1>1, BoundsAssumption DEF TypeOK, FaultsCounted
<1>6. HandledTookEffect'  BY <1>1 DEF HandledTookEffect
<1>7. AttemptsFailed'  BY <1>1, <1>3 DEF AttemptsFailed, TypeOK
<1>8. \A d \in dispatches : d.msg \in Messages  BY DEF TypeOK, Dispatch
<1>9. DispatchedWasTaken' /\ OneEach' /\ LostBefore'
  BY <1>1, <1>2, <1>8 DEF Ownership, DispatchedWasTaken, OneEach, LostBefore
<1>10. LiveIsUnacked'
  <2> SUFFICES ASSUME NEW d \in dispatches', Live(d)  PROVE place'[d.msg] = "unacked"
    BY DEF LiveIsUnacked, Live
  <2>1. d \in dispatches /\ d.at # c /\ place[d.msg] = "unacked"  BY <1>1 DEF Ownership, LiveIsUnacked
  <2>2. \A e \in LiveAt(c) : e.msg # d.msg
    BY <2>1 DEF LiveAt, Ownership, OneEach, Live
  <2> QED  BY <1>2, <1>8, <2>1, <2>2
<1>11. UnackedIsLive'
  <2> SUFFICES ASSUME NEW m \in Messages, place'[m] = "unacked"
               PROVE \E d \in dispatches' : d.msg = m /\ Live(d)
    BY DEF UnackedIsLive, Live
  <2>1. place[m] = "unacked" /\ \A d \in LiveAt(c) : d.msg # m  BY <1>2
  <2>2. PICK d \in dispatches : d.msg = m /\ Live(d)  BY <2>1 DEF Ownership, UnackedIsLive
  <2> QED  BY <1>1, <2>1, <2>2 DEF LiveAt
<1> QED  BY <1>4, <1>5, <1>6, <1>7, <1>9, <1>10, <1>11 DEF Ownership

\* What a lost channel does to the dispatches: each keeps its message, its replica and its point.
LEMMA Orphaning ==
  ASSUME BusInv, NEW c \in Replicas, Disconnect(c)
  PROVE  /\ dispatches' \subseteq Dispatch
         /\ \A e \in dispatches' : \/ e \in dispatches /\ e \notin LiveAt(c)
                                   \/ /\ e.lost = disconnects + 1
                                      /\ \E d \in LiveAt(c) : e = [d EXCEPT !.lost = disconnects + 1]
                                                              /\ e.msg = d.msg /\ e.pc = d.pc /\ e.at = d.at
         /\ \A d \in dispatches : d \notin LiveAt(c) => d \in dispatches'
         /\ \A d \in LiveAt(c) : [d EXCEPT !.lost = disconnects + 1] \in dispatches'
<1> DEFINE orphan(d) == [d EXCEPT !.lost = disconnects + 1]
<1>1. /\ disconnects \in Nat /\ crashes \in Nat /\ crashes + disconnects < MaxFaults
      /\ dispatches' = {IF d \in LiveAt(c) THEN orphan(d) ELSE d : d \in dispatches}
  BY DEF Disconnect, BusInv, TypeOK
<1>2. disconnects + 1 \in 0..MaxFaults  BY <1>1, BoundsAssumption
<1>3. \A d \in LiveAt(c) : d \in dispatches  BY DEF LiveAt
<1>4. \A d \in dispatches : /\ d \in Dispatch /\ orphan(d) \in Dispatch /\ orphan(d).lost = disconnects + 1
                            /\ orphan(d).msg = d.msg /\ orphan(d).pc = d.pc /\ orphan(d).at = d.at
  BY <1>2 DEF BusInv, TypeOK, Dispatch
<1> HIDE DEF orphan
<1>5. /\ dispatches' \subseteq Dispatch
      /\ \A e \in dispatches' : \/ e \in dispatches /\ e \notin LiveAt(c)
                                \/ /\ e.lost = disconnects + 1
                                   /\ \E d \in LiveAt(c) : e = orphan(d)
                                                           /\ e.msg = d.msg /\ e.pc = d.pc /\ e.at = d.at
      /\ \A d \in dispatches : d \notin LiveAt(c) => d \in dispatches'
      /\ \A d \in LiveAt(c) : orphan(d) \in dispatches'
  BY <1>1, <1>3, <1>4
<1> QED  BY <1>5 DEF orphan

LEMMA DisconnectKeeps == ASSUME BusInv, NEW c \in Replicas, Disconnect(c)  PROVE BusInv'
<1> USE DEF BusInv
<1>1. /\ crashes + disconnects < MaxFaults /\ disconnects' = disconnects + 1 /\ place' = Requeued(c)
      /\ UNCHANGED <<bus, attempts, effects, failures, crashes>>
  BY DEF Disconnect
<1>2. /\ place' \in [Messages -> Places]
      /\ \A d \in LiveAt(c) : place'[d.msg] = "ready"
      /\ \A m \in Messages : \/ place'[m] = place[m] /\ \A d \in LiveAt(c) : d.msg # m
                             \/ place'[m] = "ready" /\ place[m] = "unacked" /\ \E d \in LiveAt(c) : d.msg = m
  BY <1>1, Requeueing
<1>3. /\ dispatches' \subseteq Dispatch
      /\ \A e \in dispatches' : \/ e \in dispatches /\ e \notin LiveAt(c)
                                \/ /\ e.lost = disconnects + 1
                                   /\ \E d \in LiveAt(c) : e = [d EXCEPT !.lost = disconnects + 1]
                                                           /\ e.msg = d.msg /\ e.pc = d.pc /\ e.at = d.at
      /\ \A d \in dispatches : d \notin LiveAt(c) => d \in dispatches'
      /\ \A d \in LiveAt(c) : [d EXCEPT !.lost = disconnects + 1] \in dispatches'
  BY Orphaning
<1>4. TypeOK'  BY <1>1, <1>2, <1>3 DEF TypeOK
<1>5. FaultsCounted'  BY <1>1, BoundsAssumption DEF TypeOK, FaultsCounted
<1>6. \A d \in LiveAt(c) : d \in dispatches /\ Live(d)  BY DEF LiveAt
<1>7. HandledTookEffect'  BY <1>1, <1>3, <1>6 DEF HandledTookEffect
<1>8. AttemptsFailed'  BY <1>1 DEF AttemptsFailed
<1>9. \A d \in dispatches : d.msg \in Messages /\ d.lost \in Nat /\ disconnects \in Nat  BY DEF TypeOK, Dispatch
<1>10. DispatchedWasTaken'
  BY <1>2, <1>3, <1>6, <1>9 DEF Ownership, DispatchedWasTaken
<1>11. LiveIsUnacked'
  <2> SUFFICES ASSUME NEW d \in dispatches', Live(d)  PROVE place'[d.msg] = "unacked"
    BY DEF LiveIsUnacked, Live
  <2>1. d.lost = 0  BY DEF Live
  <2>2. d \in dispatches /\ d \notin LiveAt(c)  BY <1>3, <2>1, <1>1 DEF TypeOK
  <2>3. place[d.msg] = "unacked" /\ d.at # c  BY <2>2 DEF Ownership, LiveIsUnacked, LiveAt
  <2>4. \A e \in LiveAt(c) : e.msg # d.msg
    BY <2>1, <2>2 DEF LiveAt, Ownership, OneEach, Live
  <2> QED  BY <1>2, <1>9, <2>2, <2>3, <2>4
<1>12. UnackedIsLive'
  <2> SUFFICES ASSUME NEW m \in Messages, place'[m] = "unacked"
               PROVE \E d \in dispatches' : d.msg = m /\ Live(d)
    BY DEF UnackedIsLive, Live
  <2>1. place[m] = "unacked" /\ \A d \in LiveAt(c) : d.msg # m  BY <1>2
  <2>2. PICK d \in dispatches : d.msg = m /\ Live(d)  BY <2>1 DEF Ownership, UnackedIsLive
  <2> QED  BY <1>3, <2>1, <2>2
<1>13. LostBefore'
  BY <1>1, <1>3, <1>9 DEF Ownership, LostBefore, TypeOK
<1>14. OneEach'
  <2> SUFFICES ASSUME NEW d \in dispatches', NEW e \in dispatches', d.msg = e.msg, d.lost = e.lost
               PROVE d = e
    BY DEF OneEach
  <2>1. CASE d \in dispatches /\ e \in dispatches  BY <2>1 DEF Ownership, OneEach
  <2>2. CASE d \notin dispatches \/ e \notin dispatches
    <3>1. \A f \in dispatches : f.lost # disconnects + 1  BY <1>9 DEF Ownership, LostBefore
    <3>2. d \notin dispatches /\ e \notin dispatches  BY <1>3, <2>2, <3>1
    <3>3. PICK f, g \in LiveAt(c) : /\ d = [f EXCEPT !.lost = disconnects + 1] /\ d.msg = f.msg
                                    /\ e = [g EXCEPT !.lost = disconnects + 1] /\ e.msg = g.msg
      BY <1>3, <3>2
    <3>4. f = g  BY <1>6, <3>3 DEF Ownership, OneEach, Live
    <3> QED  BY <3>3, <3>4
  <2> QED  BY <2>1, <2>2
<1> QED  BY <1>4, <1>5, <1>7, <1>8, <1>10, <1>11, <1>12, <1>13, <1>14 DEF Ownership

LEMMA BusInvStep == BusInv /\ [Next]_vars => BusInv'
<1> SUFFICES ASSUME BusInv, [Next]_vars  PROVE BusInv'  OBVIOUS
<1>1. CASE \E m \in Messages : Publish(m)  BY <1>1, PublishKeeps
<1>2. CASE \E c \in Replicas, m \in Messages : Deliver(c, m)  BY <1>2, DeliverKeeps
<1>3. CASE \E d \in dispatches : DispatchStep(d)
  BY <1>3, TakeEffectKeeps, AckKeeps, AckRaisesKeeps, RejectKeeps, FailKeeps, RequeueKeeps DEF DispatchStep
<1>4. CASE \E c \in Replicas : Crash(c) \/ Disconnect(c)  BY <1>4, CrashKeeps, DisconnectKeeps
<1>5. CASE UNCHANGED vars
  BY <1>5 DEF vars, BusInv, TypeOK, FaultsCounted, Ownership, DispatchedWasTaken, LiveIsUnacked,
              UnackedIsLive, OneEach, LostBefore, HandledTookEffect, AttemptsFailed, Live
<1> QED  BY <1>1, <1>2, <1>3, <1>4, <1>5 DEF Next

LEMMA BusInvHolds == Spec => []BusInv
BY BusInvInit, BusInvStep, PTL DEF Spec

\* The variables keep their types.
THEOREM BusTypeCorrect == Spec => []TypeOK
<1>1. BusInv => TypeOK  BY DEF BusInv
<1> QED  BY <1>1, BusInvHolds, PTL

\* A message that is unacked is held by exactly one dispatch that can still settle it, any other
\* by none, for any number of replicas, crashes and lost channels.
THEOREM EveryMessageHasOneOwner == Spec => []OneOwner
<1>1. BusInv => OneOwner
  <2> SUFFICES ASSUME BusInv, NEW m \in Messages
               PROVE  Cardinality({d \in dispatches : d.msg = m /\ Live(d)})
                        = (IF place[m] = "unacked" THEN 1 ELSE 0)
    BY DEF OneOwner
  <2> DEFINE owners == {d \in dispatches : d.msg = m /\ Live(d)}
  <2>1. CASE place[m] = "unacked"
    <3>1. PICK d \in dispatches : d.msg = m /\ Live(d)
      BY <2>1 DEF BusInv, Ownership, UnackedIsLive
    <3>2. owners = {d}  BY <3>1 DEF BusInv, Ownership, OneEach, Live
    <3> QED  BY <2>1, <3>2, FS_Singleton
  <2>2. CASE place[m] # "unacked"
    <3>1. owners = {}  BY <2>2 DEF BusInv, Ownership, LiveIsUnacked
    <3> QED  BY <2>2, <3>1, FS_EmptySet
  <2> QED  BY <2>1, <2>2
<1> QED  BY <1>1, BusInvHolds, PTL

-------------------------------------------------------------------------------
(* The refinement.                                                             *)

Handled == {m \in Messages : effects[m] > 0}

\* What a step does to the fates, told from what it does to the places.
LEMMA SameFate ==
  ASSUME \A m \in Messages : \/ place'[m] = place[m]
                             \/ place[m] \in {"ready", "unacked"} /\ place'[m] \in {"ready", "unacked"}
  PROVE  UNCHANGED Fate
BY DEF Fate

LEMMA NewFate ==
  ASSUME TypeOK, NEW m \in Messages, NEW where \in Places, place' = [place EXCEPT ![m] = where]
  PROVE  Fate' = [Fate EXCEPT ![m] = IF where \in {"ready", "unacked"} THEN "held" ELSE where]
BY DEF Fate, TypeOK

\* The places after a dispatch that can still settle the message settles it, and after any other.
LEMMA SettledFate ==
  ASSUME BusInv, NEW d \in dispatches, NEW where \in {"done", "rejected", "dead"}, Settle(d, where)
  PROVE  /\ d.msg \in Messages
         /\ Live(d) => Fate[d.msg] = "held" /\ Fate' = [Fate EXCEPT ![d.msg] = where]
         /\ ~Live(d) => UNCHANGED Fate
<1>1. d.msg \in Messages  BY DEF BusInv, TypeOK, Dispatch
<1>2. CASE Live(d)
  <2>1. place[d.msg] = "unacked"  BY <1>2 DEF BusInv, Ownership, LiveIsUnacked
  <2>2. Fate[d.msg] = "held"  BY <1>1, <2>1 DEF Fate
  <2>3. place' = [place EXCEPT ![d.msg] = where]  BY <1>2 DEF Settle
  <2>4. where \in Places /\ where \notin {"ready", "unacked"}  BY DEF Places
  <2>5. Fate' = [Fate EXCEPT ![d.msg] = IF where \in {"ready", "unacked"} THEN "held" ELSE where]
    BY <1>1, <2>3, <2>4, NewFate DEF BusInv
  <2>6. Fate' = [Fate EXCEPT ![d.msg] = where]  BY <2>4, <2>5
  <2> QED  BY <1>1, <1>2, <2>2, <2>6
<1>3. CASE ~Live(d)  BY <1>1, <1>3, SameFate DEF Settle
<1> QED  BY <1>2, <1>3

\* A dispatch is of a message the broker took.
LEMMA DispatchedFate ==
  ASSUME BusInv, NEW d \in dispatches
  PROVE  d.msg \in Messages /\ Fate[d.msg] \notin {"unsent", "lost"}
BY DEF BusInv, TypeOK, Dispatch, Ownership, DispatchedWasTaken, Fate

LEMMA PromiseInit == Init => Promise!Init
BY DEF Init, Promise!Init, Fate

LEMMA PromiseStep ==
  ASSUME BusInv, [Next]_vars
  PROVE  [Promise!Next]_<<Fate, Handled, failures>>
<1> DEFINE Stutter == UNCHANGED <<Fate, Handled, failures>>
<1>1. ASSUME NEW m \in Messages, Publish(m)  PROVE Promise!Publish(m)
  <2>1. PICK where \in {"ready", "lost"} : place' = [place EXCEPT ![m] = where]  BY <1>1 DEF Publish
  <2>2. Fate' = [Fate EXCEPT ![m] = IF where = "ready" THEN "held" ELSE "lost"]
    BY <2>1, NewFate DEF BusInv, Places
  <2>3. Fate[m] = "unsent" /\ UNCHANGED <<Handled, failures>>  BY <1>1 DEF Publish, Fate, Handled
  <2> QED  BY <2>1, <2>2, <2>3 DEF Promise!Publish, Promise!Become, Handled
<1>2. ASSUME NEW c \in Replicas, NEW m \in Messages, Deliver(c, m)  PROVE Stutter
  <2>1. place' = [place EXCEPT ![m] = "unacked"] /\ place[m] = "ready" /\ UNCHANGED <<effects, failures>>
    BY <1>2 DEF Deliver
  <2>2. UNCHANGED Fate  BY <2>1, SameFate DEF BusInv, TypeOK
  <2> QED  BY <2>1, <2>2 DEF Handled
<1>3. ASSUME NEW d \in dispatches, TakeEffect(d)  PROVE Promise!Handle(d.msg)
  <2>1. d.msg \in Messages /\ Fate[d.msg] \notin {"unsent", "lost"}  BY DispatchedFate
  <2>2. UNCHANGED <<place, failures>>  BY <1>3 DEF TakeEffect
  <2>3. UNCHANGED Fate  BY <2>2, SameFate
  <2>4. /\ effects'[d.msg] > 0 /\ \A n \in Messages : n # d.msg => effects'[n] = effects[n]
    BY <1>3, <2>1 DEF TakeEffect, BusInv, TypeOK
  <2>5. Handled' = Handled \union {d.msg}  BY <2>1, <2>4 DEF Handled
  <2> QED  BY <2>1, <2>2, <2>3, <2>5 DEF Promise!Handle, Handled
<1>4. ASSUME NEW d \in dispatches, Ack(d)  PROVE Promise!Finish(d.msg) \/ Stutter
  <2>1. Settle(d, "done") /\ d.pc = "handled" /\ UNCHANGED <<effects, failures>>  BY <1>4 DEF Ack
  <2>2. /\ d.msg \in Messages
        /\ Live(d) => Fate[d.msg] = "held" /\ Fate' = [Fate EXCEPT ![d.msg] = "done"]
        /\ ~Live(d) => UNCHANGED Fate
    BY <2>1, SettledFate
  <2>3. d.msg \in Handled /\ UNCHANGED Handled  BY <2>1, <2>2 DEF BusInv, HandledTookEffect, Handled
  <2> QED  BY <2>1, <2>2, <2>3 DEF Promise!Finish, Promise!Become, Handled
<1>5. ASSUME NEW d \in dispatches, AckRaises(d)  PROVE Promise!FailOnce(d.msg)
  <2>1. UNCHANGED <<place, effects>> /\ failures' = [failures EXCEPT ![d.msg] = @ + 1]  BY <1>5 DEF AckRaises
  <2>2. UNCHANGED Fate  BY <2>1, SameFate
  <2> QED  BY <2>1, <2>2, DispatchedFate DEF Promise!FailOnce, Handled
<1>6. ASSUME NEW d \in dispatches, Reject(d)  PROVE Promise!Refuse(d.msg) \/ Stutter
  <2>1. Settle(d, "rejected") /\ UNCHANGED <<effects, failures>>  BY <1>6 DEF Reject
  <2>2. /\ Live(d) => Fate[d.msg] = "held" /\ Fate' = [Fate EXCEPT ![d.msg] = "rejected"]
        /\ ~Live(d) => UNCHANGED Fate
    BY <2>1, SettledFate
  <2> QED  BY <2>1, <2>2 DEF Promise!Refuse, Promise!Become, Handled
<1>7. ASSUME NEW d \in dispatches, Fail(d)  PROVE Promise!FailOnce(d.msg)
  <2>1. failures' = [failures EXCEPT ![d.msg] = @ + 1] /\ UNCHANGED effects  BY <1>7 DEF Fail
  <2>2. d.msg \in Messages /\ Fate[d.msg] \notin {"unsent", "lost"}  BY DispatchedFate
  <2>3. CASE attempts[d.at][d.msg] + 1 >= MaxAttempts
    <3>1. Settle(d, "dead")  BY <1>7, <2>3 DEF Fail
    <3>2. /\ Live(d) => Fate[d.msg] = "held" /\ Fate' = [Fate EXCEPT ![d.msg] = "dead"]
          /\ ~Live(d) => UNCHANGED Fate
      BY <3>1, SettledFate
    <3>3. attempts[d.at][d.msg] <= failures[d.msg] /\ attempts[d.at][d.msg] \in Nat /\ failures[d.msg] \in Nat
      BY DEF BusInv, AttemptsFailed, TypeOK, Dispatch
    <3>4. failures[d.msg] + 1 >= MaxAttempts  BY <2>3, <3>3, AttemptsAssumption
    <3> QED  BY <2>1, <2>2, <3>2, <3>4 DEF Promise!FailOnce, Promise!Become, Handled
  <2>4. CASE ~(attempts[d.at][d.msg] + 1 >= MaxAttempts)
    <3>1. UNCHANGED place  BY <1>7, <2>4 DEF Fail
    <3>2. UNCHANGED Fate  BY <3>1, SameFate
    <3> QED  BY <2>1, <2>2, <3>2 DEF Promise!FailOnce, Handled
  <2> QED  BY <2>3, <2>4
<1>8. ASSUME NEW d \in dispatches, Requeue(d)  PROVE Stutter
  <2>1. Settle(d, "ready") /\ UNCHANGED <<effects, failures>>  BY <1>8 DEF Requeue
  <2>2. Live(d) => place[d.msg] = "unacked"  BY DEF BusInv, Ownership, LiveIsUnacked
  <2>3. \A m \in Messages : \/ place'[m] = place[m]
                            \/ place[m] = "unacked" /\ place'[m] = "ready"
    BY <2>1, <2>2 DEF Settle, BusInv, TypeOK
  <2>4. UNCHANGED Fate  BY <2>3, SameFate
  <2> QED  BY <2>1, <2>4 DEF Handled
<1>9. ASSUME NEW c \in Replicas, Crash(c) \/ Disconnect(c)  PROVE Stutter
  <2>1. place' = Requeued(c) /\ UNCHANGED <<effects, failures>>  BY <1>9 DEF Crash, Disconnect
  <2>2. \A m \in Messages : \/ place'[m] = place[m]
                            \/ place[m] = "unacked" /\ place'[m] = "ready"
    BY <2>1, Requeueing
  <2>3. UNCHANGED Fate  BY <2>2, SameFate
  <2> QED  BY <2>1, <2>3 DEF Handled
<1>10. ASSUME UNCHANGED vars  PROVE Stutter
  BY <1>10 DEF vars, Fate, Handled
<1>11. ASSUME NEW d \in dispatches, DispatchStep(d)  PROVE Promise!Next \/ Stutter
  BY <1>3, <1>4, <1>5, <1>6, <1>7, <1>8, <1>11, DispatchedFate DEF DispatchStep, Promise!Next
<1>12. ASSUME Next  PROVE Promise!Next \/ Stutter
  BY <1>1, <1>2, <1>9, <1>11, <1>12 DEF Next, Promise!Next
<1> QED  BY <1>10, <1>12

\* Whatever crashes, redeliveries and orphaned handlers do, a message the broker took stays held
\* until a handler of it took effect, refused it, or failed as often as the bus is patient.
THEOREM BusImplementsAtLeastOnce == Spec => AtLeastOnceHandling
<1>1. Init => Promise!Init  BY PromiseInit
<1>2. BusInv /\ [Next]_vars => [Promise!Next]_<<Fate, Handled, failures>>  BY PromiseStep
<1> QED  BY <1>1, <1>2, BusInvHolds, PTL DEF Spec, AtLeastOnceHandling, Promise!Spec, Handled

-------------------------------------------------------------------------------
(* The bound on failures: every failure is in a counter, or was forgotten with *)
(* a crash, or with a dispatch that lost its channel and is over, or is the    *)
(* one that settled the message.                                               *)

\* The failures of m that the counters of the replicas remember, one pair for each.
Remembered(m) == {p \in Replicas \X (1..(MaxAttempts - 1)) : p[2] <= attempts[p[1]][m]}

\* The disconnects that left no dispatch of m which can still fail or drop a counter.
Over(m) == {k \in 1..disconnects :
              \A d \in dispatches : d.msg = m /\ d.lost = k => d.pc = "backoff"}

Open(m) == place[m] \in {"unsent", "lost", "ready", "unacked"}

Explained(m) ==
  failures[m] <= crashes * (MaxAttempts - 1) + Cardinality(Over(m)) * MaxAttempts
                 + (IF Open(m) THEN Cardinality(Remembered(m))
                               ELSE Cardinality(Replicas) * (MaxAttempts - 1) + 1)

FailuresExplained == \A m \in Messages : Explained(m)

LEMMA Bounds ==
  /\ MaxAttempts \in Nat /\ MaxAttempts >= 1 /\ MaxAttempts - 1 \in Nat
  /\ IsFiniteSet(Replicas) /\ Cardinality(Replicas) \in Nat
  /\ IsFiniteSet(Replicas \X (1..(MaxAttempts - 1)))
  /\ Cardinality(Replicas \X (1..(MaxAttempts - 1))) = Cardinality(Replicas) * (MaxAttempts - 1)
<1>1. MaxAttempts \in Nat /\ MaxAttempts >= 1 /\ MaxAttempts - 1 \in Nat  BY AttemptsAssumption
<1>2. IsFiniteSet(1..(MaxAttempts - 1)) /\ Cardinality(1..(MaxAttempts - 1)) = MaxAttempts - 1
  <2>1. 1 \in Int /\ MaxAttempts - 1 \in Int  BY <1>1
  <2>2. /\ IsFiniteSet(1..(MaxAttempts - 1))
        /\ Cardinality(1..(MaxAttempts - 1)) = IF 1 > MaxAttempts - 1 THEN 0 ELSE (MaxAttempts - 1) - 1 + 1
    BY <2>1, FS_Interval
  <2> QED  BY <1>1, <2>2
<1>3. IsFiniteSet(Replicas) /\ Cardinality(Replicas) \in Nat  BY SetsAssumption, FS_CardinalityType
<1>4. /\ IsFiniteSet(Replicas \X (1..(MaxAttempts - 1)))
      /\ Cardinality(Replicas \X (1..(MaxAttempts - 1)))
           = Cardinality(Replicas) * Cardinality(1..(MaxAttempts - 1))
  BY <1>2, <1>3, FS_Product
<1> QED  BY <1>1, <1>2, <1>3, <1>4

\* The counters of all replicas together remember a bounded number of failures.
LEMMA RememberedBounded ==
  ASSUME NEW m \in Messages
  PROVE  /\ IsFiniteSet(Remembered(m)) /\ Cardinality(Remembered(m)) \in Nat
         /\ Cardinality(Remembered(m)) <= Cardinality(Replicas) * (MaxAttempts - 1)
<1>1. Remembered(m) \in SUBSET (Replicas \X (1..(MaxAttempts - 1)))  BY DEF Remembered
<1> QED  BY <1>1, Bounds, FS_Subset, FS_CardinalityType

LEMMA OverBounded ==
  ASSUME TypeOK, NEW m \in Messages
  PROVE  /\ IsFiniteSet(Over(m)) /\ Cardinality(Over(m)) \in Nat /\ Cardinality(Over(m)) <= disconnects
<1>1. disconnects \in Nat /\ 1 \in Int /\ disconnects \in Int  BY DEF TypeOK
<1>2. /\ IsFiniteSet(1..disconnects)
      /\ Cardinality(1..disconnects) = IF 1 > disconnects THEN 0 ELSE disconnects - 1 + 1
  BY <1>1, FS_Interval
<1>3. Cardinality(1..disconnects) = disconnects  BY <1>1, <1>2
<1>4. Over(m) \in SUBSET (1..disconnects)  BY DEF Over
<1> QED  BY <1>2, <1>3, <1>4, FS_Subset, FS_CardinalityType

\* What one counter remembers: no more than the attempts before the last.
LEMMA OneCounter ==
  ASSUME NEW c \in Replicas
  PROVE  /\ IsFiniteSet({c} \X (1..(MaxAttempts - 1)))
         /\ Cardinality({c} \X (1..(MaxAttempts - 1))) = MaxAttempts - 1
<1>1. IsFiniteSet(1..(MaxAttempts - 1)) /\ Cardinality(1..(MaxAttempts - 1)) = MaxAttempts - 1
  <2>1. 1 \in Int /\ MaxAttempts - 1 \in Int  BY Bounds
  <2>2. /\ IsFiniteSet(1..(MaxAttempts - 1))
        /\ Cardinality(1..(MaxAttempts - 1)) = IF 1 > MaxAttempts - 1 THEN 0 ELSE (MaxAttempts - 1) - 1 + 1
    BY <2>1, FS_Interval
  <2> QED  BY Bounds, <2>2
<1>2. IsFiniteSet({c}) /\ Cardinality({c}) = 1  BY FS_Singleton
<1>3. /\ IsFiniteSet({c} \X (1..(MaxAttempts - 1)))
      /\ Cardinality({c} \X (1..(MaxAttempts - 1))) = Cardinality({c}) * Cardinality(1..(MaxAttempts - 1))
  BY <1>1, <1>2, FS_Product
<1> QED  BY <1>1, <1>2, <1>3, Bounds

\* A counter that is dropped forgets at most the attempts before the last.
LEMMA CounterForgets ==
  ASSUME TypeOK, NEW m \in Messages, NEW c \in Replicas,
         \A e \in Replicas : e # c => attempts'[e][m] = attempts[e][m]
  PROVE  Cardinality(Remembered(m)) <= Cardinality(Remembered(m)') + (MaxAttempts - 1)
<1> DEFINE all == {c} \X (1..(MaxAttempts - 1))
           new == {p \in Replicas \X (1..(MaxAttempts - 1)) : p[2] <= attempts'[p[1]][m]}
<1>1. new = Remembered(m)'  BY DEF Remembered
<1>2. IsFiniteSet(new) /\ Cardinality(new) \in Nat
  <2>1. new \in SUBSET (Replicas \X (1..(MaxAttempts - 1)))  OBVIOUS
  <2> QED  BY <2>1, Bounds, FS_Subset, FS_CardinalityType
<1>3. IsFiniteSet(all) /\ Cardinality(all) = MaxAttempts - 1 /\ MaxAttempts - 1 \in Nat  BY OneCounter, Bounds
<1>4. Remembered(m) \in SUBSET (new \union all)
  <2> SUFFICES ASSUME NEW p \in Remembered(m), p \notin all  PROVE p \in new  BY Zenon
  <2>1. /\ p \in Replicas \X (1..(MaxAttempts - 1)) /\ p[2] <= attempts[p[1]][m]
        /\ p[1] \in Replicas /\ p[2] \in 1..(MaxAttempts - 1) /\ p = <<p[1], p[2]>>
    BY DEF Remembered
  <2>2. p[1] # c  BY <2>1
  <2> QED  BY <2>1, <2>2
<1> HIDE DEF all, new
<1>5. /\ IsFiniteSet(new \union all)
      /\ Cardinality(new \union all) = Cardinality(new) + Cardinality(all) - Cardinality(new \cap all)
  BY <1>2, <1>3, FS_Union
<1>6. Cardinality(new \cap all) \in Nat
  BY <1>2, FS_Intersection, FS_CardinalityType
<1>7. Cardinality(Remembered(m)) <= Cardinality(new \union all) /\ Cardinality(Remembered(m)) \in Nat
  BY <1>4, <1>5, FS_Subset, FS_CardinalityType
<1> QED  BY <1>1, <1>2, <1>3, <1>5, <1>6, <1>7

\* One more attempt is one more failure remembered.
LEMMA CounterGrows ==
  ASSUME TypeOK, NEW m \in Messages, NEW c \in Replicas, attempts[c][m] + 1 \in 1..(MaxAttempts - 1),
         attempts'[c][m] = attempts[c][m] + 1,
         \A e \in Replicas : e # c => attempts'[e][m] = attempts[e][m]
  PROVE  Cardinality(Remembered(m)') = Cardinality(Remembered(m)) + 1
<1> DEFINE p == <<c, attempts[c][m] + 1>>
<1>1. attempts[c][m] \in Nat  BY DEF TypeOK
<1>2. p \notin Remembered(m)  BY <1>1 DEF Remembered
<1>3. Remembered(m)' = Remembered(m) \union {p}
  <2>1. ASSUME NEW q \in Replicas \X (1..(MaxAttempts - 1))
        PROVE  q[2] <= attempts'[q[1]][m] <=> q[2] <= attempts[q[1]][m] \/ q = p
    <3>1. q[1] \in Replicas /\ q[2] \in 1..(MaxAttempts - 1) /\ q = <<q[1], q[2]>>  OBVIOUS
    <3>2. CASE q[1] = c
      <4>1. q[2] <= attempts[c][m] + 1 <=> q[2] <= attempts[c][m] \/ q[2] = attempts[c][m] + 1
        BY <1>1, <3>1
      <4>2. q = p <=> q[2] = attempts[c][m] + 1  BY <3>1, <3>2
      <4> QED  BY <3>2, <4>1, <4>2
    <3>3. CASE q[1] # c  BY <3>1, <3>3
    <3> QED  BY <3>2, <3>3
  <2>2. p \in Replicas \X (1..(MaxAttempts - 1))  OBVIOUS
  <2> HIDE DEF p
  <2> QED  BY <2>1, <2>2 DEF Remembered
<1>4. IsFiniteSet(Remembered(m)) /\ Cardinality(Remembered(m)) \in Nat  BY RememberedBounded
<1> HIDE DEF p
<1> QED  BY <1>2, <1>3, <1>4, FS_AddElement

\* Over grows as long as no dispatch starts to hold a disconnect open again.
LEMMA OverKeeps ==
  ASSUME TypeOK, TypeOK', NEW m \in Messages, disconnects <= disconnects',
         \A e \in dispatches' : e.msg = m /\ e.lost \in 1..disconnects =>
           \/ e.pc = "backoff"
           \/ \E d \in dispatches : d.msg = m /\ d.lost = e.lost /\ d.pc # "backoff"
  PROVE  Cardinality(Over(m)) <= Cardinality(Over(m)')
<1>1. disconnects \in Nat /\ disconnects' \in Nat  BY DEF TypeOK
<1> DEFINE over == {k \in 1..disconnects' : \A d \in dispatches' : d.msg = m /\ d.lost = k => d.pc = "backoff"}
<1>2. over = Over(m)'  BY DEF Over
<1>3. Over(m) \in SUBSET over
  <2> SUFFICES ASSUME NEW k \in Over(m), NEW d \in dispatches', d.msg = m, d.lost = k, d.pc # "backoff"
               PROVE  FALSE
    BY <1>1 DEF Over
  <2>1. k \in 1..disconnects /\ \A e \in dispatches : e.msg = m /\ e.lost = k => e.pc = "backoff"  BY DEF Over
  <2> QED  BY <2>1
<1>4. over \in SUBSET (1..disconnects')  OBVIOUS
<1>5. disconnects' \in Int /\ 1 \in Int  BY <1>1
<1>6. IsFiniteSet(over)  BY <1>4, <1>5, FS_Interval, FS_Subset
<1> HIDE DEF over
<1> QED  BY <1>2, <1>3, <1>6, FS_Subset

\* An orphan that is over, or has nothing left to do but a nack without effect, adds one to Over.
LEMMA OverGrows ==
  ASSUME BusInv, TypeOK', NEW d \in dispatches, ~Live(d), d.pc # "backoff", UNCHANGED disconnects,
         \A e \in dispatches' : e.pc = "backoff" \/ (e \in dispatches /\ e # d)
  PROVE  Cardinality(Over(d.msg)) + 1 <= Cardinality(Over(d.msg)')
<1> DEFINE m == d.msg
           over == {k \in 1..disconnects : \A e \in dispatches' : e.msg = m /\ e.lost = k => e.pc = "backoff"}
<1>1. m \in Messages /\ d.lost \in Nat /\ disconnects \in Nat  BY DEF BusInv, TypeOK, Dispatch
<1>2. over = Over(d.msg)'  BY DEF Over
<1>3. d.lost \in 1..disconnects  BY <1>1 DEF Live, BusInv, Ownership, LostBefore
<1>4. d.lost \notin Over(m)  BY DEF Over
<1>5. d.lost \in over
  <2> SUFFICES ASSUME NEW e \in dispatches', e.msg = m, e.lost = d.lost, e.pc # "backoff"  PROVE FALSE
    BY <1>3
  <2>1. e \in dispatches /\ e # d  OBVIOUS
  <2> QED  BY <2>1 DEF BusInv, Ownership, OneEach
<1>6. Over(m) \subseteq over  BY DEF Over
<1>7. Over(m) \union {d.lost} \in SUBSET over  BY <1>5, <1>6
<1>8. over \in SUBSET (1..disconnects)  OBVIOUS
<1>9. IsFiniteSet(over)
  <2>1. disconnects \in Int /\ 1 \in Int  BY <1>1
  <2> QED  BY <1>8, <2>1, FS_Interval, FS_Subset
<1>10. IsFiniteSet(Over(m)) /\ Cardinality(Over(m)) \in Nat  BY <1>1, OverBounded DEF BusInv
<1>11. Cardinality(Over(m) \union {d.lost}) = Cardinality(Over(m)) + 1  BY <1>4, <1>10, FS_AddElement
<1> HIDE DEF over
<1>12. Cardinality(Over(m) \union {d.lost}) <= Cardinality(over)  BY <1>7, <1>9, FS_Subset
<1> QED  BY <1>2, <1>11, <1>12

LEMMA SameMemory ==
  ASSUME NEW m \in Messages, \A c \in Replicas : attempts'[c][m] = attempts[c][m]
  PROVE  Remembered(m)' = Remembered(m)
<1>1. \A p \in Replicas \X (1..(MaxAttempts - 1)) : attempts'[p[1]][m] = attempts[p[1]][m]  OBVIOUS
<1> QED  BY <1>1 DEF Remembered

\* The numbers that the cases below compare.
Numbers(m) ==
  /\ failures[m] \in Nat /\ crashes \in Nat
  /\ Cardinality(Over(m)) \in Nat /\ Cardinality(Over(m)) <= disconnects
  /\ Cardinality(Remembered(m)) \in Nat
  /\ Cardinality(Remembered(m)) <= Cardinality(Replicas) * (MaxAttempts - 1)

NumbersTyped == \A m \in Messages : Numbers(m)

LEMMA NumbersNow == BusInv => NumbersTyped
BY OverBounded, RememberedBounded DEF BusInv, TypeOK, NumbersTyped, Numbers

LEMMA NumbersNext == BusInv' => NumbersTyped'
BY NumbersNow, PTL

\* Nothing failed, nothing is forgotten, and a settled message stays settled.
LEMMA QuietStep ==
  ASSUME BusInv, BusInv', NEW m \in Messages, Explained(m), failures'[m] = failures[m], crashes' = crashes,
         Cardinality(Over(m)) <= Cardinality(Over(m)'),
         Open(m)' => Open(m) /\ Cardinality(Remembered(m)) <= Cardinality(Remembered(m)')
  PROVE  Explained(m)'
<1>1. Numbers(m) /\ Numbers(m)'  BY NumbersNow, NumbersNext DEF NumbersTyped
<1> DEFINE A == MaxAttempts - 1
           R == Cardinality(Replicas) * A
           C == crashes * A
           O1 == Cardinality(Over(m)) * MaxAttempts
           O2 == Cardinality(Over(m)') * MaxAttempts
<1>2. C \in Nat /\ R \in Nat /\ O1 \in Nat /\ O2 \in Nat /\ O1 <= O2  BY <1>1, Bounds DEF Numbers
<1>3. failures[m] <= C + O1 + (IF Open(m) THEN Cardinality(Remembered(m)) ELSE R + 1)  BY DEF Explained
<1>4. SUFFICES failures[m] <= C + O2 + (IF Open(m)' THEN Cardinality(Remembered(m)') ELSE R + 1)
  BY DEF Explained
<1>5. /\ Cardinality(Remembered(m)) \in Nat /\ Cardinality(Remembered(m)') \in Nat /\ failures[m] \in Nat
      /\ Cardinality(Remembered(m)) <= R
  BY <1>1 DEF Numbers
<1> HIDE DEF A, R, C, O1, O2
<1> QED  BY <1>2, <1>3, <1>5

\* A failure, and a counter dropped, by a dispatch without a channel that does no more.
LEMMA OrphanStep ==
  ASSUME BusInv, BusInv', NEW m \in Messages, Explained(m), failures'[m] \in {failures[m], failures[m] + 1},
         crashes' = crashes, place' = place,
         Cardinality(Over(m)) + 1 <= Cardinality(Over(m)'),
         Cardinality(Remembered(m)) <= Cardinality(Remembered(m)') + (MaxAttempts - 1)
  PROVE  Explained(m)'
<1>1. Numbers(m) /\ Numbers(m)'  BY NumbersNow, NumbersNext DEF NumbersTyped
<1> DEFINE A == MaxAttempts - 1
           R == Cardinality(Replicas) * A
           C == crashes * A
           O1 == Cardinality(Over(m)) * MaxAttempts
           O2 == Cardinality(Over(m)') * MaxAttempts
<1>2. C \in Nat /\ R \in Nat /\ O1 \in Nat /\ O2 \in Nat /\ O1 + A + 1 <= O2 /\ A \in Nat
  BY <1>1, Bounds DEF Numbers
<1>3. failures[m] <= C + O1 + (IF Open(m) THEN Cardinality(Remembered(m)) ELSE R + 1)  BY DEF Explained
<1>4. Open(m)' = Open(m)  BY DEF Open
<1>5. SUFFICES failures'[m] <= C + O2 + (IF Open(m) THEN Cardinality(Remembered(m)') ELSE R + 1)
  BY <1>4 DEF Explained
<1>6. /\ Cardinality(Remembered(m)) \in Nat /\ Cardinality(Remembered(m)') \in Nat /\ failures[m] \in Nat
      /\ Cardinality(Remembered(m)) <= Cardinality(Remembered(m)') + A
  BY <1>1 DEF Numbers
<1> HIDE DEF A, R, C, O1, O2
<1> QED  BY <1>2, <1>3, <1>6

\* A failure that its dispatch counts, or that settles the message.
LEMMA CountedStep ==
  ASSUME BusInv, BusInv', NEW m \in Messages, Explained(m), failures'[m] = failures[m] + 1, crashes' = crashes,
         Cardinality(Over(m)) <= Cardinality(Over(m)'), Open(m),
         Open(m)' => Cardinality(Remembered(m)') = Cardinality(Remembered(m)) + 1
  PROVE  Explained(m)'
<1>1. Numbers(m) /\ Numbers(m)'  BY NumbersNow, NumbersNext DEF NumbersTyped
<1> DEFINE A == MaxAttempts - 1
           R == Cardinality(Replicas) * A
           C == crashes * A
           O1 == Cardinality(Over(m)) * MaxAttempts
           O2 == Cardinality(Over(m)') * MaxAttempts
<1>2. C \in Nat /\ R \in Nat /\ O1 \in Nat /\ O2 \in Nat /\ O1 <= O2  BY <1>1, Bounds DEF Numbers
<1>3. failures[m] <= C + O1 + Cardinality(Remembered(m))  BY DEF Explained
<1>4. SUFFICES failures[m] + 1 <= C + O2 + (IF Open(m)' THEN Cardinality(Remembered(m)') ELSE R + 1)
  BY DEF Explained
<1>5. /\ Cardinality(Remembered(m)) \in Nat /\ Cardinality(Remembered(m)') \in Nat /\ failures[m] \in Nat
      /\ Cardinality(Remembered(m)) <= R
  BY <1>1 DEF Numbers
<1> HIDE DEF A, R, C, O1, O2
<1> QED  BY <1>2, <1>3, <1>5

\* A counter lost with its replica.
LEMMA CrashStep ==
  ASSUME BusInv, BusInv', NEW m \in Messages, Explained(m), failures'[m] = failures[m], crashes' = crashes + 1,
         Cardinality(Over(m)) <= Cardinality(Over(m)'), Open(m)' = Open(m),
         Cardinality(Remembered(m)) <= Cardinality(Remembered(m)') + (MaxAttempts - 1)
  PROVE  Explained(m)'
<1>1. Numbers(m) /\ Numbers(m)'  BY NumbersNow, NumbersNext DEF NumbersTyped
<1> DEFINE A == MaxAttempts - 1
           R == Cardinality(Replicas) * A
           C == crashes * A
           D == crashes' * A
           O1 == Cardinality(Over(m)) * MaxAttempts
           O2 == Cardinality(Over(m)') * MaxAttempts
<1>2. /\ C \in Nat /\ R \in Nat /\ O1 \in Nat /\ O2 \in Nat /\ O1 <= O2 /\ A \in Nat
      /\ D = C + A
  BY <1>1, Bounds DEF Numbers
<1>3. failures[m] <= C + O1 + (IF Open(m) THEN Cardinality(Remembered(m)) ELSE R + 1)  BY DEF Explained
<1>4. SUFFICES failures[m] <= D + O2 + (IF Open(m) THEN Cardinality(Remembered(m)') ELSE R + 1)
  BY DEF Explained
<1>5. /\ Cardinality(Remembered(m)) \in Nat /\ Cardinality(Remembered(m)') \in Nat /\ failures[m] \in Nat
      /\ Cardinality(Remembered(m)) <= Cardinality(Remembered(m)') + A
  BY <1>1 DEF Numbers
<1> HIDE DEF A, R, C, D, O1, O2
<1> QED  BY <1>2, <1>3, <1>5

\* A dispatch that turns, or leaves, disturbs Over of no message.
LEMMA StepsKeepOver ==
  ASSUME BusInv, BusInv', NEW d \in dispatches, UNCHANGED disconnects,
         Leave(d) \/ (\E to \in {"handled", "backoff"} : Turn(d, to) /\ d.pc # "backoff"),
         NEW m \in Messages
  PROVE  Cardinality(Over(m)) <= Cardinality(Over(m)')
<1>1. d \in Dispatch /\ disconnects \in Nat  BY DEF BusInv, TypeOK
<1>2. CASE Leave(d)
  <2>1. dispatches' \subseteq dispatches  BY <1>2 DEF Leave
  <2> QED  BY <1>1, <2>1, OverKeeps DEF BusInv
<1>3. ASSUME NEW to \in {"handled", "backoff"}, Turn(d, to), d.pc # "backoff"
      PROVE  Cardinality(Over(m)) <= Cardinality(Over(m)')
  <2> DEFINE new == [d EXCEPT !.pc = to]
  <2>1. dispatches' = (dispatches \ {d}) \union {new} /\ new.msg = d.msg /\ new.lost = d.lost
    BY <1>1, <1>3 DEF Turn, Dispatch
  <2> HIDE DEF new
  <2>2. ASSUME NEW e \in dispatches', e.msg = m, e.lost \in 1..disconnects, e.pc # "backoff"
        PROVE  \E f \in dispatches : f.msg = m /\ f.lost = e.lost /\ f.pc # "backoff"
    BY <1>3, <2>1, <2>2
  <2> QED  BY <1>1, <2>2, OverKeeps DEF BusInv
<1> QED  BY <1>2, <1>3

\* The messages a dispatch is not about keep what they had.
LEMMA OthersQuiet ==
  ASSUME BusInv, BusInv', FailuresExplained, NEW d \in dispatches, UNCHANGED <<crashes, disconnects>>,
         Leave(d) \/ (\E to \in {"handled", "backoff"} : Turn(d, to) /\ d.pc # "backoff"),
         NEW m \in Messages, m # d.msg,
         failures'[m] = failures[m], place'[m] = place[m],
         \A c \in Replicas : attempts'[c][m] = attempts[c][m]
  PROVE  Explained(m)'
<1>1. Cardinality(Over(m)) <= Cardinality(Over(m)')  BY StepsKeepOver
<1>2. Remembered(m)' = Remembered(m)  BY SameMemory
<1>3. Open(m)' = Open(m)  BY DEF Open
<1>4. Cardinality(Remembered(m)) <= Cardinality(Remembered(m)')
  BY <1>2, NumbersNow DEF NumbersTyped, Numbers
<1>5. Explained(m)  BY DEF FailuresExplained
<1> QED  BY <1>1, <1>3, <1>4, <1>5, QuietStep

\* What settling does to the place of each message.
LEMMA Settling ==
  ASSUME BusInv, NEW d \in dispatches, NEW where \in Places, Settle(d, where)
  PROVE  /\ d.msg \in Messages /\ d.at \in Replicas
         /\ Live(d) => place[d.msg] = "unacked" /\ place'[d.msg] = where
         /\ ~Live(d) => place' = place
         /\ \A m \in Messages : m # d.msg => place'[m] = place[m]
BY DEF Settle, BusInv, TypeOK, Dispatch, Ownership, LiveIsUnacked

LEMMA AckExplained ==
  ASSUME BusInv, BusInv', FailuresExplained, NEW d \in dispatches, Ack(d)
  PROVE  FailuresExplained'
<1>1. /\ SetAttempts(d, 0) /\ Settle(d, "done") /\ Leave(d) /\ d.pc = "handled"
      /\ UNCHANGED <<effects, failures, crashes, disconnects>>
  BY DEF Ack
<1>2. \A c \in Replicas, m \in Messages : c # d.at \/ m # d.msg => attempts'[c][m] = attempts[c][m]
  BY <1>1, CounterSet, AttemptsAssumption DEF BusInv
<1>3. /\ d.msg \in Messages /\ d.at \in Replicas
      /\ Live(d) => place[d.msg] = "unacked" /\ place'[d.msg] = "done"
      /\ ~Live(d) => place' = place
      /\ \A m \in Messages : m # d.msg => place'[m] = place[m]
  BY <1>1, Settling DEF Places
<1>4. ASSUME NEW m \in Messages  PROVE Explained(m)'
  <2>1. CASE m # d.msg  BY <1>1, <1>2, <1>3, <2>1, OthersQuiet
  <2>2. CASE m = d.msg /\ Live(d)
    <3>1. ~Open(m)'  BY <1>3, <2>2 DEF Open
    <3>2. Cardinality(Over(m)) <= Cardinality(Over(m)')  BY <1>1, StepsKeepOver
    <3> QED  BY <1>1, <3>1, <3>2, QuietStep DEF FailuresExplained
  <2>3. CASE m = d.msg /\ ~Live(d)
    <3>1. Cardinality(Over(m)) + 1 <= Cardinality(Over(m)')
      <4>1. TypeOK' /\ dispatches' = dispatches \ {d}  BY <1>1 DEF BusInv, Leave
      <4> QED  BY <1>1, <2>3, <4>1, OverGrows
    <3>2. Cardinality(Remembered(m)) <= Cardinality(Remembered(m)') + (MaxAttempts - 1)
      BY <1>2, <1>3, <2>3, CounterForgets DEF BusInv
    <3>3. place' = place /\ crashes' = crashes /\ failures'[m] \in {failures[m], failures[m] + 1} /\ Explained(m)
      BY <1>1, <1>3, <2>3 DEF FailuresExplained
    <3> QED  BY <3>1, <3>2, <3>3, OrphanStep
  <2> QED  BY <2>1, <2>2, <2>3
<1> QED  BY <1>4 DEF FailuresExplained

\* A failure of a dispatch without a channel, as AckRaises and Fail count it.
LEMMA OrphanFails ==
  ASSUME BusInv, BusInv', FailuresExplained, NEW d \in dispatches, ~Live(d), d.pc # "backoff",
         failures' = [failures EXCEPT ![d.msg] = @ + 1], UNCHANGED <<place, crashes, disconnects>>,
         \A c \in Replicas, m \in Messages : c # d.at \/ m # d.msg => attempts'[c][m] = attempts[c][m],
         Leave(d) \/ Turn(d, "backoff")
  PROVE  FailuresExplained'
<1>1. d.msg \in Messages /\ d.at \in Replicas /\ d \in Dispatch  BY DEF BusInv, TypeOK, Dispatch
<1>2. ASSUME NEW m \in Messages  PROVE Explained(m)'
  <2>1. CASE m # d.msg
    <3>1. failures'[m] = failures[m]  BY <2>1 DEF BusInv, TypeOK
    <3>2. Leave(d) \/ (\E to \in {"handled", "backoff"} : Turn(d, to) /\ d.pc # "backoff")  OBVIOUS
    <3> QED  BY <2>1, <3>1, <3>2, OthersQuiet
  <2>2. CASE m = d.msg
    <3>1. \A e \in dispatches' : e.pc = "backoff" \/ (e \in dispatches /\ e # d)
      BY <1>1 DEF Leave, Turn, Dispatch
    <3>2. Cardinality(Over(m)) + 1 <= Cardinality(Over(m)')
      BY <2>2, <3>1, OverGrows DEF BusInv
    <3>3. Cardinality(Remembered(m)) <= Cardinality(Remembered(m)') + (MaxAttempts - 1)
      BY <1>1, <2>2, CounterForgets DEF BusInv
    <3>4. failures'[m] \in {failures[m], failures[m] + 1} /\ Explained(m)
      BY <2>2 DEF FailuresExplained, BusInv, TypeOK
    <3> QED  BY <3>2, <3>3, <3>4, OrphanStep
  <2> QED  BY <2>1, <2>2
<1> QED  BY <1>2 DEF FailuresExplained

LEMMA AckRaisesExplained ==
  ASSUME BusInv, BusInv', FailuresExplained, NEW d \in dispatches, AckRaises(d)
  PROVE  FailuresExplained'
<1>1. /\ ~Live(d) /\ d.pc # "backoff" /\ failures' = [failures EXCEPT ![d.msg] = @ + 1]
      /\ UNCHANGED <<place, crashes, disconnects>>
  BY DEF AckRaises, AckWouldRaise
<1>2. \/ 1 \in 0..(MaxAttempts - 1) /\ SetAttempts(d, 1) /\ Turn(d, "backoff")
      \/ 0 \in 0..(MaxAttempts - 1) /\ SetAttempts(d, 0) /\ Leave(d)
  BY AttemptsAssumption DEF AckRaises
<1>3. \A c \in Replicas, m \in Messages : c # d.at \/ m # d.msg => attempts'[c][m] = attempts[c][m]
  BY <1>2, CounterSet DEF BusInv
<1> QED  BY <1>1, <1>2, <1>3, OrphanFails

LEMMA FailExplained ==
  ASSUME BusInv, BusInv', FailuresExplained, NEW d \in dispatches, Fail(d)
  PROVE  FailuresExplained'
<1> DEFINE n == attempts[d.at][d.msg]
           last == n + 1 >= MaxAttempts
<1>1. /\ d.pc # "backoff" /\ failures' = [failures EXCEPT ![d.msg] = @ + 1]
      /\ UNCHANGED <<effects, crashes, disconnects>>
  BY DEF Fail
<1>2. n \in 0..(MaxAttempts - 1) /\ d.msg \in Messages /\ d.at \in Replicas /\ d \in Dispatch
  BY DEF BusInv, TypeOK, Dispatch
<1>3. /\ last => SetAttempts(d, 0) /\ Settle(d, "dead") /\ Leave(d)
      /\ ~last => SetAttempts(d, n + 1) /\ Turn(d, "backoff") /\ UNCHANGED place
  BY DEF Fail
<1>4. 0 \in 0..(MaxAttempts - 1) /\ (~last => n + 1 \in 0..(MaxAttempts - 1) /\ n + 1 \in 1..(MaxAttempts - 1))
  BY <1>2, AttemptsAssumption
<1> HIDE DEF last
<1>5. \A c \in Replicas, m \in Messages : c # d.at \/ m # d.msg => attempts'[c][m] = attempts[c][m]
  BY <1>3, <1>4, CounterSet DEF BusInv
<1>6. ~last => attempts'[d.at][d.msg] = n + 1
  BY <1>3, <1>4, CounterSet DEF BusInv
<1>7. Leave(d) \/ Turn(d, "backoff")  BY <1>3
<1>8. /\ Live(d) => place[d.msg] = "unacked" /\ (last => place'[d.msg] = "dead")
      /\ ~Live(d) => place' = place
      /\ \A m \in Messages : m # d.msg => place'[m] = place[m]
  <2>1. CASE last  BY <1>3, <2>1, Settling DEF Places
  <2>2. CASE ~last
    <3>1. Live(d) => place[d.msg] = "unacked"  BY DEF BusInv, Ownership, LiveIsUnacked
    <3> QED  BY <1>3, <2>2, <3>1
  <2> QED  BY <2>1, <2>2
<1>9. CASE ~Live(d)  BY <1>1, <1>5, <1>7, <1>8, <1>9, OrphanFails
<1>10. CASE Live(d)
  <2>1. ASSUME NEW m \in Messages, m # d.msg  PROVE Explained(m)'
    <3>1. failures'[m] = failures[m]  BY <1>1, <2>1 DEF BusInv, TypeOK
    <3>2. Leave(d) \/ (\E to \in {"handled", "backoff"} : Turn(d, to) /\ d.pc # "backoff")  BY <1>1, <1>7
    <3> QED  BY <1>1, <1>5, <1>8, <2>1, <3>1, <3>2, OthersQuiet
  <2>2. ASSUME NEW m \in Messages, m = d.msg  PROVE Explained(m)'
    <3>1. Cardinality(Over(m)) <= Cardinality(Over(m)')  BY <1>1, <1>7, StepsKeepOver
    <3>2. Open(m) /\ (last => ~Open(m)')  BY <1>8, <1>10, <2>2 DEF Open
    <3>3. ~last => Cardinality(Remembered(m)') = Cardinality(Remembered(m)) + 1
      BY <1>2, <1>4, <1>5, <1>6, <2>2, CounterGrows DEF BusInv
    <3>4. failures'[m] = failures[m] + 1 /\ Explained(m)
      BY <1>1, <2>2 DEF FailuresExplained, BusInv, TypeOK
    <3> QED  BY <1>1, <3>1, <3>2, <3>3, <3>4, CountedStep
  <2> QED  BY <2>1, <2>2 DEF FailuresExplained
<1> QED  BY <1>9, <1>10

\* Steps that leave the failures and the counters alone, and settle or requeue what was unacked.
LEMMA OtherSteps ==
  ASSUME BusInv, BusInv', FailuresExplained, UNCHANGED <<attempts, failures, crashes>>,
         \A m \in Messages : Cardinality(Over(m)) <= Cardinality(Over(m)'),
         \A m \in Messages : Open(m)' => Open(m)
  PROVE  FailuresExplained'
<1> SUFFICES ASSUME NEW m \in Messages  PROVE Explained(m)'  BY DEF FailuresExplained
<1>1. Remembered(m)' = Remembered(m)  BY SameMemory
<1>2. Cardinality(Remembered(m)) <= Cardinality(Remembered(m)')
  BY <1>1, NumbersNow DEF NumbersTyped, Numbers
<1> QED  BY <1>2, QuietStep DEF FailuresExplained

LEMMA FaultsExplained ==
  ASSUME BusInv, BusInv', FailuresExplained, NEW c \in Replicas, Crash(c) \/ Disconnect(c)
  PROVE  FailuresExplained'
<1>1. place' = Requeued(c) /\ failures' = failures  BY DEF Crash, Disconnect
<1>2. \A m \in Messages : Open(m)' = Open(m)  BY <1>1, Requeueing DEF Open
<1>3. CASE Crash(c)
  <2>1. /\ dispatches' = {d \in dispatches : d.at # c} /\ crashes' = crashes + 1 /\ disconnects' = disconnects
        /\ attempts' = [attempts EXCEPT ![c] = [m \in Messages |-> 0]]
    BY <1>3 DEF Crash
  <2> SUFFICES ASSUME NEW m \in Messages  PROVE Explained(m)'  BY DEF FailuresExplained
  <2>2. Cardinality(Over(m)) <= Cardinality(Over(m)')
    <3>1. dispatches' \subseteq dispatches /\ disconnects <= disconnects'  BY <2>1 DEF BusInv, TypeOK
    <3> QED  BY <3>1, OverKeeps DEF BusInv
  <2>3. \A e \in Replicas : e # c => attempts'[e][m] = attempts[e][m]  BY <2>1 DEF BusInv, TypeOK
  <2>4. Cardinality(Remembered(m)) <= Cardinality(Remembered(m)') + (MaxAttempts - 1)
    BY <2>3, CounterForgets DEF BusInv
  <2> QED  BY <1>1, <1>2, <2>1, <2>2, <2>4, CrashStep DEF FailuresExplained
<1>4. CASE Disconnect(c)
  <2>1. UNCHANGED <<attempts, crashes>> /\ disconnects' = disconnects + 1 /\ disconnects \in Nat
    BY <1>4 DEF Disconnect, BusInv, TypeOK
  <2>2. ASSUME NEW m \in Messages  PROVE Cardinality(Over(m)) <= Cardinality(Over(m)')
    <3>1. \A e \in dispatches' : e \in dispatches \/ e.lost = disconnects + 1  BY <1>4, Orphaning
    <3>2. \A e \in dispatches' : e.lost \in 1..disconnects => e \in dispatches  BY <2>1, <3>1
    <3>3. TypeOK /\ TypeOK' /\ disconnects <= disconnects'  BY <2>1 DEF BusInv
    <3> QED  BY <3>2, <3>3, OverKeeps
  <2> QED  BY <1>1, <1>2, <2>1, <2>2, OtherSteps
<1> QED  BY <1>3, <1>4

LEMMA FailuresExplainedStep == BusInv /\ BusInv' /\ FailuresExplained /\ [Next]_vars => FailuresExplained'
<1> SUFFICES ASSUME BusInv, BusInv', FailuresExplained, [Next]_vars  PROVE FailuresExplained'
  OBVIOUS
<1>0. disconnects \in Nat /\ disconnects <= disconnects /\ TypeOK /\ TypeOK'  BY DEF BusInv, TypeOK
<1>1. ASSUME NEW m \in Messages, Publish(m)  PROVE FailuresExplained'
  <2>1. UNCHANGED <<dispatches, attempts, failures, crashes, disconnects>>  BY <1>1 DEF Publish
  <2>2. \A n \in Messages : Open(n)' => Open(n)
    BY <1>1 DEF Publish, Open, BusInv, TypeOK
  <2>3. \A n \in Messages : Cardinality(Over(n)) <= Cardinality(Over(n)')  BY <1>0, <2>1, OverKeeps
  <2> QED  BY <2>1, <2>2, <2>3, OtherSteps
<1>2. ASSUME NEW c \in Replicas, NEW m \in Messages, Deliver(c, m)  PROVE FailuresExplained'
  <2>1. /\ UNCHANGED <<attempts, failures, crashes, disconnects>>
        /\ \A e \in dispatches' : e \in dispatches \/ e.lost = 0
    BY <1>2 DEF Deliver
  <2>2. \A n \in Messages : Open(n)' => Open(n)
    BY <1>2 DEF Deliver, Open, BusInv, TypeOK
  <2>3. \A n \in Messages : Cardinality(Over(n)) <= Cardinality(Over(n)')  BY <1>0, <2>1, OverKeeps
  <2> QED  BY <2>1, <2>2, <2>3, OtherSteps
<1>3. ASSUME NEW d \in dispatches, TakeEffect(d)  PROVE FailuresExplained'
  <2>1. UNCHANGED <<place, attempts, failures, crashes, disconnects>> /\ Turn(d, "handled") /\ d.pc # "backoff"
    BY <1>3 DEF TakeEffect
  <2>2. \A n \in Messages : Open(n)' => Open(n)  BY <2>1 DEF Open
  <2>3. \A n \in Messages : Cardinality(Over(n)) <= Cardinality(Over(n)')  BY <2>1, StepsKeepOver
  <2> QED  BY <2>1, <2>2, <2>3, OtherSteps
<1>4. ASSUME NEW d \in dispatches, Reject(d) \/ Requeue(d)  PROVE FailuresExplained'
  <2>1. /\ UNCHANGED <<attempts, failures, crashes, disconnects>> /\ Leave(d)
        /\ Settle(d, "rejected") \/ Settle(d, "ready")
    BY <1>4 DEF Reject, Requeue
  <2>2. \A n \in Messages : Open(n)' => Open(n)  BY <2>1, Settling DEF Open, Places
  <2>3. \A n \in Messages : Cardinality(Over(n)) <= Cardinality(Over(n)')  BY <2>1, StepsKeepOver
  <2> QED  BY <2>1, <2>2, <2>3, OtherSteps
<1>5. ASSUME NEW d \in dispatches, DispatchStep(d)  PROVE FailuresExplained'
  BY <1>3, <1>4, <1>5, AckExplained, AckRaisesExplained, FailExplained DEF DispatchStep
<1>6. ASSUME UNCHANGED vars  PROVE FailuresExplained'
  <2>1. \A m \in Messages : Explained(m)' = Explained(m)
    BY <1>6 DEF vars, Explained, Over, Remembered, Open
  <2> QED  BY <2>1 DEF FailuresExplained
<1> QED  BY <1>1, <1>2, <1>5, <1>6, FaultsExplained DEF Next

LEMMA FailuresExplainedInit == Init => FailuresExplained
<1> SUFFICES ASSUME Init, NEW m \in Messages  PROVE Explained(m)  BY DEF FailuresExplained
<1>1. BusInv  BY BusInvInit
<1>2. Numbers(m)  BY <1>1, NumbersNow DEF NumbersTyped
<1>3. failures[m] = 0 /\ crashes = 0 /\ Open(m)  BY DEF Init, Open
<1>4. Cardinality(Over(m)) * MaxAttempts \in Nat /\ crashes * (MaxAttempts - 1) = 0  BY <1>2, <1>3, Bounds DEF Numbers
<1> QED  BY <1>2, <1>3, <1>4 DEF Explained, Numbers

\* However many replicas count alone, crash or lose their channels, a message that always fails is
\* run a bounded number of times: the bound grows by what one crash or one lost channel can hide.
THEOREM PoisonEnds == Spec => []PoisonIsBounded
<1>1. BusInv /\ FailuresExplained => PoisonIsBounded
  <2> SUFFICES ASSUME BusInv, NEW m \in Messages, Explained(m)
               PROVE  failures[m] <= (Cardinality(Replicas) + crashes) * (MaxAttempts - 1)
                                     + disconnects * MaxAttempts + 1
    BY DEF FailuresExplained, PoisonIsBounded
  <2>1. Numbers(m) /\ disconnects \in Nat  BY NumbersNow DEF NumbersTyped, BusInv, TypeOK
  <2> DEFINE R == Cardinality(Replicas) * (MaxAttempts - 1)
             C == crashes * (MaxAttempts - 1)
             O == Cardinality(Over(m)) * MaxAttempts
             D == disconnects * MaxAttempts
  <2>2. /\ C \in Nat /\ R \in Nat /\ O \in Nat /\ D \in Nat /\ O <= D
        /\ (Cardinality(Replicas) + crashes) * (MaxAttempts - 1) = R + C
    BY <2>1, Bounds DEF Numbers
  <2>3. failures[m] <= C + O + (IF Open(m) THEN Cardinality(Remembered(m)) ELSE R + 1)  BY DEF Explained
  <2>4. Cardinality(Remembered(m)) \in Nat /\ Cardinality(Remembered(m)) <= R /\ failures[m] \in Nat
    BY <2>1 DEF Numbers
  <2>5. failures[m] <= R + C + D + 1
    <3> HIDE DEF R, C, O, D
    <3> QED  BY <2>2, <2>3, <2>4
  <2> QED  BY <2>2, <2>5
<1>2. BusInv /\ FailuresExplained /\ [Next]_vars /\ BusInv' => FailuresExplained'  BY FailuresExplainedStep
<1> QED  BY <1>1, <1>2, FailuresExplainedInit, BusInvHolds, PTL DEF Spec
===============================================================================
