------------------------------ MODULE AtLeastOnce ------------------------------
(* What the event bus promises of one durable queue: a message the broker took  *)
(* is held until its handler has run to the end, was refused by it for good, or *)
(* failed Patience times. It says nothing of replicas, channels, prefetch,      *)
(* acks or redeliveries.                                                        *)
EXTENDS Naturals

CONSTANTS Messages, Patience

VARIABLES fate,      \* what became of each message
          handled,   \* the messages whose handler took effect
          failures   \* how often the handler of each message failed

Init ==
  /\ fate = [m \in Messages |-> "unsent"]
  /\ handled = {}
  /\ failures = [m \in Messages |-> 0]

Become(m, what) == fate' = [fate EXCEPT ![m] = what]

Publish(m) ==
  /\ fate[m] = "unsent"
  /\ Become(m, "held") \/ Become(m, "lost")
  /\ UNCHANGED <<handled, failures>>

\* A handler may run again, also after the message was settled.
Handle(m) ==
  /\ fate[m] \notin {"unsent", "lost"}
  /\ handled' = handled \union {m}
  /\ UNCHANGED <<fate, failures>>

Finish(m) ==
  /\ fate[m] = "held" /\ m \in handled
  /\ Become(m, "done")
  /\ UNCHANGED <<handled, failures>>

Refuse(m) ==
  /\ fate[m] = "held"
  /\ Become(m, "rejected")
  /\ UNCHANGED <<handled, failures>>

FailOnce(m) ==
  /\ fate[m] \notin {"unsent", "lost"}
  /\ failures' = [failures EXCEPT ![m] = @ + 1]
  /\ \/ UNCHANGED fate
     \/ fate[m] = "held" /\ failures[m] + 1 >= Patience /\ Become(m, "dead")
  /\ UNCHANGED handled

Next == \E m \in Messages : Publish(m) \/ Handle(m) \/ Finish(m) \/ Refuse(m) \/ FailOnce(m)

Spec == Init /\ [][Next]_<<fate, handled, failures>>
===============================================================================
