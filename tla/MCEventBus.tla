------------------------------ MODULE MCEventBus ------------------------------
(* Model values for the runs of EventBus.                                    *)
EXTENDS EventBus

CONSTANTS c1, c2, m1, m2

TwoReplicas == {c1, c2}
OneMessage  == {m1}
TwoMessages == {m1, m2}

===============================================================================
