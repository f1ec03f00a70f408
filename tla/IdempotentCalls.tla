---------------------------- MODULE IdempotentCalls ----------------------------
(* What payment-service promises of calls that carry an idempotency key: the    *)
(* key is decided once, a refusal changes nothing, and every caller who gets an *)
(* answer gets that outcome. It says nothing of transactions, races for the key *)
(* or how a replay is recognised.                                                *)
EXTENDS Naturals

CONSTANTS Callers, Keys, NoKey

VARIABLES used,     \* the quota's counter
          outcome,  \* outcome[k]: what became of the call with key k
          asked,    \* asked[c]: the key of c's call in progress, NoKey if it has none
          answer    \* answer[c]: what c was told

Init ==
  /\ used = 0
  /\ outcome = [k \in Keys |-> "none"]
  /\ asked = [c \in Callers |-> NoKey]
  /\ answer = [c \in Callers |-> "none"]

Ask(c, k) ==
  /\ asked[c] = NoKey
  /\ asked' = [asked EXCEPT ![c] = k]
  /\ UNCHANGED <<used, outcome, answer>>

Decide(k) ==
  /\ outcome[k] = "none"
  /\ \/ outcome' = [outcome EXCEPT ![k] = "denied"] /\ UNCHANGED used
     \/ outcome' = [outcome EXCEPT ![k] = "allowed"] /\ used' \in Nat
  /\ UNCHANGED <<asked, answer>>

Answer(c) ==
  /\ asked[c] # NoKey /\ outcome[asked[c]] # "none"
  /\ answer' = [answer EXCEPT ![c] = outcome[asked[c]]]
  /\ UNCHANGED <<used, outcome, asked>>

\* The caller has the answer, or gives up.
Leave(c) ==
  /\ asked' = [asked EXCEPT ![c] = NoKey]
  /\ answer' = [answer EXCEPT ![c] = "none"]
  /\ UNCHANGED <<used, outcome>>

\* A new month.
Reset == used' = 0 /\ UNCHANGED <<outcome, asked, answer>>

Next ==
  \/ \E c \in Callers : Answer(c) \/ Leave(c) \/ \E k \in Keys : Ask(c, k)
  \/ \E k \in Keys : Decide(k)
  \/ Reset

Spec == Init /\ [][Next]_<<used, outcome, asked, answer>>
===============================================================================
