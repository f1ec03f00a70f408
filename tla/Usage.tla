--------------------------------- MODULE Usage ---------------------------------
(* One quota of a user in payment-service, and the calls that consume and       *)
(* release it under an idempotency key (usage.service.ts). Each await is a step.*)
(* Keys are kept for 24 hours; a call that comes later is not modelled here     *)
(* (module Uploads has their expiry).                                            *)
EXTENDS Integers

CONSTANTS
  Callers,  \* calls in progress at once
  Keys,     \* idempotency keys
  NoKey,
  Amounts,
  Limit     \* the plan's; 0 is no limit

ASSUME UsageAssumption == NoKey \notin Keys /\ Amounts \subseteq Nat /\ Limit \in Nat

VARIABLES
  used,     \* the quota's row
  outcome,  \* the table of idempotency keys: the stored response, or "none"
  call      \* what each caller's call is doing

usageVars == <<used, outcome, call>>

Outcomes  == {"none", "allowed", "denied"}
CallSteps == {"idle", "lookup", "transact", "committed", "reread", "answered", "failed"}
NoCall    == [step |-> "idle", key |-> NoKey, kind |-> "consume", amount |-> 0, result |-> "none"]

Call == [step : CallSteps, key : Keys \union {NoKey}, kind : {"consume", "release"},
         amount : Amounts \union {0}, result : Outcomes]

UsageTypeOK == used \in Nat /\ outcome \in [Keys -> Outcomes] /\ call \in [Callers -> Call]

UsageInit ==
  /\ used = 0
  /\ outcome = [k \in Keys |-> "none"]
  /\ call = [c \in Callers |-> NoCall]

Proceed(c, step, result) == call' = [call EXCEPT ![c].step = step, ![c].result = result]

Begin(c, kind, k, n) ==
  /\ call[c].step = "idle"
  /\ call' = [call EXCEPT ![c] = [step |-> "lookup", key |-> k, kind |-> kind, amount |-> n, result |-> "none"]]
  /\ UNCHANGED <<used, outcome>>

\* A key that was decided replays its response.
Lookup(c) ==
  /\ call[c].step = "lookup"
  /\ LET stored == outcome[call[c].key]
     IN  IF stored = "none" THEN Proceed(c, "transact", "none") ELSE Proceed(c, "answered", stored)
  /\ UNCHANGED <<used, outcome>>

Fits(n)  == Limit = 0 \/ used + n <= Limit

\* Mutant: without GREATEST.
LessUnbounded(n) == used - n

Less(n)  == IF used > n THEN used - n ELSE 0

\* What the transaction does with the quota: a release never goes below zero.
Work(kind, n) ==
  CASE kind = "release"          -> [used |-> Less(n), result |-> "allowed"]
    [] kind = "consume" /\ Fits(n)  -> [used |-> used + n, result |-> "allowed"]
    [] kind = "consume" /\ ~Fits(n) -> [used |-> used, result |-> "denied"]

\* Mutant: the work is done again under a key that was decided since the lookup.
TransactAgain(c) ==
  /\ call[c].step = "transact"
  /\ LET done == Work(call[c].kind, call[c].amount)
     IN  /\ used' = done.used
         /\ outcome' = [outcome EXCEPT ![call[c].key] = done.result]
         /\ Proceed(c, "committed", done.result)

\* The key is inserted, the quota changed and the response stored in one
\* transaction; it fails when another call inserted the key since the lookup.
Transact(c) ==
  /\ call[c].step = "transact"
  /\ IF outcome[call[c].key] = "none"
     THEN LET done == Work(call[c].kind, call[c].amount)
          IN  /\ used' = done.used
              /\ outcome' = [outcome EXCEPT ![call[c].key] = done.result]
              /\ Proceed(c, "committed", done.result)
     ELSE Proceed(c, "reread", "none") /\ UNCHANGED <<used, outcome>>

\* The loser of the race answers with the winner's response.
Reread(c) ==
  /\ call[c].step = "reread"
  /\ Proceed(c, "answered", outcome[call[c].key])
  /\ UNCHANGED <<used, outcome>>

Reply(c) ==
  /\ call[c].step = "committed"
  /\ Proceed(c, "answered", call[c].result)
  /\ UNCHANGED <<used, outcome>>

\* The call fails or its answer is lost: before the transaction, or after it.
Lose(c) ==
  /\ call[c].step \in {"lookup", "transact", "committed", "reread"}
  /\ Proceed(c, "failed", "none")
  /\ UNCHANGED <<used, outcome>>

Return(c) ==
  /\ call[c].step \in {"answered", "failed"}
  /\ call' = [call EXCEPT ![c] = NoCall]
  /\ UNCHANGED <<used, outcome>>

ResetMonthlyQuotas == used' = 0 /\ UNCHANGED <<outcome, call>>

CallStep(c) == Lookup(c) \/ Transact(c) \/ Reread(c) \/ Reply(c)

UsageNext ==
  \/ \E c \in Callers :
       \/ CallStep(c) \/ Lose(c) \/ Return(c)
       \/ \E kind \in {"consume", "release"}, k \in Keys, n \in Amounts : Begin(c, kind, k, n)
  \/ ResetMonthlyQuotas

UsageSpec == UsageInit /\ [][UsageNext]_usageVars

-------------------------------------------------------------------------------
Asked(c)    == IF call[c].step \in {"idle", "failed"} THEN NoKey ELSE call[c].key
Answered(c) == IF call[c].step = "answered" THEN call[c].result ELSE "none"

Calls == INSTANCE IdempotentCalls WITH asked  <- [c \in Callers |-> Asked(c)],
                                       answer <- [c \in Callers |-> Answered(c)]

\* However calls with one key interleave, fail and are repeated, the key is decided
\* once and all its callers are told that outcome (UsageService.idempotent).
CallsAreIdempotent == Calls!Spec

===============================================================================
