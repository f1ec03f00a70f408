------------------------------- MODULE ChatProofs -------------------------------
(* What conversations cost, for every number of callers, requests and failures,   *)
(* and whatever the limit: the keyed calls stay idempotent inside the handlers     *)
(* that make them, and the counter follows the conversations. Then, of one         *)
(* conversation, what the graph is told of it and which question its reply goes    *)
(* to, for every number of sends, requests and setbacks and all settings of the    *)
(* summary.                                                                        *)
EXTENDS Conversations, Messages, FiniteSetTheorems, TLAPS

-------------------------------------------------------------------------------
(* The keyed calls of payment-service implement IdempotentCalls, for any number *)
(* of callers and keys, any limit and any amounts.                               *)

\* A caller with an answer, or about to get one, has the outcome its key was decided with.
KnowsItsOutcome(c) ==
  /\ call[c].step # "idle" => call[c].key \in Keys
  /\ call[c].step = "reread" => outcome[call[c].key] # "none"
  /\ call[c].step \in {"committed", "answered"} =>
       call[c].result # "none" /\ call[c].result = outcome[call[c].key]

UsageInv == UsageTypeOK /\ \A c \in Callers : KnowsItsOutcome(c)

-------------------------------------------------------------------------------
LEMMA UsageInvInit == UsageInit => UsageInv
BY UsageAssumption DEF UsageInit, UsageInv, UsageTypeOK, KnowsItsOutcome, NoCall, Call, Outcomes, CallSteps

\* The transaction keeps the counter a natural number and decides one way or the other.
LEMMA WorkDecides ==
  ASSUME used \in Nat, NEW kind \in {"consume", "release"}, NEW n \in Nat
  PROVE  Work(kind, n).used \in Nat /\ Work(kind, n).result \in {"allowed", "denied"}
<1>1. CASE kind = "release"
  <2>1. Work(kind, n) = [used |-> Less(n), result |-> "allowed"]  BY <1>1 DEF Work
  <2>2. Less(n) \in Nat  BY DEF Less
  <2> QED  BY <2>1, <2>2
<1>2. CASE kind = "consume" /\ Fits(n)
  <2>1. Work(kind, n) = [used |-> used + n, result |-> "allowed"]  BY <1>2 DEF Work
  <2> QED  BY <2>1
<1>3. CASE kind = "consume" /\ ~Fits(n)
  <2>1. Work(kind, n) = [used |-> used, result |-> "denied"]  BY <1>3 DEF Work
  <2> QED  BY <2>1
<1> QED  BY <1>1, <1>2, <1>3

\* A refused call leaves the counter alone.
LEMMA DeniedChangesNothing ==
  ASSUME NEW kind \in {"consume", "release"}, NEW n, Work(kind, n).result = "denied"
  PROVE  Work(kind, n).used = used
<1>1. CASE kind = "release"
  <2>1. Work(kind, n) = [used |-> Less(n), result |-> "allowed"]  BY <1>1 DEF Work
  <2> QED  BY <2>1
<1>2. CASE kind = "consume" /\ Fits(n)
  <2>1. Work(kind, n) = [used |-> used + n, result |-> "allowed"]  BY <1>2 DEF Work
  <2> QED  BY <2>1
<1>3. CASE kind = "consume" /\ ~Fits(n)
  <2>1. Work(kind, n) = [used |-> used, result |-> "denied"]  BY <1>3 DEF Work
  <2> QED  BY <2>1
<1> QED  BY <1>1, <1>2, <1>3

\* A step of one caller that decides no key keeps the invariant if it keeps it for that caller.
LEMMA OneCallerMoves ==
  ASSUME UsageInv, UNCHANGED <<used, outcome>>, NEW c \in Callers,
         NEW new \in Call,
         call' = [call EXCEPT ![c] = new], KnowsItsOutcome(c)'
  PROVE  UsageInv'
<1>1. UsageTypeOK'  BY DEF UsageInv, UsageTypeOK
<1>2. ASSUME NEW d \in Callers  PROVE KnowsItsOutcome(d)'
  <2>1. CASE d = c  BY <2>1
  <2>2. CASE d # c
    <3>1. call'[d] = call[d]  BY <2>2 DEF UsageInv, UsageTypeOK
    <3> QED  BY <3>1 DEF UsageInv, KnowsItsOutcome
  <2> QED  BY <2>1, <2>2
<1> QED  BY <1>1, <1>2 DEF UsageInv

\* What Proceed writes.
Moved(c, step, result) == [call[c] EXCEPT !.step = step, !.result = result]

LEMMA Proceeding ==
  ASSUME UsageInv, NEW c \in Callers, NEW step \in CallSteps, NEW result \in Outcomes, Proceed(c, step, result)
  PROVE  /\ call' = [call EXCEPT ![c] = Moved(c, step, result)]
         /\ Moved(c, step, result) \in Call
         /\ call'[c] = Moved(c, step, result)
         /\ call'[c].step = step /\ call'[c].result = result /\ call'[c].key = call[c].key
<1>1. call[c] \in Call  BY DEF UsageInv, UsageTypeOK
<1>2. call' = [call EXCEPT ![c] = Moved(c, step, result)]  BY <1>1 DEF Proceed, Moved, Call
<1>3. call'[c] = Moved(c, step, result)  BY <1>2 DEF UsageInv, UsageTypeOK
<1>4. /\ Moved(c, step, result) \in Call
      /\ Moved(c, step, result).step = step /\ Moved(c, step, result).result = result
      /\ Moved(c, step, result).key = call[c].key
  BY <1>1 DEF Call, Moved
<1> QED  BY <1>2, <1>3, <1>4

LEMMA TransactKeeps ==
  ASSUME UsageInv, NEW c \in Callers, Transact(c)
  PROVE  UsageInv'
<1> DEFINE k == call[c].key
<1>1. k \in Keys /\ outcome[k] \in Outcomes /\ call[c].step = "transact"
  BY DEF UsageInv, KnowsItsOutcome, Transact, UsageTypeOK
<1>2. CASE outcome[k] = "none"
  <2> DEFINE done == Work(call[c].kind, call[c].amount)
  <2>0. call[c] \in Call /\ used \in Nat  BY DEF UsageInv, UsageTypeOK
  <2>1. call[c].kind \in {"consume", "release"} /\ call[c].amount \in Nat
    <3>1. call[c].kind \in {"consume", "release"} /\ call[c].amount \in Amounts \union {0}  BY <2>0 DEF Call
    <3>2. \A n \in Amounts \union {0} : n \in Nat  BY UsageAssumption
    <3>3. call[c].amount \in Nat  BY <3>1, <3>2, Zenon
    <3> QED  BY <3>1, <3>3
  <2>2. done.used \in Nat /\ done.result \in {"allowed", "denied"}  BY <2>0, <2>1, WorkDecides
  <2> HIDE DEF done
  <2>3. used' = done.used /\ outcome' = [outcome EXCEPT ![k] = done.result] /\ Proceed(c, "committed", done.result)
    BY <1>2 DEF Transact, done
  <2>4. /\ call' = [call EXCEPT ![c] = Moved(c, "committed", done.result)]
        /\ Moved(c, "committed", done.result) \in Call
        /\ call'[c].step = "committed" /\ call'[c].result = done.result /\ call'[c].key = k
    BY <2>2, <2>3, Proceeding DEF CallSteps, Outcomes
  <2>5. UsageTypeOK'
    BY <2>2, <2>3, <2>4, <1>1 DEF UsageInv, UsageTypeOK, Outcomes
  <2>6. ASSUME NEW d \in Callers  PROVE KnowsItsOutcome(d)'
    <3>1. CASE d = c
      BY <3>1, <2>2, <2>3, <2>4, <1>1 DEF KnowsItsOutcome, UsageInv, UsageTypeOK
    <3>2. CASE d # c
      <4>1. call'[d] = call[d]  BY <3>2, <2>4 DEF UsageInv, UsageTypeOK
      <4>2. \A j \in Keys : outcome[j] # "none" => outcome'[j] = outcome[j]
        BY <2>3, <1>2 DEF UsageInv, UsageTypeOK
      <4>3. KnowsItsOutcome(d)  BY DEF UsageInv
      <4> QED  BY <4>1, <4>2, <4>3 DEF KnowsItsOutcome
    <3> QED  BY <3>1, <3>2
  <2> QED  BY <2>5, <2>6 DEF UsageInv
<1>3. CASE outcome[k] # "none"
  <2>1. Proceed(c, "reread", "none") /\ UNCHANGED <<used, outcome>>  BY <1>3 DEF Transact
  <2>2. /\ call' = [call EXCEPT ![c] = Moved(c, "reread", "none")]
        /\ Moved(c, "reread", "none") \in Call
        /\ call'[c].step = "reread" /\ call'[c].key = k
    BY <2>1, Proceeding DEF CallSteps, Outcomes
  <2>3. KnowsItsOutcome(c)'  BY <2>1, <2>2, <1>1, <1>3 DEF KnowsItsOutcome
  <2> QED  BY <2>1, <2>2, <2>3, OneCallerMoves
<1> QED  BY <1>2, <1>3

\* The steps that only move a call on.
LEMMA MovesKeep ==
  ASSUME UsageInv, NEW c \in Callers, NEW step \in CallSteps \ {"idle"}, NEW result \in Outcomes,
         Proceed(c, step, result), UNCHANGED <<used, outcome>>, call[c].key \in Keys,
         step = "reread" => outcome[call[c].key] # "none",
         step \in {"committed", "answered"} => result # "none" /\ result = outcome[call[c].key]
  PROVE  UsageInv'
<1>1. /\ call' = [call EXCEPT ![c] = Moved(c, step, result)]
      /\ Moved(c, step, result) \in Call
      /\ call'[c].step = step /\ call'[c].result = result /\ call'[c].key = call[c].key
  BY Proceeding
<1>2. KnowsItsOutcome(c)'  BY <1>1 DEF KnowsItsOutcome
<1> QED  BY <1>1, <1>2, OneCallerMoves

LEMMA UsageInvNext == UsageInv /\ [UsageNext]_usageVars => UsageInv'
<1> SUFFICES ASSUME UsageInv, [UsageNext]_usageVars  PROVE UsageInv'
  OBVIOUS
<1>0. ASSUME NEW c \in Callers, call[c].step # "idle"
      PROVE  call[c].key \in Keys /\ outcome[call[c].key] \in Outcomes /\ call[c].result \in Outcomes
  BY <1>0 DEF UsageInv, KnowsItsOutcome, UsageTypeOK, Call
<1>1. ASSUME NEW c \in Callers, Lookup(c)  PROVE UsageInv'
  BY <1>0, <1>1, MovesKeep DEF Lookup, CallSteps, Outcomes
<1>2. ASSUME NEW c \in Callers, Transact(c)  PROVE UsageInv'
  BY <1>2, TransactKeeps
<1>3. ASSUME NEW c \in Callers, Reread(c)  PROVE UsageInv'
  <2>1. outcome[call[c].key] # "none"  BY <1>3 DEF Reread, UsageInv, KnowsItsOutcome
  <2> QED  BY <1>0, <1>3, <2>1, MovesKeep DEF Reread, CallSteps
<1>4. ASSUME NEW c \in Callers, Reply(c)  PROVE UsageInv'
  <2>1. call[c].result # "none" /\ call[c].result = outcome[call[c].key]
    BY <1>4 DEF Reply, UsageInv, KnowsItsOutcome
  <2> QED  BY <1>0, <1>4, <2>1, MovesKeep DEF Reply, CallSteps
<1>5. ASSUME NEW c \in Callers, Lose(c)  PROVE UsageInv'
  BY <1>0, <1>5, MovesKeep DEF Lose, CallSteps, Outcomes
<1>6. ASSUME NEW c \in Callers, Return(c)  PROVE UsageInv'
  <2>1. call'[c].step = "idle"  BY <1>6 DEF Return, NoCall, UsageInv, UsageTypeOK
  <2>2. KnowsItsOutcome(c)'  BY <2>1 DEF KnowsItsOutcome
  <2>3. NoCall \in Call  BY DEF NoCall, Call, CallSteps, Outcomes
  <2> QED  BY <1>6, <2>2, <2>3, OneCallerMoves DEF Return
<1>7. ASSUME NEW c \in Callers, NEW kind \in {"consume", "release"}, NEW k \in Keys, NEW n \in Amounts,
             Begin(c, kind, k, n)
      PROVE  UsageInv'
  <2>1. call'[c].step = "lookup" /\ call'[c].key = k  BY <1>7 DEF Begin, UsageInv, UsageTypeOK
  <2>2. KnowsItsOutcome(c)'  BY <2>1 DEF KnowsItsOutcome
  <2>3. [step |-> "lookup", key |-> k, kind |-> kind, amount |-> n, result |-> "none"] \in Call
    BY DEF Call, CallSteps, Outcomes
  <2> QED  BY <1>7, <2>2, <2>3, OneCallerMoves DEF Begin
<1>8. CASE ResetMonthlyQuotas
  BY <1>8 DEF ResetMonthlyQuotas, UsageInv, UsageTypeOK, KnowsItsOutcome
<1>9. CASE UNCHANGED usageVars
  BY <1>9 DEF usageVars, UsageInv, UsageTypeOK, KnowsItsOutcome
<1> QED
  BY <1>1, <1>2, <1>3, <1>4, <1>5, <1>6, <1>7, <1>8, <1>9 DEF UsageNext, CallStep

\* The counter is never negative, whatever is released (UsageService.release).
THEOREM UsageTypeCorrect == UsageSpec => []UsageTypeOK
<1>1. UsageInv => UsageTypeOK  BY DEF UsageInv
<1> QED  BY <1>1, UsageInvInit, UsageInvNext, PTL DEF UsageSpec

-------------------------------------------------------------------------------
(* The refinement: each step of a call is a step of IdempotentCalls or none.     *)

AskedNow  == [c \in Callers |-> Asked(c)]
AnswerNow == [c \in Callers |-> Answered(c)]

\* A step of c that leaves the keys alone changes what c asks and is told, and nothing else.
LEMMA OnlyTheCaller ==
  ASSUME UsageInv, NEW c \in Callers, NEW new, call' = [call EXCEPT ![c] = new]
  PROVE  /\ AskedNow' = [AskedNow EXCEPT ![c] = Asked(c)']
         /\ AnswerNow' = [AnswerNow EXCEPT ![c] = Answered(c)']
<1>1. \A d \in Callers \ {c} : call'[d] = call[d]  BY DEF UsageInv, UsageTypeOK
<1>2. \A d \in Callers \ {c} : Asked(d)' = Asked(d) /\ Answered(d)' = Answered(d)
  BY <1>1 DEF Asked, Answered
<1> QED  BY <1>2 DEF AskedNow, AnswerNow

LEMMA RefinesInit == UsageInit => Calls!Init
BY DEF UsageInit, Calls!Init, Asked, Answered, NoCall

\* The caller learns the outcome of its key.
LEMMA AnswerStep ==
  ASSUME UsageInv, NEW c \in Callers, NEW step \in CallSteps \ {"idle", "failed"},
         call[c].step = step, step # "answered",
         outcome[call[c].key] # "none", Proceed(c, "answered", outcome[call[c].key]), UNCHANGED <<used, outcome>>
  PROVE  Calls!Next
<1>1. call[c].key \in Keys  BY DEF UsageInv, KnowsItsOutcome
<1>2. outcome[call[c].key] \in Outcomes  BY <1>1 DEF UsageInv, UsageTypeOK
<1>3. /\ call' = [call EXCEPT ![c] = Moved(c, "answered", outcome[call[c].key])]
      /\ call'[c].step = "answered" /\ call'[c].result = outcome[call[c].key] /\ call'[c].key = call[c].key
  BY <1>2, Proceeding DEF CallSteps
<1>4. Asked(c) = call[c].key /\ Asked(c)' = call[c].key /\ Answered(c)' = outcome[call[c].key]
  BY <1>3 DEF Asked, Answered
<1>5. AskedNow' = AskedNow /\ AnswerNow' = [AnswerNow EXCEPT ![c] = outcome[call[c].key]]
  <2>1. /\ AskedNow' = [AskedNow EXCEPT ![c] = Asked(c)']
        /\ AnswerNow' = [AnswerNow EXCEPT ![c] = Answered(c)']
    BY <1>3, OnlyTheCaller
  <2>2. AskedNow[c] = Asked(c)  BY DEF AskedNow
  <2>3. AskedNow = [AskedNow EXCEPT ![c] = AskedNow[c]]  BY DEF AskedNow
  <2> QED  BY <2>1, <2>2, <2>3, <1>4
<1>6. AskedNow[c] # NoKey /\ outcome[AskedNow[c]] # "none" /\ AskedNow[c] = call[c].key
  BY <1>1, <1>4, UsageAssumption DEF AskedNow
<1>7. Calls!Answer(c)  BY <1>5, <1>6 DEF Calls!Answer, AskedNow, AnswerNow
<1> QED  BY <1>7 DEF Calls!Next

\* A move between two steps of a call that is under way shows outside as nothing.
LEMMA SilentStep ==
  ASSUME UsageInv, NEW c \in Callers, NEW step \in {"transact", "committed", "reread"}, NEW result \in Outcomes,
         call[c].step \in {"lookup", "transact"}, Proceed(c, step, result)
  PROVE  UNCHANGED <<AskedNow, AnswerNow>>
<1>1. /\ call' = [call EXCEPT ![c] = Moved(c, step, result)]
      /\ call'[c].step = step /\ call'[c].key = call[c].key
  BY Proceeding DEF CallSteps
<1>2. Asked(c)' = Asked(c) /\ Answered(c)' = Answered(c)
  BY <1>1 DEF Asked, Answered
<1> QED  BY <1>1, <1>2, OnlyTheCaller DEF AskedNow, AnswerNow

LEMMA LeaveStep ==
  ASSUME UsageInv, NEW c \in Callers, NEW new, call' = [call EXCEPT ![c] = new],
         new.step \in {"idle", "failed"}, UNCHANGED <<used, outcome>>
  PROVE  Calls!Next
<1>1. call'[c] = new  BY DEF UsageInv, UsageTypeOK
<1>2. Asked(c)' = NoKey /\ Answered(c)' = "none"  BY <1>1 DEF Asked, Answered
<1>3. Calls!Leave(c)  BY <1>2, OnlyTheCaller DEF Calls!Leave, AskedNow, AnswerNow
<1> QED  BY <1>3 DEF Calls!Next

LEMMA TransactStep ==
  ASSUME UsageInv, NEW c \in Callers, Transact(c)
  PROVE  Calls!Next \/ UNCHANGED <<used, outcome, AskedNow, AnswerNow>>
<1> DEFINE k == call[c].key
<1>1. k \in Keys /\ call[c].step = "transact"  BY DEF UsageInv, KnowsItsOutcome, Transact
<1>2. CASE outcome[k] # "none"
  <2>1. Proceed(c, "reread", "none") /\ UNCHANGED <<used, outcome>>  BY <1>2 DEF Transact
  <2> QED  BY <1>1, <2>1, SilentStep DEF Outcomes
<1>3. CASE outcome[k] = "none"
  <2> DEFINE done == Work(call[c].kind, call[c].amount)
  <2>1. call[c] \in Call /\ used \in Nat  BY DEF UsageInv, UsageTypeOK
  <2>2. call[c].kind \in {"consume", "release"} /\ call[c].amount \in Amounts \union {0}  BY <2>1 DEF Call
  <2>3. \A n \in Amounts \union {0} : n \in Nat  BY UsageAssumption
  <2>4. call[c].amount \in Nat  BY <2>2, <2>3, Zenon
  <2>5. done.used \in Nat /\ done.result \in {"allowed", "denied"}  BY <2>1, <2>2, <2>4, WorkDecides
  <2>6. done.result = "denied" => done.used = used  BY <2>2, DeniedChangesNothing
  <2> HIDE DEF done
  <2>7. used' = done.used /\ outcome' = [outcome EXCEPT ![k] = done.result] /\ Proceed(c, "committed", done.result)
    BY <1>3 DEF Transact, done
  <2>8. UNCHANGED <<AskedNow, AnswerNow>>  BY <1>1, <2>5, <2>7, SilentStep DEF Outcomes
  <2>9. Calls!Decide(k)  BY <1>3, <2>5, <2>6, <2>7, <2>8 DEF Calls!Decide, AskedNow, AnswerNow
  <2> QED  BY <1>1, <2>9 DEF Calls!Next
<1> QED  BY <1>2, <1>3

LEMMA RefinesNext ==
  ASSUME UsageInv, [UsageNext]_usageVars
  PROVE  [Calls!Next]_<<used, outcome, AskedNow, AnswerNow>>
<1>1. ASSUME NEW c \in Callers, Lookup(c)
      PROVE  Calls!Next \/ UNCHANGED <<used, outcome, AskedNow, AnswerNow>>
  <2>1. CASE outcome[call[c].key] = "none"
    BY <1>1, <2>1, SilentStep DEF Lookup, Outcomes
  <2>2. CASE outcome[call[c].key] # "none"
    BY <1>1, <2>2, AnswerStep DEF Lookup, CallSteps
  <2> QED  BY <2>1, <2>2
<1>2. ASSUME NEW c \in Callers, Transact(c)
      PROVE  Calls!Next \/ UNCHANGED <<used, outcome, AskedNow, AnswerNow>>
  BY <1>2, TransactStep
<1>3. ASSUME NEW c \in Callers, Reread(c)  PROVE Calls!Next
  <2>1. outcome[call[c].key] # "none"  BY <1>3 DEF Reread, UsageInv, KnowsItsOutcome
  <2> QED  BY <1>3, <2>1, AnswerStep DEF Reread, CallSteps
<1>4. ASSUME NEW c \in Callers, Reply(c)  PROVE Calls!Next
  <2>1. outcome[call[c].key] # "none" /\ call[c].result = outcome[call[c].key]
    BY <1>4 DEF Reply, UsageInv, KnowsItsOutcome
  <2> QED  BY <1>4, <2>1, AnswerStep DEF Reply, CallSteps
<1>5. ASSUME NEW c \in Callers, Lose(c)  PROVE Calls!Next
  <2>1. call' = [call EXCEPT ![c] = Moved(c, "failed", "none")] /\ call'[c].step = "failed" /\ call'[c] = Moved(c, "failed", "none")
    BY <1>5, Proceeding DEF Lose, CallSteps, Outcomes
  <2> QED  BY <1>5, <2>1, LeaveStep DEF Lose
<1>6. ASSUME NEW c \in Callers, Return(c)  PROVE Calls!Next
  BY <1>6, LeaveStep DEF Return, NoCall
<1>7. ASSUME NEW c \in Callers, NEW kind \in {"consume", "release"}, NEW k \in Keys, NEW n \in Amounts,
             Begin(c, kind, k, n)
      PROVE  Calls!Next
  <2>1. call'[c].step = "lookup" /\ call'[c].key = k  BY <1>7 DEF Begin, UsageInv, UsageTypeOK
  <2>2. /\ Asked(c) = NoKey /\ Asked(c)' = k
        /\ Answered(c) = "none" /\ Answered(c)' = "none"
    BY <1>7, <2>1 DEF Begin, Asked, Answered
  <2>3. AskedNow' = [AskedNow EXCEPT ![c] = k] /\ AnswerNow' = AnswerNow
    BY <1>7, <2>2, OnlyTheCaller DEF Begin, AnswerNow
  <2>4. Calls!Ask(c, k)  BY <1>7, <2>2, <2>3 DEF Begin, Calls!Ask, AskedNow, AnswerNow
  <2> QED  BY <2>4 DEF Calls!Next
<1>8. CASE ResetMonthlyQuotas
  <2>1. UNCHANGED <<AskedNow, AnswerNow>>  BY <1>8 DEF ResetMonthlyQuotas, AskedNow, AnswerNow, Asked, Answered
  <2> QED  BY <1>8, <2>1 DEF ResetMonthlyQuotas, Calls!Reset, Calls!Next, AskedNow, AnswerNow
<1>9. CASE UNCHANGED usageVars
  BY <1>9 DEF usageVars, AskedNow, AnswerNow, Asked, Answered
<1> QED
  BY <1>1, <1>2, <1>3, <1>4, <1>5, <1>6, <1>7, <1>8, <1>9 DEF UsageNext, CallStep

\* UsageService.idempotent keeps the promise of IdempotentCalls.
THEOREM CallsImplement == UsageSpec => CallsAreIdempotent
<1>1. UsageInv /\ [UsageNext]_usageVars => [Calls!Next]_<<used, outcome, AskedNow, AnswerNow>>
  BY RefinesNext
<1>2. UsageInv /\ [UsageNext]_usageVars =>
        [Calls!Next]_<<used, outcome, [c \in Callers |-> Asked(c)], [c \in Callers |-> Answered(c)]>>
  BY <1>1 DEF AskedNow, AnswerNow
<1> QED  BY <1>2, RefinesInit, UsageInvInit, UsageInvNext, PTL DEF UsageSpec, CallsAreIdempotent, Calls!Spec

-------------------------------------------------------------------------------
(* The conversations that make these calls.                                     *)

EventKey    == <<"event", 1>>
Charging(c) == handler[c].step \in {"charge", "insert"}
Releasing   == file = "announced" /\ outcome[EventKey] = "allowed"

\* What a caller's handler may be doing.
Roles(c) ==
  LET h == handler[c] IN
  /\ h.step \in {"find", "scope", "charge", "insert", "winner", "rollback"} =>
       h.request \in Requests /\ c # Consumer
  /\ h.step \in {"charge", "insert", "winner", "rollback"} => h.id \in Ids /\ h.id < nextId
  /\ h.step \in {"erase", "refund"} => <<h.id, h.request>> \in born /\ c # Consumer
  /\ h.step = "refund" => <<h.id, h.request>> \notin rows
  /\ h.step \in {"count", "release", "purge"} => c = Consumer /\ file = "announced"

CallIs(c, kind, key) == call[c].step # "idle" /\ call[c].kind = kind /\ call[c].key = key

\* A call is the one its handler awaits; a handler that awaits none has none. The
\* event's release takes as many as there are, unless that changed meanwhile.
Calling(c) ==
  LET h == handler[c] IN
  /\ h.step \notin {"charge", "refund", "rollback", "release"} => call[c].step = "idle"
  /\ h.step = "charge" => CallIs(c, "consume", <<"create", h.request>>) /\ call[c].amount = 1
  /\ h.step = "refund" => CallIs(c, "release", <<"delete", h.id>>) /\ call[c].amount = 1
  /\ h.step = "rollback" =>
       CallIs(c, "release", <<"rollback", h.id>>) /\ call[c].amount = 1 /\ "reused" \in mishaps
  /\ h.step = "release" =>
       CallIs(c, "release", EventKey) /\ ("raced" \notin mishaps => call[c].amount = Cardinality(rows))
  /\ h.step = "purge" /\ "raced" \notin mishaps => rows = {} \/ Releasing
  /\ call[c].step = "failed" => "lost" \in mishaps /\ call[c].result = "none"

\* An id is given once.
IdsAreGiven ==
  /\ rows \subseteq born /\ replies \subseteq born
  /\ \A x \in born : x[1] < nextId
  /\ \A x, y \in born : x[1] = y[1] => x = y

\* Nobody else uses the id of a request that was not inserted yet.
Fresh(c) ==
  Charging(c) =>
    /\ \A x \in born : x[1] # handler[c].id
    /\ outcome[<<"rollback", handler[c].id>>] = "none"
    /\ \A d \in Callers \ {c} : Charging(d) \/ At(d, "rollback") => handler[d].id # handler[c].id

RefundsAreAlone ==
  \A c, d \in Callers : At(c, "refund") /\ At(d, "refund") /\ handler[c].id = handler[d].id => c = d

\* What a key of an id that was decided says of that id.
SpentKeys ==
  /\ \A i \in Ids : outcome[<<"delete", i>>] # "none" => \E x \in born \ rows : x[1] = i
  /\ \A i \in Ids : outcome[<<"rollback", i>>] # "none" => i < nextId
  /\ outcome[EventKey] # "denied"

Paid == {r \in Requests : outcome[<<"create", r>>] = "allowed"}

\* A conversation is charged for before it is stored, each for itself unless a request was reused.
StoredIsPaid ==
  /\ \A x \in born : x[2] \in Paid
  /\ \A c \in Callers : At(c, "insert") => handler[c].request \in Paid
  /\ IsFiniteSet(Paid)
  /\ "reused" \notin mishaps => \A x, y \in born : x[2] = y[2] => x = y

ConvBase == /\ UsageInv /\ TypeOK
            /\ \A c \in Callers : Roles(c) /\ Calling(c) /\ Fresh(c)
            /\ IdsAreGiven /\ RefundsAreAlone /\ SpentKeys /\ StoredIsPaid

-------------------------------------------------------------------------------
Handler == [step : Steps, request : Requests \union {"none"}, id : 0..MaxIds]

LEMMA KeysAre ==
  /\ \A r \in Requests : <<"create", r>> \in Keys
  /\ \A i \in Ids : <<"rollback", i>> \in Keys /\ <<"delete", i>> \in Keys
  /\ EventKey \in Keys
  /\ \A k \in Keys : \/ \E r \in Requests : k = <<"create", r>>
                     \/ \E i \in Ids : k = <<"rollback", i>> \/ k = <<"delete", i>>
                     \/ k = EventKey
BY ConversationsAssumption DEF EventKey

LEMMA KindsDiffer ==
  \A r, i : /\ <<"create", r>> # <<"delete", i>> /\ <<"create", r>> # <<"rollback", i>>
            /\ <<"create", r>> # EventKey
BY DEF EventKey

LEMMA PairsAre == \A x \in Ids \X Requests : x = <<x[1], x[2]>> /\ x[1] \in Ids /\ x[2] \in Requests
OBVIOUS

LEMMA IdsAre == Ids \subseteq Nat /\ 0 \notin Ids /\ Ids \subseteq 0..MaxIds /\ \A i \in Nat \ {0} : i <= MaxIds => i \in Ids
BY ConversationsAssumption DEF Ids

LEMMA ConvBaseInit == Init => ConvBase
<1> SUFFICES ASSUME Init  PROVE ConvBase
  OBVIOUS
<1>1. UsageInv  BY UsageInvInit DEF Init
<1>2. /\ handler = [c \in Callers |-> Free] /\ rows = {} /\ born = {} /\ replies = {} /\ nextId = 1
      /\ file = "present" /\ mishaps = {} /\ cuts = 0 /\ UsageInit
  BY DEF Init
<1>3. Free \in Handler  BY ConversationsAssumption DEF Free, Handler, Steps
<1>4. TypeOK  BY <1>1, <1>2, <1>3, ConversationsAssumption DEF TypeOK, UsageInv, Handler
<1>5. \A c \in Callers : Roles(c) /\ Calling(c) /\ Fresh(c)
  BY <1>2 DEF Roles, Calling, Fresh, Charging, Free, UsageInit, NoCall
<1>6. IdsAreGiven /\ RefundsAreAlone  BY <1>2 DEF IdsAreGiven, RefundsAreAlone, At, Free
<1>7. \A k \in Keys : outcome[k] = "none"  BY <1>2 DEF UsageInit
<1>8. SpentKeys  BY <1>7, KeysAre DEF SpentKeys
<1>9. Paid = {}  BY <1>7, KeysAre DEF Paid
<1>10. StoredIsPaid  BY <1>2, <1>9, FS_EmptySet DEF StoredIsPaid, At, Free
<1> QED  BY <1>1, <1>4, <1>5, <1>6, <1>8, <1>10 DEF ConvBase

-------------------------------------------------------------------------------
(* How a handler and its call move.                                            *)

OthersStay(c) == \A d \in Callers \ {c} : handler'[d] = handler[d] /\ call'[d] = call[d]

LEMMA Going ==
  ASSUME TypeOK, NEW c \in Callers, NEW step \in Steps, Goto(c, step)
  PROVE  /\ handler' \in [Callers -> Handler]
         /\ handler'[c].step = step /\ handler'[c].request = handler[c].request /\ handler'[c].id = handler[c].id
         /\ \A d \in Callers \ {c} : handler'[d] = handler[d]
<1>1. handler \in [Callers -> Handler]  BY DEF TypeOK, Handler
<1>2. handler' = [handler EXCEPT ![c].step = step]  BY DEF Goto
<1> QED  BY <1>1, <1>2 DEF Handler

LEMMA Taking ==
  ASSUME TypeOK, NEW c \in Callers, NEW new \in Handler, handler' = [handler EXCEPT ![c] = new]
  PROVE  /\ handler' \in [Callers -> Handler] /\ handler'[c] = new
         /\ \A d \in Callers \ {c} : handler'[d] = handler[d]
BY DEF TypeOK, Handler

LEMMA FreeIs == Free \in Handler /\ Free.step = "idle" /\ Free.request = "none" /\ Free.id = 0
BY ConversationsAssumption DEF Free, Handler, Steps

LEMMA Ending ==
  ASSUME TypeOK, NEW c \in Callers, Finish(c)
  PROVE  /\ handler' \in [Callers -> Handler] /\ handler'[c].step = "idle"
         /\ \A d \in Callers \ {c} : handler'[d] = handler[d]
BY Taking, FreeIs DEF Finish

LEMMA Beginning ==
  ASSUME UsageInv, NEW c \in Callers, NEW kind \in {"consume", "release"}, NEW k \in Keys, NEW n \in Amounts,
         Begin(c, kind, k, n)
  PROVE  /\ call'[c].step = "lookup" /\ call'[c].kind = kind /\ call'[c].key = k /\ call'[c].amount = n
         /\ \A d \in Callers \ {c} : call'[d] = call[d]
         /\ UNCHANGED <<used, outcome>> /\ UsageInv'
<1>1. call' = [call EXCEPT ![c] = [step |-> "lookup", key |-> k, kind |-> kind, amount |-> n, result |-> "none"]]
  BY DEF Begin
<1>2. call \in [Callers -> Call]  BY DEF UsageInv, UsageTypeOK
<1>3. UsageInv'  BY UsageInvNext DEF UsageNext
<1> QED  BY <1>1, <1>2, <1>3 DEF Begin

LEMMA CallEnds ==
  ASSUME UsageInv, NEW c \in Callers, call' = [call EXCEPT ![c] = NoCall], UNCHANGED <<used, outcome>>
  PROVE  /\ call'[c].step = "idle" /\ \A d \in Callers \ {c} : call'[d] = call[d]
         /\ UsageInv'
<1>1. call'[c] = NoCall /\ NoCall.step = "idle"  BY DEF UsageInv, UsageTypeOK, NoCall
<1>2. KnowsItsOutcome(c)'  BY <1>1 DEF KnowsItsOutcome
<1>3. NoCall \in Call  BY DEF NoCall, Call, CallSteps, Outcomes
<1>4. UsageInv'  BY <1>2, <1>3, OneCallerMoves
<1> QED  BY <1>1, <1>4 DEF UsageInv, UsageTypeOK

LEMMA UsageStays == ASSUME UsageInv, UNCHANGED usageVars  PROVE UsageInv'
BY UsageInvNext

LEMMA BaseHas ==
  ConvBase => /\ UsageInv /\ TypeOK
              /\ \A c \in Callers : Roles(c) /\ Calling(c) /\ Fresh(c)
              /\ IdsAreGiven /\ RefundsAreAlone /\ SpentKeys /\ StoredIsPaid
BY DEF ConvBase
-------------------------------------------------------------------------------
(* What every step leaves to the callers that do not take it.                  *)

Turns(c) ==
  /\ OthersStay(c)
  /\ born \subseteq born' /\ rows' \cap born \subseteq rows
  /\ nextId <= nextId' /\ mishaps \subseteq mishaps'
  /\ \A k \in Keys : outcome[k] # "none" => outcome'[k] = outcome[k]
  /\ c # Consumer => file' = file
  /\ c # Consumer /\ handler[Consumer].step \in {"release", "purge"} /\ "raced" \notin mishaps' => rows' = rows

LEMMA OthersKeep ==
  ASSUME ConvBase, NEW c \in Callers, Turns(c), nextId \in Nat, nextId' \in Nat, NEW d \in Callers \ {c}
  PROVE  Roles(d)' /\ Calling(d)'
<1>0. Roles(d) /\ Calling(d) /\ TypeOK  BY BaseHas
<1>1. handler'[d] = handler[d] /\ call'[d] = call[d]  BY DEF Turns, OthersStay
<1>2. handler[d].step \in {"count", "release", "purge"} => c # Consumer /\ file' = file
  BY <1>0 DEF Turns, Roles
<1>3. Roles(d)'
  <2>1. <<handler[d].id, handler[d].request>> \in born /\ <<handler[d].id, handler[d].request>> \notin rows =>
          <<handler[d].id, handler[d].request>> \notin rows'
    BY DEF Turns
  <2>2. handler[d].id \in Ids /\ handler[d].id < nextId => handler[d].id < nextId'
    <3>1. nextId <= nextId'  BY DEF Turns
    <3>2. \A i \in Nat : i < nextId => i < nextId'  BY <3>1
    <3> QED  BY <3>2, IdsAre
  <2>3. born \subseteq born'  BY DEF Turns
  <2> QED  BY <1>0, <1>1, <1>2, <2>1, <2>2, <2>3 DEF Roles
<1>4. Calling(d)'
  <2>1. mishaps \subseteq mishaps'  BY DEF Turns
  <2>2. handler[d].step \in {"release", "purge"} /\ "raced" \notin mishaps' => rows' = rows
    BY <1>0, <1>2 DEF Turns, Roles
  <2>3. Releasing /\ file' = file => Releasing'
    BY KeysAre DEF Turns, Releasing
  <2>4. CallIs(d, "consume", <<"create", handler[d].request>>) => CallIs(d, "consume", <<"create", handler[d].request>>)'
    BY <1>1 DEF CallIs
  <2>5. \A k : CallIs(d, "release", k) => (call'[d].step # "idle" /\ call'[d].kind = "release" /\ call'[d].key = k)
    BY <1>1 DEF CallIs
  <2> QED  BY <1>0, <1>1, <1>2, <2>1, <2>2, <2>3, <2>4, <2>5 DEF Calling, CallIs
<1> QED  BY <1>3, <1>4

\* A turn that starts no charge, inserts nothing and decides no key.
LEMMA TurnKeeps ==
  ASSUME ConvBase, NEW c \in Callers, Turns(c), UsageInv', TypeOK', Roles(c)', Calling(c)',
         born' = born, replies' \subseteq born', rows' \subseteq rows, outcome' = outcome,
         Charging(c)' => Charging(c) /\ handler'[c].id = handler[c].id,
         At(c, "rollback")' => (At(c, "rollback") \/ Charging(c)) /\ handler'[c].id = handler[c].id,
         At(c, "refund")' => \A d \in Callers \ {c} : At(d, "refund") => handler[d].id # handler'[c].id,
         At(c, "insert")' => handler'[c].request \in Paid
  PROVE  ConvBase'
<1>0. nextId \in Nat /\ nextId' \in Nat /\ born \subseteq Ids \X Requests  BY BaseHas, ConversationsAssumption DEF TypeOK
<1>1. \A d \in Callers \ {c} : handler'[d] = handler[d]  BY DEF Turns, OthersStay
<1>2. \A d \in Callers : Roles(d)' /\ Calling(d)'  BY <1>0, OthersKeep
<1>3. ASSUME NEW d \in Callers  PROVE Fresh(d)'
  <2>1. Fresh(c) /\ Fresh(d)  BY BaseHas
  <2>2. CASE d = c
    <3>1. ASSUME Charging(c)', NEW e \in Callers \ {c}, (Charging(e) \/ At(e, "rollback"))'
          PROVE  handler'[e].id # handler'[c].id
      BY <1>1, <2>1, <3>1 DEF Fresh, Charging, At
    <3> QED  BY <2>1, <2>2, <3>1 DEF Fresh
  <2>3. CASE d # c
    <3>1. Charging(d)' <=> Charging(d)  BY <1>1, <2>3 DEF Charging
    <3>2. ASSUME Charging(d), NEW e \in Callers \ {d}, (Charging(e) \/ At(e, "rollback"))'
          PROVE  handler'[e].id # handler'[d].id
      <4>1. Charging(e) \/ At(e, "rollback")
        BY <1>1, <3>2 DEF Charging, At
      <4>2. handler'[e].id = handler[e].id  BY <1>1, <3>2
      <4> QED  BY <1>1, <2>1, <2>3, <3>2, <4>1, <4>2 DEF Fresh
    <3> QED  BY <1>1, <2>1, <2>3, <3>1, <3>2 DEF Fresh
  <2> QED  BY <2>2, <2>3
<1>4. IdsAreGiven'
  <2>1. \A x \in born : x[1] \in Nat  BY <1>0, PairsAre, IdsAre
  <2> QED  BY <1>0, <2>1, BaseHas DEF IdsAreGiven, Turns
<1>5. RefundsAreAlone'
  <2>1. RefundsAreAlone  BY BaseHas
  <2> QED  BY <1>1, <2>1 DEF RefundsAreAlone, At
<1>6. SpentKeys'
  <2>1. SpentKeys  BY BaseHas
  <2>2. \A i \in Ids : i < nextId => i < nextId'  BY <1>0, IdsAre DEF Turns
  <2> QED  BY <2>1, <2>2 DEF SpentKeys
<1>7. StoredIsPaid'
  <2>1. StoredIsPaid  BY BaseHas
  <2>2. Paid' = Paid  BY DEF Paid
  <2>3. "reused" \notin mishaps' => "reused" \notin mishaps  BY DEF Turns
  <2> QED  BY <1>1, <2>1, <2>2, <2>3 DEF StoredIsPaid, At
<1> QED  BY <1>2, <1>3, <1>4, <1>5, <1>6, <1>7 DEF ConvBase

LEMMA RowsCounted ==
  ASSUME ConvBase
  PROVE  /\ IsFiniteSet(born) /\ IsFiniteSet(rows)
         /\ Cardinality(rows) \in 0..MaxIds /\ (rows # {} => Cardinality(rows) \in Amounts)
<1>1. born \subseteq Ids \X Requests /\ rows \subseteq born /\ \A x, y \in born : x[1] = y[1] => x = y
  BY BaseHas DEF TypeOK, IdsAreGiven
<1> DEFINE f == [x \in born |-> x[1]]
<1>2. f \in Injection(born, Ids)  BY <1>1, PairsAre DEF Injection, IsInjective
<1>3. IsFiniteSet(Ids) /\ Cardinality(Ids) = MaxIds
  <2>1. IsFiniteSet(1..MaxIds) /\ Cardinality(1..MaxIds) = IF 1 > MaxIds THEN 0 ELSE MaxIds - 1 + 1
    BY ConversationsAssumption, FS_Interval
  <2> QED  BY <2>1, ConversationsAssumption DEF Ids
<1>4. IsFiniteSet(born) /\ Cardinality(born) <= MaxIds  BY <1>2, <1>3, FS_Injection
<1>5. IsFiniteSet(rows) /\ Cardinality(rows) <= Cardinality(born)  BY <1>1, <1>4, FS_Subset
<1>6. Cardinality(rows) \in Nat /\ Cardinality(born) \in Nat  BY <1>4, <1>5, FS_CardinalityType
<1>7. rows # {} => Cardinality(rows) # 0  BY <1>5, FS_EmptySet
<1>8. rows # {} => Cardinality(rows) \in Ids  BY <1>4, <1>5, <1>6, <1>7, ConversationsAssumption, IdsAre
<1> QED  BY <1>4, <1>5, <1>6, <1>8, ConversationsAssumption
LEMMA QuietType ==
  ASSUME ConvBase, UsageInv', handler' \in [Callers -> Handler], rows' \subseteq rows, born' = born,
         replies' \subseteq born', file' \in {"present", "announced", "handled"}, nextId' = nextId,
         mishaps' \subseteq mishaps \union {"lost", "reused", "raced", "reset"}, cuts' \in 0..MaxCuts
  PROVE  TypeOK'
<1>1. TypeOK  BY BaseHas
<1>2. UsageTypeOK'  BY DEF UsageInv
<1> QED  BY <1>1, <1>2 DEF TypeOK, Handler

-------------------------------------------------------------------------------
(* CreateConversation.                                                         *)

LEMMA CreateKeeps == ASSUME ConvBase, NEW c \in Callers, NEW r \in Requests, Create(c, r)  PROVE ConvBase'
<1> DEFINE new == [Free EXCEPT !.step = "find", !.request = r]
<1>0. TypeOK /\ UsageInv /\ IdsAreGiven /\ Calling(c)  BY BaseHas
<1>1. new \in Handler /\ new.step = "find" /\ new.request = r  BY FreeIs DEF Handler, Steps
<1>2. handler' = [handler EXCEPT ![c] = new]  BY DEF Create
<1> HIDE DEF new
<1>3. /\ handler' \in [Callers -> Handler] /\ handler'[c] = new
      /\ \A d \in Callers \ {c} : handler'[d] = handler[d]
  BY <1>0, <1>1, <1>2, Taking
<1>4. UNCHANGED <<usageVars, rows, file, nextId, replies, born, mishaps, cuts>> /\ c # Consumer /\ At(c, "idle")
  BY DEF Create, ghosts
<1>5. UsageInv'  BY <1>0, <1>4, UsageStays
<1>6. Turns(c)  BY <1>0, <1>3, <1>4 DEF Turns, OthersStay, usageVars, TypeOK
<1>7. TypeOK'  BY <1>0, <1>3, <1>4, <1>5, QuietType DEF TypeOK, IdsAreGiven
<1>8. Roles(c)' /\ Calling(c)'
  BY <1>0, <1>1, <1>3, <1>4 DEF Roles, Calling, At, usageVars
<1> QED  BY <1>0, <1>1, <1>3, <1>4, <1>5, <1>6, <1>7, <1>8, TurnKeeps DEF At, Charging, usageVars, IdsAreGiven

\* A handler that ends, or goes where no call is awaited, and leaves all but the replies alone.
LEMMA PassKeeps ==
  ASSUME ConvBase, NEW c \in Callers, NEW step \in {"idle", "scope", "winner"},
         handler' \in [Callers -> Handler], handler'[c].step = step,
         step \in {"scope", "winner"} => /\ handler'[c].request = handler[c].request /\ handler'[c].id = handler[c].id
                                         /\ handler[c].step \in {"find", "insert"},
         step = "winner" => handler[c].step = "insert",
         \A d \in Callers \ {c} : handler'[d] = handler[d],
         UNCHANGED <<usageVars, rows, file, nextId, born, mishaps, cuts>>, replies' \subseteq born,
         call[c].step = "idle"
  PROVE  ConvBase'
<1>0. TypeOK /\ UsageInv /\ IdsAreGiven /\ Roles(c) /\ Calling(c)  BY BaseHas
<1>1. UsageInv'  BY <1>0, UsageStays
<1>2. Turns(c)  BY <1>0 DEF Turns, OthersStay, usageVars, TypeOK
<1>3. TypeOK'  BY <1>0, <1>1, QuietType DEF TypeOK
<1>4. Roles(c)'
  BY <1>0 DEF Roles
<1>5. Calling(c)'
  BY <1>0 DEF Calling, usageVars
<1> QED  BY <1>1, <1>2, <1>3, <1>4, <1>5, TurnKeeps DEF At, Charging, usageVars

LEMMA FindByRequestKeeps == ASSUME ConvBase, NEW c \in Callers, FindByRequest(c)  PROVE ConvBase'
<1>0. TypeOK /\ IdsAreGiven /\ Roles(c) /\ Calling(c)  BY BaseHas
<1>1. At(c, "find") /\ UNCHANGED <<usageVars, rows, file, nextId, born, mishaps, cuts>>  BY DEF FindByRequest, ghosts
<1>2. call[c].step = "idle"  BY <1>0, <1>1 DEF Calling, At
<1>3. CASE Goto(c, "scope") /\ UNCHANGED replies
  <2>1. /\ handler' \in [Callers -> Handler]
        /\ handler'[c].step = "scope" /\ handler'[c].request = handler[c].request /\ handler'[c].id = handler[c].id
        /\ \A d \in Callers \ {c} : handler'[d] = handler[d]
    BY <1>0, <1>3, Going DEF Steps
  <2> QED  BY <1>0, <1>1, <1>2, <1>3, <2>1, PassKeeps DEF At, IdsAreGiven
<1>4. CASE Finish(c) /\ \E x \in Row(handler[c].request) : Answer(x)
  <2>1. replies' \subseteq born  BY <1>0, <1>4 DEF Answer, Row, IdsAreGiven
  <2> QED  BY <1>0, <1>1, <1>2, <1>4, <2>1, Ending, PassKeeps
<1> QED  BY <1>3, <1>4 DEF FindByRequest

LEMMA FindWinnerKeeps == ASSUME ConvBase, NEW c \in Callers, FindWinner(c)  PROVE ConvBase'
<1>0. TypeOK /\ IdsAreGiven /\ Roles(c) /\ Calling(c)  BY BaseHas
<1>1. At(c, "winner") /\ Finish(c) /\ UNCHANGED <<usageVars, rows, file, nextId, born, mishaps, cuts>>
  BY DEF FindWinner, ghosts
<1>2. call[c].step = "idle"  BY <1>0, <1>1 DEF Calling, At
<1>3. replies' \subseteq born  BY <1>0 DEF FindWinner, Answer, Row, IdsAreGiven
<1> QED  BY <1>0, <1>1, <1>2, <1>3, Ending, PassKeeps
\* A handler that ends, and its call with it.
LEMMA EndKeeps ==
  ASSUME ConvBase, NEW c \in Callers,
         handler' \in [Callers -> Handler], handler'[c].step = "idle",
         \A d \in Callers \ {c} : handler'[d] = handler[d] /\ call'[d] = call[d],
         call'[c].step = "idle", UsageInv',
         UNCHANGED <<used, outcome, rows, file, nextId, replies, born>>,
         mishaps' \in {mishaps, mishaps \union {"lost"}}, cuts' \in 0..MaxCuts
  PROVE  ConvBase'
<1>0. TypeOK /\ IdsAreGiven  BY BaseHas
<1>2. Turns(c)  BY <1>0 DEF Turns, OthersStay, TypeOK
<1>3. TypeOK'  BY <1>0, QuietType DEF TypeOK, IdsAreGiven
<1>4. Roles(c)' /\ Calling(c)'  BY DEF Roles, Calling
<1> QED  BY <1>0, <1>2, <1>3, <1>4, TurnKeeps DEF At, Charging, IdsAreGiven

LEMMA AssertScopeExistsKeeps == ASSUME ConvBase, NEW c \in Callers, AssertScopeExists(c)  PROVE ConvBase'
<1> DEFINE r == handler[c].request
<1>0. TypeOK /\ UsageInv /\ IdsAreGiven /\ SpentKeys /\ StoredIsPaid /\ RefundsAreAlone /\ Roles(c) /\ Calling(c)  BY BaseHas
<1>1. At(c, "scope") /\ UNCHANGED <<rows, file, replies, born, mishaps, cuts>>  BY DEF AssertScopeExists, ghosts
<1>2. call[c].step = "idle" /\ r \in Requests /\ c # Consumer  BY <1>0, <1>1 DEF Calling, Roles, At
<1>3. CASE Finish(c) /\ UNCHANGED <<usageVars, nextId>>
  BY <1>0, <1>1, <1>2, <1>3, Ending, PassKeeps DEF IdsAreGiven
<1>4. CASE /\ nextId <= MaxIds
           /\ handler' = [handler EXCEPT ![c].step = "charge", ![c].id = nextId]
           /\ nextId' = nextId + 1
           /\ Begin(c, "consume", <<"create", r>>, 1)
  <2>1. nextId \in Ids /\ nextId \in Nat /\ nextId \in 0..MaxIds /\ nextId' \in 1..MaxIds + 1 /\ 1 \in Amounts
    <3>1. nextId \in 1..MaxIds + 1  BY <1>0 DEF TypeOK
    <3>2. 1 \in Ids /\ nextId \in Ids  BY <1>4, <3>1, ConversationsAssumption DEF Ids
    <3> QED  BY <1>4, <3>1, <3>2, ConversationsAssumption
  <2>2. handler \in [Callers -> Handler]  BY <1>0 DEF TypeOK, Handler
  <2>3. /\ handler' \in [Callers -> Handler]
        /\ handler'[c].step = "charge" /\ handler'[c].request = r /\ handler'[c].id = nextId
        /\ \A d \in Callers \ {c} : handler'[d] = handler[d]
    BY <1>4, <2>1, <2>2 DEF Handler, Steps
  <2>4. /\ call'[c].step = "lookup" /\ call'[c].kind = "consume" /\ call'[c].key = <<"create", r>> /\ call'[c].amount = 1
        /\ \A d \in Callers \ {c} : call'[d] = call[d]
        /\ UNCHANGED <<used, outcome>> /\ UsageInv'
    BY <1>0, <1>2, <1>4, <2>1, KeysAre, Beginning
  <2> HIDE DEF r
  <2>5. nextId < nextId' /\ nextId <= nextId'  BY <1>4, <2>1
  <2>6. Turns(c)  BY <1>0, <1>1, <1>2, <2>3, <2>4, <2>5 DEF Turns, OthersStay
  <2>7. \A d \in Callers : Roles(d)' /\ Calling(d)'
    <3>1. ASSUME NEW d \in Callers \ {c}  PROVE Roles(d)' /\ Calling(d)'
      BY <2>1, <2>6, OthersKeep DEF Ids
    <3>2. Roles(c)'  BY <1>2, <2>1, <2>3, <2>5 DEF Roles
    <3>3. Calling(c)'  BY <2>3, <2>4 DEF Calling, CallIs
    <3> QED  BY <3>1, <3>2, <3>3
  <2>8. \A d \in Callers \ {c} : handler[d].step \in {"charge", "insert", "rollback"} => handler[d].id # nextId
    <3>1. \A d \in Callers : handler[d].step \in {"charge", "insert", "rollback"} => handler[d].id \in Ids /\ handler[d].id < nextId
      BY BaseHas DEF Roles
    <3> QED  BY <3>1, IdsAre, <2>1
  <2>9. ASSUME NEW d \in Callers  PROVE Fresh(d)'
    <3>1. CASE d = c
      <4>1. outcome[<<"rollback", nextId>>] = "none"  BY <1>0, <2>1 DEF SpentKeys
      <4>2. \A x \in born : x[1] # nextId
        <5>1. \A x \in born : x[1] \in Ids  BY <1>0, PairsAre DEF TypeOK
        <5> QED  BY <5>1, <1>0, <2>1, IdsAre DEF IdsAreGiven
      <4> QED  BY <1>1, <2>3, <2>4, <2>8, <3>1, <4>1, <4>2 DEF Fresh, Charging, At
    <3>2. CASE d # c
      <4>1. Fresh(d)  BY BaseHas
      <4> QED  BY <1>1, <2>3, <2>4, <2>8, <3>2, <4>1 DEF Fresh, Charging, At
    <3> QED  BY <3>1, <3>2
  <2>10. IdsAreGiven'
    <3>1. \A x \in born : x[1] \in Nat  BY <1>0, PairsAre, IdsAre DEF TypeOK
    <3> QED  BY <1>0, <1>1, <2>1, <2>5, <3>1 DEF IdsAreGiven
  <2>11. RefundsAreAlone'  BY <1>0, <2>3 DEF RefundsAreAlone, At
  <2>12. SpentKeys'
    <3>1. \A i \in Ids : i < nextId => i < nextId'  BY <2>1, <2>5, IdsAre
    <3> QED  BY <1>0, <1>1, <2>4, <3>1 DEF SpentKeys
  <2>13. StoredIsPaid'
    <3>1. Paid' = Paid  BY <2>4 DEF Paid
    <3> QED  BY <1>0, <1>1, <2>3, <3>1 DEF StoredIsPaid, At
  <2>14. TypeOK'
    BY <1>0, <1>1, <2>1, <2>3, <2>4 DEF TypeOK, Handler, UsageInv
  <2> QED  BY <2>4, <2>7, <2>9, <2>10, <2>11, <2>12, <2>13, <2>14 DEF ConvBase
<1> QED  BY <1>3, <1>4 DEF AssertScopeExists

LEMMA ReturnIs ==
  ASSUME ConvBase, NEW c \in Callers, Return(c)
  PROVE  /\ call'[c].step = "idle" /\ \A d \in Callers \ {c} : call'[d] = call[d]
         /\ UsageInv' /\ UNCHANGED <<used, outcome>> /\ call[c].step \in {"answered", "failed"}
         /\ call[c].result \in Outcomes
         /\ call[c].result # "none" => call[c].step = "answered" /\ call[c].result = outcome[call[c].key]
<1>1. UsageInv /\ Calling(c)  BY BaseHas
<1>2. call[c] \in Call /\ KnowsItsOutcome(c)  BY <1>1 DEF UsageInv, UsageTypeOK
<1>3. call[c].result \in Outcomes  BY <1>2 DEF Call
<1>4. call[c].result # "none" => call[c].step = "answered" /\ call[c].result = outcome[call[c].key]
  BY <1>1, <1>2 DEF Return, KnowsItsOutcome, Calling
<1> QED  BY <1>1, <1>3, <1>4, CallEnds DEF Return

LEMMA ChargedKeeps == ASSUME ConvBase, NEW c \in Callers, Charged(c)  PROVE ConvBase'
<1>0. TypeOK /\ UsageInv /\ IdsAreGiven /\ Roles(c) /\ Calling(c)  BY BaseHas
<1>1. At(c, "charge") /\ Return(c) /\ UNCHANGED <<rows, file, nextId, replies, born, mishaps, cuts>>
  BY DEF Charged, ghosts
<1>2. /\ call'[c].step = "idle" /\ \A d \in Callers \ {c} : call'[d] = call[d]
      /\ UsageInv' /\ UNCHANGED <<used, outcome>>
      /\ call[c].result # "none" => call[c].step = "answered" /\ call[c].result = outcome[call[c].key]
  BY <1>1, ReturnIs
<1>3. CASE Finish(c)
  BY <1>0, <1>1, <1>2, <1>3, Ending, EndKeeps DEF TypeOK
<1>4. CASE call[c].result = "allowed" /\ Goto(c, "insert")
  <2>1. /\ handler' \in [Callers -> Handler]
        /\ handler'[c].step = "insert" /\ handler'[c].request = handler[c].request /\ handler'[c].id = handler[c].id
        /\ \A d \in Callers \ {c} : handler'[d] = handler[d]
    BY <1>0, <1>4, Going DEF Steps
  <2>2. outcome[<<"create", handler[c].request>>] = "allowed" /\ handler[c].request \in Requests
    BY <1>0, <1>1, <1>2, <1>4 DEF Roles, Calling, CallIs, At
  <2>3. Turns(c)  BY <1>0, <1>1, <1>2, <2>1 DEF Turns, OthersStay, TypeOK
  <2>4. TypeOK'  BY <1>0, <1>1, <1>2, <2>1, QuietType DEF TypeOK, IdsAreGiven
  <2>5. Roles(c)' /\ Calling(c)'  BY <1>0, <1>1, <1>2, <2>1 DEF Roles, Calling, At
  <2> QED  BY <1>0, <1>1, <1>2, <2>1, <2>2, <2>3, <2>4, <2>5, TurnKeeps DEF At, Charging, IdsAreGiven, Paid
<1> QED  BY <1>3, <1>4 DEF Charged
\* The conversation is stored, by a handler that ends or takes its charge back.
LEMMA StoreKeeps ==
  ASSUME ConvBase, NEW c \in Callers, At(c, "insert"), Row(handler[c].request) = {},
         OthersStay(c), handler' \in [Callers -> Handler],
         handler'[c].step \in {"idle", "rollback"},
         handler'[c].step = "rollback" => handler'[c].id = handler[c].id /\ handler'[c].request = handler[c].request,
         rows' = rows \union {<<handler[c].id, handler[c].request>>},
         born' = born \union {<<handler[c].id, handler[c].request>>},
         replies' \in {replies, replies \union {<<handler[c].id, handler[c].request>>}},
         UsageInv', Calling(c)', UNCHANGED <<used, outcome, file, nextId>>,
         mishaps \union Racing \subseteq mishaps', mishaps' \subseteq mishaps \union {"raced", "reused"},
         "reused" \notin mishaps' => ~PaidBack(handler[c].request),
         cuts' \in 0..MaxCuts
  PROVE  ConvBase'
<1> DEFINE i == handler[c].id
           r == handler[c].request
           new == <<i, r>>
<1>0. /\ TypeOK /\ UsageInv /\ IdsAreGiven /\ SpentKeys /\ StoredIsPaid /\ RefundsAreAlone
      /\ Roles(c) /\ Calling(c) /\ Fresh(c)
  BY BaseHas
<1>1. i \in Ids /\ i < nextId /\ r \in Requests /\ c # Consumer  BY <1>0 DEF Roles, At
<1>2. new \in Ids \X Requests /\ new[1] = i /\ new[2] = r  BY <1>1
<1>3. \A x \in born : x[1] # i  BY <1>0 DEF Fresh, Charging, At
<1>4. born \subseteq Ids \X Requests /\ rows \subseteq Ids \X Requests /\ rows \subseteq born /\ nextId \in Nat
      /\ replies \subseteq born /\ replies \subseteq Ids \X Requests
  BY <1>0, ConversationsAssumption DEF TypeOK, IdsAreGiven
<1>5. new \notin born  BY <1>2, <1>3
<1>6. \A d \in Callers \ {c} : handler'[d] = handler[d]  BY DEF OthersStay
<1> HIDE DEF new, i, r
<1>7. /\ rows' = rows \union {new} /\ born' = born \union {new}
      /\ replies' \in {replies, replies \union {new}}
      /\ \A x \in rows : x[2] # r
  BY DEF new, i, r, Row
<1>8. Turns(c)
  <2>1. rows' \cap born \subseteq rows  BY <1>5, <1>7
  <2>2. handler[Consumer].step \in {"release", "purge"} => "raced" \in mishaps'  BY DEF Racing, Purging
  <2>3. mishaps \subseteq mishaps' /\ born \subseteq born'  BY <1>7
  <2> QED  BY <1>4, <2>1, <2>2, <2>3 DEF Turns
<1>9. \A d \in Callers : Roles(d)' /\ Calling(d)'
  <2>1. \A d \in Callers \ {c} : Roles(d)' /\ Calling(d)'  BY <1>4, <1>8, OthersKeep
  <2>2. Roles(c)'  BY <1>1 DEF Roles, i, r
  <2> QED  BY <2>1, <2>2
<1>10. TypeOK'
  <2>1. \A x, y \in rows' : x[2] = y[2] => x = y  BY <1>0, <1>2, <1>7 DEF TypeOK
  <2>2. rows' \subseteq Ids \X Requests /\ born' \subseteq Ids \X Requests /\ replies' \subseteq Ids \X Requests
    BY <1>2, <1>4, <1>7
  <2> QED  BY <1>0, <2>1, <2>2 DEF TypeOK, Handler, UsageInv
<1>11. ASSUME NEW d \in Callers  PROVE Fresh(d)'
  <2>1. CASE d = c  BY <2>1 DEF Fresh, Charging
  <2>2. CASE d # c
    <3>1. Fresh(d)  BY BaseHas
    <3>2. Charging(d)' => Charging(d) /\ handler'[d].id = handler[d].id  BY <1>6, <2>2 DEF Charging
    <3>3. Charging(d) => handler[d].id # i  BY <2>2, <3>1 DEF Fresh, Charging, At, i
    <3>4. Charging(d) => \A x \in born' : x[1] # handler[d].id  BY <1>2, <1>7, <3>1, <3>3 DEF Fresh
    <3>5. ASSUME Charging(d), NEW e \in Callers \ {d}, (Charging(e) \/ At(e, "rollback"))'
          PROVE  handler'[e].id # handler[d].id
      <4>1. CASE e = c  BY <3>3, <3>5, <4>1 DEF Charging, At, i
      <4>2. CASE e # c  BY <1>6, <3>1, <3>5, <4>2 DEF Fresh, Charging, At
      <4> QED  BY <4>1, <4>2
    <3> QED  BY <3>1, <3>2, <3>4, <3>5 DEF Fresh
  <2> QED  BY <2>1, <2>2
<1>12. IdsAreGiven'
  <2>1. \A x \in born' : x[1] < nextId'  BY <1>0, <1>1, <1>2, <1>7 DEF IdsAreGiven, i
  <2>2. \A x, y \in born' : x[1] = y[1] => x = y  BY <1>0, <1>2, <1>3, <1>7 DEF IdsAreGiven
  <2>3. rows' \subseteq born' /\ replies' \subseteq born'  BY <1>4, <1>7
  <2> QED  BY <2>1, <2>2, <2>3 DEF IdsAreGiven
<1>13. RefundsAreAlone'  BY <1>0, <1>6 DEF RefundsAreAlone, At
<1>14. SpentKeys'
  <2>1. \A x \in born \ rows : x \in born' \ rows'  BY <1>5, <1>7
  <2> QED  BY <1>0, <2>1 DEF SpentKeys
<1>15. StoredIsPaid'
  <2>1. Paid' = Paid  BY DEF Paid
  <2>2. r \in Paid  BY <1>0 DEF StoredIsPaid, r
  <2>3. \A x \in born' : x[2] \in Paid  BY <1>0, <1>2, <1>7, <2>2 DEF StoredIsPaid
  <2>4. \A d \in Callers : At(d, "insert")' => handler'[d].request \in Paid
    BY <1>0, <1>6 DEF StoredIsPaid, At
  <2>5. "reused" \notin mishaps' => "reused" \notin mishaps /\ \A x \in born : x[2] # r
    BY <1>7 DEF PaidBack, r
  <2>6. "reused" \notin mishaps' => \A x, y \in born' : x[2] = y[2] => x = y
    BY <1>0, <1>2, <1>7, <2>5 DEF StoredIsPaid
  <2> QED  BY <1>0, <2>1, <2>3, <2>4, <2>6 DEF StoredIsPaid
<1> QED  BY <1>9, <1>10, <1>11, <1>12, <1>13, <1>14, <1>15 DEF ConvBase

LEMMA InsertKeeps == ASSUME ConvBase, NEW c \in Callers, Insert(c)  PROVE ConvBase'
<1> DEFINE new == <<handler[c].id, handler[c].request>>
<1>0. TypeOK /\ UsageInv /\ IdsAreGiven /\ Roles(c) /\ Calling(c)  BY BaseHas
<1>1. At(c, "insert") /\ UNCHANGED <<usageVars, file, nextId, cuts>> /\ call[c].step = "idle" /\ new[2] = handler[c].request
  BY <1>0 DEF Insert, Calling, At
<1>2. CASE Row(new[2]) = {}
  <2>1. /\ rows' = rows \union {new} /\ born' = born \union {new} /\ Finish(c) /\ replies' = replies \union {new}
        /\ mishaps' = mishaps \union Racing \union (IF PaidBack(handler[c].request) THEN {"reused"} ELSE {})
    BY <1>1, <1>2 DEF Insert, Answer
  <2>2. UsageInv'  BY <1>0, <1>1, UsageStays
  <2>3. /\ handler' \in [Callers -> Handler] /\ handler'[c].step = "idle"
        /\ \A d \in Callers \ {c} : handler'[d] = handler[d]
    BY <1>0, <2>1, Ending
  <2>4. OthersStay(c) /\ Calling(c)'  BY <1>1, <2>3 DEF OthersStay, Calling, usageVars
  <2>5. /\ mishaps \union Racing \subseteq mishaps' /\ mishaps' \subseteq mishaps \union {"raced", "reused"}
        /\ "reused" \notin mishaps' => ~PaidBack(handler[c].request)
    BY <2>1 DEF Racing
  <2> QED  BY <1>0, <1>1, <1>2, <2>1, <2>2, <2>3, <2>4, <2>5, StoreKeeps DEF usageVars, TypeOK
<1>3. CASE Row(new[2]) # {}
  <2>1. Goto(c, "winner") /\ UNCHANGED <<rows, replies, born, mishaps>>
    BY <1>1, <1>3 DEF Insert, ghosts
  <2>2. /\ handler' \in [Callers -> Handler]
        /\ handler'[c].step = "winner" /\ handler'[c].request = handler[c].request /\ handler'[c].id = handler[c].id
        /\ \A d \in Callers \ {c} : handler'[d] = handler[d]
    BY <1>0, <2>1, Going DEF Steps
  <2> QED  BY <1>0, <1>1, <2>1, <2>2, PassKeeps DEF At, IdsAreGiven
<1> QED  BY <1>2, <1>3

LEMMA InsertFailsKeeps == ASSUME ConvBase, NEW c \in Callers, InsertFails(c)  PROVE ConvBase'
<1> DEFINE new == <<handler[c].id, handler[c].request>>
<1>0. TypeOK /\ UsageInv /\ IdsAreGiven /\ Roles(c) /\ Calling(c)  BY BaseHas
<1>1. At(c, "insert") /\ UNCHANGED <<file, nextId, replies>> /\ Goto(c, "rollback") /\ cuts' = cuts + 1 /\ cuts < MaxCuts
      /\ Begin(c, "release", <<"rollback", handler[c].id>>, 1) /\ new[2] = handler[c].request
  BY DEF InsertFails
<1>2. handler[c].id \in Ids /\ handler[c].request \in Requests /\ c # Consumer  BY <1>0, <1>1 DEF Roles, At
<1>3. /\ handler' \in [Callers -> Handler]
      /\ handler'[c].step = "rollback" /\ handler'[c].request = handler[c].request /\ handler'[c].id = handler[c].id
      /\ \A d \in Callers \ {c} : handler'[d] = handler[d]
  BY <1>0, <1>1, Going DEF Steps
<1>4. 1 \in Amounts /\ cuts' \in 0..MaxCuts
  BY <1>0, <1>1, <1>2, ConversationsAssumption DEF TypeOK, Ids
<1>5. /\ call'[c].step = "lookup" /\ call'[c].kind = "release" /\ call'[c].key = <<"rollback", handler[c].id>>
      /\ call'[c].amount = 1
      /\ \A d \in Callers \ {c} : call'[d] = call[d]
      /\ UNCHANGED <<used, outcome>> /\ UsageInv'
  <2>1. <<"rollback", handler[c].id>> \in Keys  BY <1>2, KeysAre
  <2>2. Begin(c, "release", <<"rollback", handler[c].id>>, 1)  BY <1>1
  <2> QED  BY <1>0, <1>4, <2>1, <2>2, Beginning
<1>6. OthersStay(c)  BY <1>3, <1>5 DEF OthersStay
<1>7. "reused" \in mishaps'  BY DEF InsertFails
<1>8. Calling(c)'  BY <1>3, <1>5, <1>7 DEF Calling, CallIs
<1>9. CASE /\ Row(new[2]) = {} /\ rows' = rows \union {new} /\ born' = born \union {new}
           /\ mishaps' = mishaps \union Racing \union {"reused"}
  <2>1. mishaps \union Racing \subseteq mishaps' /\ mishaps' \subseteq mishaps \union {"raced", "reused"}
    BY <1>9 DEF Racing
  <2> QED  BY <1>1, <1>3, <1>4, <1>5, <1>6, <1>7, <1>8, <1>9, <2>1, StoreKeeps
<1>10. CASE mishaps' = mishaps \union {"reused"} /\ UNCHANGED <<rows, born>>
  <2>1. Turns(c)  BY <1>0, <1>1, <1>5, <1>6, <1>10 DEF Turns, TypeOK
  <2>2. TypeOK'  BY <1>0, <1>1, <1>3, <1>4, <1>5, <1>10, QuietType DEF TypeOK, IdsAreGiven
  <2>3. Roles(c)'  BY <1>0, <1>1, <1>3 DEF Roles, At
  <2> QED  BY <1>0, <1>1, <1>3, <1>5, <1>8, <1>10, <2>1, <2>2, <2>3, TurnKeeps DEF At, Charging, IdsAreGiven
<1> QED  BY <1>9, <1>10 DEF InsertFails

LEMMA RolledBackKeeps == ASSUME ConvBase, NEW c \in Callers, RolledBack(c)  PROVE ConvBase'
<1>0. TypeOK  BY BaseHas
<1>1. Return(c) /\ Finish(c) /\ UNCHANGED <<rows, file, nextId, replies, born, mishaps, cuts>>
  BY DEF RolledBack, ghosts
<1> QED  BY <1>0, <1>1, Ending, ReturnIs, EndKeeps DEF TypeOK
-------------------------------------------------------------------------------
(* DeleteConversation.                                                         *)

LEMMA FindConversationKeeps == ASSUME ConvBase, NEW c \in Callers, NEW x \in rows, FindConversation(c, x)  PROVE ConvBase'
<1>0. TypeOK /\ UsageInv /\ IdsAreGiven /\ Calling(c)  BY BaseHas
<1>1. c # Consumer /\ At(c, "idle") /\ UNCHANGED <<usageVars, rows, file, nextId, replies, born, mishaps, cuts>>
  BY DEF FindConversation, ghosts
<1> DEFINE new == [step |-> "erase", request |-> x[2], id |-> x[1]]
<1>2. x \in born /\ x = <<x[1], x[2]>> /\ x[1] \in Ids /\ x[2] \in Requests
  <2>1. x \in Ids \X Requests /\ x \in born  BY <1>0 DEF TypeOK, IdsAreGiven
  <2> QED  BY <2>1, PairsAre
<1>3. new \in Handler /\ new.step = "erase" /\ <<new.id, new.request>> \in born
  <2>1. x[1] \in 0..MaxIds  BY <1>2, IdsAre
  <2> QED  BY <1>2, <2>1 DEF Handler, Steps
<1>4. handler' = [handler EXCEPT ![c] = new]  BY DEF FindConversation
<1> HIDE DEF new
<1>5. /\ handler' \in [Callers -> Handler] /\ handler'[c] = new
      /\ \A d \in Callers \ {c} : handler'[d] = handler[d]
  BY <1>0, <1>3, <1>4, Taking
<1>6. UsageInv'  BY <1>0, <1>1, UsageStays
<1>7. Turns(c)  BY <1>0, <1>1, <1>5 DEF Turns, OthersStay, usageVars, TypeOK
<1>8. TypeOK'  BY <1>0, <1>1, <1>5, <1>6, QuietType DEF TypeOK, IdsAreGiven
<1>9. Roles(c)'  BY <1>1, <1>3, <1>5 DEF Roles
<1>10. Calling(c)'  BY <1>0, <1>1, <1>3, <1>5 DEF Calling, At, usageVars
<1> QED  BY <1>0, <1>1, <1>3, <1>5, <1>6, <1>7, <1>8, <1>9, <1>10, TurnKeeps DEF At, Charging, usageVars, IdsAreGiven

LEMMA DeleteConversationKeeps == ASSUME ConvBase, NEW c \in Callers, DeleteConversation(c)  PROVE ConvBase'
<1> DEFINE x == <<handler[c].id, handler[c].request>>
<1>0. TypeOK /\ UsageInv /\ IdsAreGiven /\ Roles(c) /\ Calling(c)  BY BaseHas
<1>1. At(c, "erase") /\ UNCHANGED <<file, nextId, replies, born, cuts>> /\ x \in born /\ c # Consumer /\ x[1] = handler[c].id
  BY <1>0 DEF DeleteConversation, Roles, At
<1>2. CASE x \in rows
  <2>1. /\ rows' = rows \ {x} /\ Goto(c, "refund") /\ Begin(c, "release", <<"delete", x[1]>>, 1)
        /\ mishaps' = mishaps \union Racing
    BY <1>2 DEF DeleteConversation
  <2>2. /\ handler' \in [Callers -> Handler]
        /\ handler'[c].step = "refund" /\ handler'[c].request = handler[c].request /\ handler'[c].id = handler[c].id
        /\ \A d \in Callers \ {c} : handler'[d] = handler[d]
    BY <1>0, <2>1, Going DEF Steps
  <2>3. handler[c].id \in Ids /\ 1 \in Amounts
    <3>1. x \in Ids \X Requests  BY <1>0, <1>1 DEF TypeOK
    <3>2. handler[c].id \in Ids  BY <3>1
    <3> QED  BY <3>2, ConversationsAssumption DEF Ids
  <2>4. /\ call'[c].step = "lookup" /\ call'[c].kind = "release" /\ call'[c].key = <<"delete", handler[c].id>>
        /\ call'[c].amount = 1
        /\ \A d \in Callers \ {c} : call'[d] = call[d]
        /\ UNCHANGED <<used, outcome>> /\ UsageInv'
    <3>1. <<"delete", handler[c].id>> \in Keys  BY <2>3, KeysAre
    <3>2. Begin(c, "release", <<"delete", handler[c].id>>, 1)  BY <1>1, <2>1
    <3> QED  BY <1>0, <2>3, <3>1, <3>2, Beginning
  <2>5. Turns(c)
    <3>1. handler[Consumer].step \in {"release", "purge"} => "raced" \in mishaps'  BY <2>1 DEF Racing, Purging
    <3> QED  BY <1>0, <1>1, <2>1, <2>2, <2>4, <3>1 DEF Turns, OthersStay, TypeOK
  <2>6. TypeOK'
    <3>1. mishaps' \subseteq mishaps \union {"raced"}  BY <2>1 DEF Racing
    <3> QED  BY <1>0, <1>1, <2>1, <2>2, <2>4, <3>1, QuietType DEF TypeOK, IdsAreGiven
  <2>7. Roles(c)'  BY <1>1, <2>1, <2>2 DEF Roles
  <2>8. Calling(c)'  BY <2>2, <2>4 DEF Calling, CallIs
  <2>9. ASSUME NEW d \in Callers \ {c}, At(d, "refund")  PROVE handler[d].id # handler'[c].id
    <3>1. /\ <<handler[d].id, handler[d].request>> \in born /\ <<handler[d].id, handler[d].request>> \notin rows
      BY <2>9, BaseHas DEF Roles, At
    <3>2. \A y \in born : y[1] = x[1] => y = x  BY <1>0, <1>1 DEF IdsAreGiven
    <3> QED  BY <1>1, <1>2, <2>2, <3>1, <3>2
  <2> QED  BY <1>0, <1>1, <2>1, <2>2, <2>4, <2>5, <2>6, <2>7, <2>8, <2>9, TurnKeeps DEF At, Charging, IdsAreGiven
<1>3. CASE x \notin rows
  <2>1. Finish(c) /\ UNCHANGED <<usageVars, rows, mishaps>> /\ call[c].step = "idle"
    BY <1>0, <1>1, <1>3 DEF DeleteConversation, Calling, At
  <2> QED  BY <1>0, <1>1, <2>1, Ending, PassKeeps DEF IdsAreGiven
<1> QED  BY <1>2, <1>3

LEMMA RefundedKeeps == ASSUME ConvBase, NEW c \in Callers, Refunded(c)  PROVE ConvBase'
<1>0. TypeOK  BY BaseHas
<1>1. Return(c) /\ Finish(c) /\ UNCHANGED <<rows, file, nextId, replies, born, mishaps, cuts>>
  BY DEF Refunded, ghosts
<1> QED  BY <1>0, <1>1, Ending, ReturnIs, EndKeeps DEF TypeOK

-------------------------------------------------------------------------------
(* file.deleted.                                                               *)

LEMMA ConsumerIs == Consumer \in Callers
BY ConversationsAssumption

\* A step that leaves handlers, calls, conversations and keys alone.
LEMMA StillKeeps ==
  ASSUME ConvBase, UNCHANGED <<handler, call, outcome, rows, nextId, replies, born>>, UsageInv',
         file' = file \/ (file = "present" /\ file' = "announced"),
         mishaps' \in {mishaps, mishaps \union {"lost"}, mishaps \union {"reset"}}, cuts' \in 0..MaxCuts
  PROVE  ConvBase'
<1>0. TypeOK /\ IdsAreGiven /\ SpentKeys /\ StoredIsPaid /\ RefundsAreAlone  BY BaseHas
<1>1. \A c \in Callers : (Roles(c) /\ Calling(c) /\ Fresh(c))'
  <2> TAKE c \in Callers
  <2>1. Roles(c) /\ Calling(c) /\ Fresh(c)  BY BaseHas
  <2>2. Roles(c)'  BY <2>1 DEF Roles
  <2>3. Fresh(c)'  BY <2>1 DEF Fresh, Charging, At
  <2>4. Releasing => Releasing'  BY DEF Releasing
  <2>5. Calling(c)'  BY <2>1, <2>4 DEF Calling, CallIs
  <2> QED  BY <2>2, <2>3, <2>5
<1>2. IdsAreGiven' /\ SpentKeys' /\ RefundsAreAlone'
  BY <1>0 DEF IdsAreGiven, SpentKeys, RefundsAreAlone, At
<1>3. StoredIsPaid'
  <2>1. Paid' = Paid  BY DEF Paid
  <2> QED  BY <1>0, <2>1 DEF StoredIsPaid, At
<1>4. TypeOK'  BY <1>0 DEF TypeOK, UsageInv
<1> QED  BY <1>1, <1>2, <1>3, <1>4 DEF ConvBase

LEMMA DeleteFileKeeps == ASSUME ConvBase, DeleteFile  PROVE ConvBase'
<1>0. TypeOK /\ UsageInv  BY BaseHas
<1>1. file = "present" /\ file' = "announced" /\ UNCHANGED <<usageVars, rows, handler, nextId, replies, born, mishaps, cuts>>
  BY DEF DeleteFile, ghosts
<1> QED  BY <1>0, <1>1, UsageStays, StillKeeps DEF usageVars, TypeOK

LEMMA NewMonthKeeps == ASSUME ConvBase, NewMonth  PROVE ConvBase'
<1>0. TypeOK /\ UsageInv  BY BaseHas
<1>1. UsageInv' /\ UNCHANGED <<outcome, call>>  BY <1>0, UsageInvNext DEF NewMonth, UsageNext, ResetMonthlyQuotas
<1>2. cuts' \in 0..MaxCuts  BY <1>0, ConversationsAssumption DEF NewMonth, TypeOK
<1> QED  BY <1>1, <1>2, StillKeeps DEF NewMonth

\* A turn of the consumer that leaves the conversations alone.
LEMMA ConsumerKeeps ==
  ASSUME ConvBase, handler' \in [Callers -> Handler], OthersStay(Consumer),
         handler'[Consumer].step \in {"count", "release", "purge"}, file = "announced",
         Calling(Consumer)', UsageInv', UNCHANGED <<outcome, rows, file, nextId, replies, born, mishaps, cuts>>
  PROVE  ConvBase'
<1>0. TypeOK /\ IdsAreGiven  BY BaseHas
<1>1. Turns(Consumer)  BY <1>0 DEF Turns, TypeOK
<1>2. TypeOK'  BY <1>0, QuietType DEF TypeOK, IdsAreGiven
<1>3. Roles(Consumer)'  BY DEF Roles
<1> QED  BY <1>0, <1>1, <1>2, <1>3, ConsumerIs, TurnKeeps DEF At, Charging, IdsAreGiven

LEMMA DeliverKeeps == ASSUME ConvBase, Deliver  PROVE ConvBase'
<1>0. TypeOK /\ UsageInv /\ Calling(Consumer)  BY BaseHas, ConsumerIs
<1>1. file = "announced" /\ At(Consumer, "idle") /\ Goto(Consumer, "count")
      /\ UNCHANGED <<usageVars, rows, file, nextId, replies, born, mishaps, cuts>>
  BY DEF Deliver, ghosts
<1>2. /\ handler' \in [Callers -> Handler] /\ handler'[Consumer].step = "count"
      /\ \A d \in Callers \ {Consumer} : handler'[d] = handler[d]
  BY <1>0, <1>1, ConsumerIs, Going DEF Steps
<1>3. UsageInv'  BY <1>0, <1>1, UsageStays
<1>4. Calling(Consumer)'  BY <1>0, <1>1, <1>2 DEF Calling, At, usageVars
<1>5. OthersStay(Consumer)  BY <1>1, <1>2 DEF OthersStay, usageVars
<1> QED  BY <1>1, <1>2, <1>3, <1>4, <1>5, ConsumerKeeps DEF usageVars

LEMMA CountScopedKeeps == ASSUME ConvBase, CountScoped  PROVE ConvBase'
<1>0. TypeOK /\ UsageInv /\ Calling(Consumer) /\ Roles(Consumer)  BY BaseHas, ConsumerIs
<1>1. At(Consumer, "count") /\ UNCHANGED <<rows, file, nextId, replies, born, mishaps, cuts>>
  BY DEF CountScoped, ghosts
<1>2. file = "announced" /\ call[Consumer].step = "idle"  BY <1>0, <1>1 DEF Roles, Calling, At
<1>3. CASE rows = {} /\ Goto(Consumer, "purge") /\ UNCHANGED usageVars
  <2>1. /\ handler' \in [Callers -> Handler] /\ handler'[Consumer].step = "purge"
        /\ \A d \in Callers \ {Consumer} : handler'[d] = handler[d]
    BY <1>0, <1>3, ConsumerIs, Going DEF Steps
  <2>2. UsageInv'  BY <1>0, <1>3, UsageStays
  <2>3. Calling(Consumer)'  BY <1>1, <1>2, <1>3, <2>1 DEF Calling, usageVars
  <2>4. OthersStay(Consumer)  BY <1>3, <2>1 DEF OthersStay, usageVars
  <2> QED  BY <1>1, <1>2, <1>3, <2>1, <2>2, <2>3, <2>4, ConsumerKeeps DEF usageVars
<1>4. CASE rows # {} /\ Goto(Consumer, "release") /\ Begin(Consumer, "release", <<"event", 1>>, Cardinality(rows))
  <2>1. /\ handler' \in [Callers -> Handler] /\ handler'[Consumer].step = "release"
        /\ \A d \in Callers \ {Consumer} : handler'[d] = handler[d]
    BY <1>0, <1>4, ConsumerIs, Going DEF Steps
  <2>2. Cardinality(rows) \in Amounts  BY <1>4, RowsCounted
  <2>3. Begin(Consumer, "release", EventKey, Cardinality(rows)) /\ EventKey \in Keys  BY <1>4, KeysAre DEF EventKey
  <2>4. /\ call'[Consumer].step = "lookup" /\ call'[Consumer].kind = "release" /\ call'[Consumer].key = EventKey
        /\ call'[Consumer].amount = Cardinality(rows)
        /\ \A d \in Callers \ {Consumer} : call'[d] = call[d]
        /\ UNCHANGED <<used, outcome>> /\ UsageInv'
    BY <1>0, <2>2, <2>3, ConsumerIs, Beginning
  <2>5. Calling(Consumer)'  BY <1>1, <2>1, <2>4 DEF Calling, CallIs
  <2>6. OthersStay(Consumer)  BY <2>1, <2>4 DEF OthersStay
  <2> QED  BY <1>1, <1>2, <2>1, <2>4, <2>5, <2>6, ConsumerKeeps
<1> QED  BY <1>3, <1>4 DEF CountScoped

LEMMA ReleasedKeeps == ASSUME ConvBase, Released  PROVE ConvBase'
<1>0. TypeOK /\ UsageInv /\ SpentKeys /\ Calling(Consumer) /\ Roles(Consumer)  BY BaseHas, ConsumerIs
<1>1. At(Consumer, "release") /\ Return(Consumer) /\ UNCHANGED <<rows, file, nextId, replies, born, mishaps, cuts>>
  BY DEF Released, ghosts
<1>2. /\ call'[Consumer].step = "idle" /\ \A d \in Callers \ {Consumer} : call'[d] = call[d]
      /\ UsageInv' /\ UNCHANGED <<used, outcome>>
  BY <1>1, ConsumerIs, ReturnIs
<1>3. CASE Finish(Consumer)
  BY <1>0, <1>1, <1>2, <1>3, ConsumerIs, Ending, EndKeeps DEF TypeOK
<1>4. CASE call[Consumer].step = "answered" /\ Goto(Consumer, "purge")
  <2>1. /\ handler' \in [Callers -> Handler] /\ handler'[Consumer].step = "purge"
        /\ \A d \in Callers \ {Consumer} : handler'[d] = handler[d]
    BY <1>0, <1>4, ConsumerIs, Going DEF Steps
  <2>2. call[Consumer].key = EventKey /\ file = "announced"  BY <1>0, <1>1 DEF Calling, Roles, CallIs, At
  <2>3. outcome[EventKey] = "allowed"
    <3>1. KnowsItsOutcome(Consumer)  BY <1>0, ConsumerIs DEF UsageInv
    <3>2. outcome[EventKey] # "none"  BY <1>4, <2>2, <3>1 DEF KnowsItsOutcome
    <3>3. outcome[EventKey] \in Outcomes  BY <1>0, KeysAre DEF UsageInv, UsageTypeOK
    <3> QED  BY <1>0, <3>2, <3>3 DEF SpentKeys, Outcomes
  <2>4. Calling(Consumer)'  BY <1>1, <1>2, <2>1, <2>2, <2>3 DEF Calling, Releasing
  <2>5. OthersStay(Consumer)  BY <1>2, <2>1 DEF OthersStay
  <2> QED  BY <1>1, <1>2, <2>1, <2>2, <2>4, <2>5, ConsumerKeeps
<1> QED  BY <1>3, <1>4 DEF Released

LEMMA DeleteScopedKeeps == ASSUME ConvBase, DeleteScoped  PROVE ConvBase'
<1>0. TypeOK /\ UsageInv /\ IdsAreGiven /\ Calling(Consumer)  BY BaseHas, ConsumerIs
<1>1. At(Consumer, "purge") /\ Finish(Consumer) /\ rows' = {} /\ file' = "handled"
      /\ UNCHANGED <<usageVars, nextId, replies, born, mishaps, cuts>>
  BY DEF DeleteScoped, ghosts
<1>2. /\ handler' \in [Callers -> Handler] /\ handler'[Consumer].step = "idle"
      /\ \A d \in Callers \ {Consumer} : handler'[d] = handler[d]
  BY <1>0, <1>1, ConsumerIs, Ending
<1>3. UsageInv'  BY <1>0, <1>1, UsageStays
<1>4. Turns(Consumer)  BY <1>0, <1>1, <1>2 DEF Turns, OthersStay, usageVars, TypeOK
<1>5. TypeOK'  BY <1>0, <1>1, <1>2, <1>3, QuietType DEF TypeOK, IdsAreGiven
<1>6. Roles(Consumer)' /\ Calling(Consumer)'  BY <1>0, <1>1, <1>2 DEF Roles, Calling, At, usageVars
<1> QED  BY <1>0, <1>1, <1>2, <1>3, <1>4, <1>5, <1>6, ConsumerIs, TurnKeeps DEF At, Charging, usageVars, IdsAreGiven
-------------------------------------------------------------------------------
(* The calls.                                                                  *)

LEMMA ProceedIs ==
  ASSUME ConvBase, NEW c \in Callers, NEW step \in CallSteps, NEW result \in Outcomes, Proceed(c, step, result)
  PROVE  /\ call'[c].step = step /\ call'[c].result = result
         /\ call'[c].key = call[c].key /\ call'[c].kind = call[c].kind /\ call'[c].amount = call[c].amount
         /\ \A d \in Callers \ {c} : call'[d] = call[d]
<1>1. call \in [Callers -> Call]  BY BaseHas DEF UsageInv, UsageTypeOK
<1>2. call' = [call EXCEPT ![c].step = step, ![c].result = result]  BY DEF Proceed
<1> QED  BY <1>1, <1>2 DEF Call

\* A call moves on and decides nothing.
LEMMA CallMoves ==
  ASSUME ConvBase, NEW c \in Callers, call[c].step # "idle",
         NEW step \in CallSteps \ {"idle"}, NEW result \in Outcomes, Proceed(c, step, result),
         UNCHANGED <<used, outcome, rows, file, handler, nextId, replies, born>>,
         step = "failed" => result = "none" /\ "lost" \in mishaps', UsageInv',
         mishaps' \in {mishaps, mishaps \union {"lost"}}, cuts' \in 0..MaxCuts
  PROVE  ConvBase'
<1>0. TypeOK /\ IdsAreGiven /\ StoredIsPaid /\ RefundsAreAlone /\ Roles(c) /\ Calling(c)  BY BaseHas
<1>1. /\ call'[c].step = step /\ call'[c].result = result
      /\ call'[c].key = call[c].key /\ call'[c].kind = call[c].kind /\ call'[c].amount = call[c].amount
      /\ \A d \in Callers \ {c} : call'[d] = call[d]
  BY ProceedIs
<1>2. Turns(c)  BY <1>0, <1>1 DEF Turns, OthersStay, TypeOK
<1>3. handler' \in [Callers -> Handler]  BY <1>0 DEF TypeOK, Handler
<1>4. TypeOK'  BY <1>0, <1>3, QuietType DEF TypeOK, IdsAreGiven
<1>5. Roles(c)'  BY <1>0 DEF Roles
<1>6. Calling(c)'
  <2>1. handler[c].step \in {"charge", "refund", "rollback", "release"}  BY <1>0 DEF Calling
  <2> QED  BY <1>0, <1>1, <2>1 DEF Calling, CallIs
<1>7. At(c, "refund")' => \A d \in Callers \ {c} : At(d, "refund") => handler[d].id # handler'[c].id
  BY <1>0 DEF RefundsAreAlone, At
<1> QED  BY <1>0, <1>1, <1>2, <1>4, <1>5, <1>6, <1>7, TurnKeeps DEF At, Charging, IdsAreGiven, StoredIsPaid

LEMMA TransactIs ==
  ASSUME ConvBase, NEW c \in Callers, Transact(c), outcome[call[c].key] = "none"
  PROVE  /\ call[c].step = "transact" /\ call[c].key \in Keys /\ call[c].amount \in Nat /\ UsageInv'
         /\ call'[c].step = "committed"
         /\ call'[c].key = call[c].key /\ call'[c].kind = call[c].kind /\ call'[c].amount = call[c].amount
         /\ \A d \in Callers \ {c} : call'[d] = call[d]
         /\ call'[c].result \in {"allowed", "denied"}
         /\ outcome' = [outcome EXCEPT ![call[c].key] = call'[c].result]
         /\ call[c].kind = "release" => call'[c].result = "allowed" /\ used' = Less(call[c].amount)
         /\ call[c].kind = "consume" => \/ call'[c].result = "allowed" /\ used' = used + call[c].amount
                                        \/ call'[c].result = "denied" /\ used' = used
<1> DEFINE done == Work(call[c].kind, call[c].amount)
<1>0. UsageInv  BY BaseHas
<1>1. call[c].step = "transact" /\ call[c].key \in Keys
  BY <1>0 DEF UsageInv, KnowsItsOutcome, Transact
<1>2. call[c] \in Call /\ used \in Nat  BY <1>0 DEF UsageInv, UsageTypeOK
<1>3. call[c].kind \in {"consume", "release"} /\ call[c].amount \in Nat
  <2>1. call[c].kind \in {"consume", "release"} /\ call[c].amount \in Amounts \union {0}  BY <1>2 DEF Call
  <2>2. \A n \in Amounts \union {0} : n \in Nat  BY UsageAssumption
  <2>3. call[c].amount \in Nat  BY <2>1, <2>2, Zenon
  <2> QED  BY <2>1, <2>3
<1>4. done.used \in Nat /\ done.result \in {"allowed", "denied"}  BY <1>2, <1>3, WorkDecides
<1>5. call[c].kind = "release" => done.result = "allowed" /\ done.used = Less(call[c].amount)
  <2>1. call[c].kind = "release" => Work(call[c].kind, call[c].amount) = [used |-> Less(call[c].amount), result |-> "allowed"]
    BY DEF Work
  <2> QED  BY <2>1
<1>6. call[c].kind = "consume" => \/ done.result = "allowed" /\ done.used = used + call[c].amount
                                  \/ done.result = "denied" /\ done.used = used
  <2>1. CASE call[c].kind = "consume" /\ Fits(call[c].amount)
    <3>1. done = [used |-> used + call[c].amount, result |-> "allowed"]  BY <2>1 DEF Work
    <3> QED  BY <3>1
  <2>2. CASE call[c].kind = "consume" /\ ~Fits(call[c].amount)
    <3>1. done = [used |-> used, result |-> "denied"]  BY <2>2 DEF Work
    <3> QED  BY <3>1
  <2> QED  BY <2>1, <2>2
<1> HIDE DEF done
<1>7. used' = done.used /\ outcome' = [outcome EXCEPT ![call[c].key] = done.result] /\ Proceed(c, "committed", done.result)
  BY DEF Transact, done
<1>8. /\ call'[c].step = "committed" /\ call'[c].result = done.result
      /\ call'[c].key = call[c].key /\ call'[c].kind = call[c].kind /\ call'[c].amount = call[c].amount
      /\ \A d \in Callers \ {c} : call'[d] = call[d]
  BY <1>4, <1>7, ProceedIs DEF CallSteps, Outcomes
<1>9. UsageInv'  BY <1>0, TransactKeeps
<1> QED  BY <1>1, <1>3, <1>4, <1>5, <1>6, <1>7, <1>8, <1>9

LEMMA DecideKeeps ==
  ASSUME ConvBase, NEW c \in Callers, Transact(c), outcome[call[c].key] = "none", UNCHANGED chatVars
  PROVE  ConvBase'
<1> DEFINE k == call[c].key
<1>0. TypeOK /\ UsageInv /\ IdsAreGiven /\ SpentKeys /\ StoredIsPaid /\ RefundsAreAlone /\ Roles(c) /\ Calling(c)
  BY BaseHas
<1>1. UNCHANGED <<rows, file, handler, nextId, replies, born, mishaps, cuts>>  BY DEF chatVars
<1>2. /\ call[c].step = "transact" /\ k \in Keys /\ UsageInv'
      /\ call'[c].step = "committed"
      /\ call'[c].key = k /\ call'[c].kind = call[c].kind /\ call'[c].amount = call[c].amount
      /\ \A d \in Callers \ {c} : call'[d] = call[d]
      /\ call'[c].result \in {"allowed", "denied"}
      /\ outcome' = [outcome EXCEPT ![k] = call'[c].result]
      /\ call[c].kind = "release" => call'[c].result = "allowed"
  BY TransactIs
<1>3. outcome \in [Keys -> Outcomes] /\ outcome[k] = "none"  BY <1>0 DEF UsageInv, UsageTypeOK
<1>4. handler[c].step \in {"charge", "refund", "rollback", "release"}  BY <1>0, <1>2 DEF Calling
<1> HIDE DEF k
<1>5. (\A j \in Keys \ {k} : outcome'[j] = outcome[j]) /\ outcome'[k] = call'[c].result
  BY <1>2, <1>3
<1>6. Turns(c)
  <2>1. \A j \in Keys : outcome[j] # "none" => outcome'[j] = outcome[j]  BY <1>3, <1>5
  <2> QED  BY <1>0, <1>1, <1>2, <2>1 DEF Turns, OthersStay, TypeOK
<1>7. \A d \in Callers : Roles(d)' /\ Calling(d)'
  <2>1. nextId \in Nat /\ nextId' \in Nat  BY <1>0, <1>1, ConversationsAssumption DEF TypeOK
  <2>2. ASSUME NEW d \in Callers \ {c}  PROVE Roles(d)' /\ Calling(d)'  BY <1>6, <2>1, OthersKeep
  <2>3. Roles(c)'  BY <1>0, <1>1 DEF Roles
  <2>4. Calling(c)'  BY <1>0, <1>1, <1>2, <1>4 DEF Calling, CallIs, k
  <2> QED  BY <2>2, <2>3, <2>4
<1>8. ASSUME NEW i \in Ids, k = <<"rollback", i>>  PROVE At(c, "rollback") /\ handler[c].id = i /\ i < nextId
  BY <1>0, <1>4, <1>8 DEF Calling, CallIs, Roles, At, k, EventKey
<1>9. ASSUME NEW d \in Callers  PROVE Fresh(d)'
  <2>1. Fresh(d)  BY BaseHas
  <2>2. Charging(d) => handler[d].id \in Ids  BY BaseHas DEF Roles, Charging
  <2>3. Charging(d) => k # <<"rollback", handler[d].id>>
    BY <1>8, <2>1, <2>2 DEF Fresh, Charging, At
  <2>4. Charging(d) => outcome'[<<"rollback", handler[d].id>>] = "none"
    BY <1>5, <2>1, <2>2, <2>3, KeysAre DEF Fresh
  <2> QED  BY <1>1, <2>1, <2>4 DEF Fresh, Charging, At
<1>10. IdsAreGiven' /\ RefundsAreAlone'  BY <1>0, <1>1 DEF IdsAreGiven, RefundsAreAlone, At
<1>11. SpentKeys'
  <2>1. ASSUME NEW i \in Ids, outcome'[<<"delete", i>>] # "none"  PROVE \E x \in born' \ rows' : x[1] = i
    <3>1. CASE k = <<"delete", i>>
      <4>1. At(c, "refund") /\ handler[c].id = i
        BY <1>0, <1>4, <3>1 DEF Calling, CallIs, At, k, EventKey
      <4>2. <<handler[c].id, handler[c].request>> \in born \ rows  BY <1>0, <4>1 DEF Roles, At
      <4> QED  BY <1>1, <4>1, <4>2
    <3>2. CASE k # <<"delete", i>>
      BY <1>0, <1>1, <1>5, <2>1, <3>2, KeysAre DEF SpentKeys
    <3> QED  BY <3>1, <3>2
  <2>2. ASSUME NEW i \in Ids, outcome'[<<"rollback", i>>] # "none"  PROVE i < nextId'
    BY <1>0, <1>1, <1>5, <1>8, <2>2, KeysAre DEF SpentKeys
  <2>3. outcome'[EventKey] # "denied"
    <3>1. CASE k = EventKey
      <4>1. call[c].kind = "release"  BY <1>0, <1>4, <3>1 DEF Calling, CallIs, k, EventKey
      <4> QED  BY <1>2, <1>5, <3>1, <4>1
    <3>2. CASE k # EventKey  BY <1>0, <1>5, <3>2, KeysAre DEF SpentKeys
    <3> QED  BY <3>1, <3>2
  <2> QED  BY <2>1, <2>2, <2>3 DEF SpentKeys
<1>12. StoredIsPaid'
  <2>1. Paid \subseteq Paid' /\ IsFiniteSet(Paid')
    <3>1. IsFiniteSet(Paid)  BY <1>0 DEF StoredIsPaid
    <3>2. \A r \in Requests : <<"create", r>> # k => (r \in Paid' <=> r \in Paid)  BY <1>5, KeysAre DEF Paid
    <3>3. CASE \E r \in Requests : k = <<"create", r>>
      <4>1. PICK r \in Requests : k = <<"create", r>>  BY <3>3
      <4>2. r \notin Paid  BY <1>3, <4>1 DEF Paid
      <4>3. \A q \in Requests : q # r => <<"create", q>> # k  BY <4>1
      <4>4. Paid \subseteq Requests /\ Paid' \subseteq Requests  BY DEF Paid
      <4>5. Paid' = Paid \/ Paid' = Paid \union {r}  BY <3>2, <4>1, <4>2, <4>3, <4>4
      <4> QED  BY <3>1, <4>5, FS_AddElement
    <3>4. CASE ~ \E r \in Requests : k = <<"create", r>>
      <4>1. Paid \subseteq Requests /\ Paid' \subseteq Requests  BY DEF Paid
      <4>2. Paid' = Paid  BY <3>2, <3>4, <4>1
      <4> QED  BY <3>1, <4>2
    <3> QED  BY <3>3, <3>4
  <2> QED  BY <1>0, <1>1, <2>1 DEF StoredIsPaid, At
<1>13. TypeOK'  BY <1>0, <1>1, <1>2 DEF TypeOK, UsageInv
<1> QED  BY <1>2, <1>7, <1>9, <1>10, <1>11, <1>12, <1>13 DEF ConvBase

LEMMA CallStepKeeps == ASSUME ConvBase, NEW c \in Callers, CallStep(c), UNCHANGED chatVars  PROVE ConvBase'
<1>0. TypeOK /\ UsageInv /\ call[c] \in Call  BY BaseHas DEF UsageInv, UsageTypeOK
<1>1. UNCHANGED <<rows, file, handler, nextId, replies, born, mishaps, cuts>> /\ cuts' \in 0..MaxCuts
  BY <1>0 DEF chatVars, TypeOK
<1>2. UsageInv'  BY <1>0, UsageInvNext DEF UsageNext
<1>3. call[c].step # "idle" /\ outcome[call[c].key] \in Outcomes /\ call[c].result \in Outcomes
  <2>1. call[c].step # "idle"  BY DEF CallStep, Lookup, Transact, Reread, Reply
  <2> QED  BY <1>0, <2>1 DEF UsageInv, KnowsItsOutcome, UsageTypeOK, Call
<1>4. CASE Lookup(c)
  BY <1>1, <1>2, <1>3, <1>4, CallMoves DEF Lookup, CallSteps, Outcomes
<1>5. CASE Transact(c) /\ outcome[call[c].key] # "none"
  BY <1>1, <1>2, <1>3, <1>5, CallMoves DEF Transact, CallSteps, Outcomes
<1>6. CASE Transact(c) /\ outcome[call[c].key] = "none"
  BY <1>6, DecideKeeps
<1>7. CASE Reread(c)
  BY <1>1, <1>2, <1>3, <1>7, CallMoves DEF Reread, CallSteps
<1>8. CASE Reply(c)
  BY <1>1, <1>2, <1>3, <1>8, CallMoves DEF Reply, CallSteps
<1> QED  BY <1>4, <1>5, <1>6, <1>7, <1>8 DEF CallStep

LEMMA CallLostKeeps == ASSUME ConvBase, NEW c \in Callers, CallLost(c)  PROVE ConvBase'
<1>0. TypeOK /\ UsageInv  BY BaseHas
<1>1. /\ Lose(c) /\ cuts' \in 0..MaxCuts /\ mishaps' = mishaps \union {"lost"}
      /\ UNCHANGED <<rows, file, handler, nextId, replies, born>>
  BY <1>0, ConversationsAssumption DEF CallLost, TypeOK
<1>2. UsageInv'  BY <1>0, <1>1, UsageInvNext DEF UsageNext
<1> QED  BY <1>1, <1>2, CallMoves DEF Lose, CallSteps, Outcomes

LEMMA CutShortKeeps == ASSUME ConvBase, NEW c \in Callers, CutShort(c)  PROVE ConvBase'
<1>0. TypeOK /\ UsageInv  BY BaseHas
<1>1. /\ Finish(c) /\ call' = [call EXCEPT ![c] = NoCall] /\ cuts' \in 0..MaxCuts /\ mishaps' = mishaps \union {"lost"}
      /\ UNCHANGED <<used, outcome, rows, file, nextId, replies, born>>
  BY <1>0, ConversationsAssumption DEF CutShort, TypeOK
<1> QED  BY <1>0, <1>1, Ending, CallEnds, EndKeeps

LEMMA ConvBaseStep == ConvBase /\ [Next]_vars => ConvBase'
<1> SUFFICES ASSUME ConvBase, [Next]_vars  PROVE ConvBase'
  OBVIOUS
<1>1. ASSUME NEW c \in Callers, NEW r \in Requests, Create(c, r)  PROVE ConvBase'  BY <1>1, CreateKeeps
<1>2. ASSUME NEW c \in Callers, NEW x \in rows, FindConversation(c, x)  PROVE ConvBase'  BY <1>2, FindConversationKeeps
<1>3. ASSUME NEW c \in Callers, CreateStep(c)  PROVE ConvBase'
  BY <1>3, FindByRequestKeeps, AssertScopeExistsKeeps, ChargedKeeps, InsertKeeps, FindWinnerKeeps, InsertFailsKeeps,
     RolledBackKeeps DEF CreateStep
<1>4. ASSUME NEW c \in Callers, DeleteStep(c)  PROVE ConvBase'
  BY <1>4, DeleteConversationKeeps, RefundedKeeps DEF DeleteStep
<1>5. ASSUME NEW c \in Callers, CallStep(c) /\ UNCHANGED chatVars  PROVE ConvBase'  BY <1>5, CallStepKeeps
<1>6. ASSUME NEW c \in Callers, CallLost(c) \/ CutShort(c)  PROVE ConvBase'  BY <1>6, CallLostKeeps, CutShortKeeps
<1>7. CASE DeleteFile \/ EventStep \/ NewMonth
  BY <1>7, DeleteFileKeeps, NewMonthKeeps, DeliverKeeps, CountScopedKeeps, ReleasedKeeps, DeleteScopedKeeps DEF EventStep
<1>8. CASE UNCHANGED vars
  <2>1. UNCHANGED <<handler, call, outcome, rows, nextId, replies, born, file, mishaps, cuts>> /\ UNCHANGED usageVars
    BY <1>8 DEF vars, usageVars, chatVars
  <2> QED  BY <2>1, BaseHas, UsageStays, StillKeeps DEF TypeOK
<1> QED  BY <1>1, <1>2, <1>3, <1>4, <1>5, <1>6, <1>7, <1>8 DEF Next

LEMMA ConvBaseHolds == Spec => []ConvBase
BY ConvBaseInit, ConvBaseStep, PTL DEF Spec

\* Ids and rows stay what the code takes them for, and the counter is never negative.
THEOREM ConversationsTypeCorrect == Spec => []TypeOK
<1>1. ConvBase => TypeOK  BY BaseHas
<1> QED  BY <1>1, ConvBaseHolds, PTL

\* A request id gets one conversation, and its callers are told of that one (CreateConversation).
THEOREM RepliesStored == Spec => []RepliesAreStored
<1>1. ConvBase => RepliesAreStored
  BY BaseHas DEF RepliesAreStored, IdsAreGiven, TypeOK
<1> QED  BY <1>1, ConvBaseHolds, PTL
-------------------------------------------------------------------------------
(* The calls keep their promise inside the handlers that make and abandon them. *)

LEMMA HandlersCall ==
  ASSUME ConvBase, [Next]_vars
  PROVE  [UsageNext]_usageVars \/ \E c \in Callers : CutShort(c)
<1>1. 1 \in Amounts \/ Ids = {}  BY ConversationsAssumption DEF Ids
<1>2. \A c \in Callers : handler[c].step \in {"scope", "insert"} => handler[c].request \in Requests
  BY BaseHas DEF Roles
<1>3. ASSUME NEW c \in Callers, NEW kind \in {"consume", "release"}, NEW k \in Keys, NEW n \in Amounts, Begin(c, kind, k, n)
      PROVE  UsageNext
  BY <1>3 DEF UsageNext
<1>4. ASSUME NEW c \in Callers, Return(c)  PROVE UsageNext
  BY <1>4 DEF UsageNext
<1>5. ASSUME NEW c \in Callers, AssertScopeExists(c)  PROVE [UsageNext]_usageVars
  <2>1. CASE UNCHANGED usageVars  BY <2>1
  <2>2. CASE nextId <= MaxIds /\ Begin(c, "consume", <<"create", handler[c].request>>, 1)
    <3>1. 1 \in Ids
      <4>1. nextId \in 1..MaxIds + 1  BY BaseHas DEF TypeOK
      <4> QED  BY <2>2, <4>1, ConversationsAssumption DEF Ids
    <3>2. <<"create", handler[c].request>> \in Keys  BY <1>2, <1>5, KeysAre DEF AssertScopeExists, At
    <3> QED  BY <1>1, <1>3, <2>2, <3>1, <3>2
  <2> QED  BY <1>5, <2>1, <2>2 DEF AssertScopeExists
<1>6. ASSUME NEW c \in Callers, InsertFails(c)  PROVE UsageNext
  <2>1. handler[c].id \in Ids /\ Begin(c, "release", <<"rollback", handler[c].id>>, 1)
    BY <1>6, BaseHas DEF InsertFails, Roles, At
  <2>2. <<"rollback", handler[c].id>> \in Keys  BY <2>1, KeysAre
  <2> QED  BY <1>1, <1>3, <2>1, <2>2
<1>7. ASSUME NEW c \in Callers, DeleteConversation(c)  PROVE [UsageNext]_usageVars
  <2>1. CASE UNCHANGED usageVars  BY <2>1
  <2>2. CASE Begin(c, "release", <<"delete", handler[c].id>>, 1)
    <3>1. handler[c].id \in Ids
      <4>1. <<handler[c].id, handler[c].request>> \in Ids \X Requests
        BY <1>7, BaseHas DEF DeleteConversation, Roles, TypeOK, At
      <4> QED  BY <4>1
    <3>2. <<"delete", handler[c].id>> \in Keys  BY <3>1, KeysAre
    <3> QED  BY <1>1, <1>3, <2>2, <3>1, <3>2
  <2> QED  BY <1>7, <2>1, <2>2 DEF DeleteConversation
<1>8. CASE CountScoped
  <2>1. CASE UNCHANGED usageVars  BY <2>1
  <2>2. CASE rows # {} /\ Begin(Consumer, "release", EventKey, Cardinality(rows))
    BY <1>3, <2>2, KeysAre, RowsCounted, ConsumerIs
  <2> QED  BY <1>8, <2>1, <2>2 DEF CountScoped, EventKey
<1>9. ASSUME NEW c \in Callers, CreateStep(c)  PROVE [UsageNext]_usageVars
  BY <1>4, <1>5, <1>6, <1>9 DEF CreateStep, FindByRequest, Charged, Insert, FindWinner, RolledBack
<1>10. ASSUME NEW c \in Callers, DeleteStep(c)  PROVE [UsageNext]_usageVars
  BY <1>4, <1>7, <1>10 DEF DeleteStep, Refunded
<1>11. CASE EventStep
  BY <1>4, <1>8, <1>11, ConsumerIs DEF EventStep, Deliver, Released, DeleteScoped
<1>12. ASSUME NEW c \in Callers, CallStep(c) \/ CallLost(c)  PROVE UsageNext
  BY <1>12 DEF UsageNext, CallLost
<1>13. CASE DeleteFile \/ NewMonth
  BY <1>13 DEF DeleteFile, NewMonth, UsageNext
<1>14. ASSUME NEW c \in Callers, NEW r \in Requests, Create(c, r)  PROVE UNCHANGED usageVars
  BY <1>14 DEF Create
<1>15. ASSUME NEW c \in Callers, NEW x \in rows, FindConversation(c, x)  PROVE UNCHANGED usageVars
  BY <1>15 DEF FindConversation
<1>16. CASE UNCHANGED vars  BY <1>16 DEF vars
<1> QED  BY <1>9, <1>10, <1>11, <1>12, <1>13, <1>14, <1>15, <1>16 DEF Next

\* UsageService.idempotent keeps its promise to chat-manager, which may abandon a call at any step.
THEOREM ConversationCallsImplement == Spec => CallsAreIdempotent
<1>1. ConvBase /\ [Next]_vars => [Calls!Next]_<<used, outcome, AskedNow, AnswerNow>>
  <2> SUFFICES ASSUME ConvBase, [Next]_vars  PROVE [Calls!Next]_<<used, outcome, AskedNow, AnswerNow>>
    OBVIOUS
  <2>1. UsageInv  BY BaseHas
  <2>2. CASE [UsageNext]_usageVars  BY <2>1, <2>2, RefinesNext
  <2>3. ASSUME NEW c \in Callers, CutShort(c)  PROVE Calls!Next
    BY <2>1, <2>3, LeaveStep DEF CutShort, NoCall
  <2> QED  BY <2>2, <2>3, HandlersCall
<1>2. ConvBase /\ [Next]_vars =>
        [Calls!Next]_<<used, outcome, [c \in Callers |-> Asked(c)], [c \in Callers |-> Answered(c)]>>
  BY <1>1 DEF AskedNow, AnswerNow
<1>3. Init => Calls!Init  BY RefinesInit DEF Init
<1> QED  BY <1>2, <1>3, ConvBaseInit, ConvBaseStep, PTL DEF Spec, CallsAreIdempotent, Calls!Spec
-------------------------------------------------------------------------------
(* The counter follows the conversations.                                      *)

Excused(kinds) == mishaps \cap kinds # {}

Pending(x) == \E c \in Callers : At(c, "refund") /\ handler[c].id = x[1] /\ call[c].step \in {"lookup", "transact"}

\* The deleted conversations whose charge no call is about to give back, and those the
\* event's release gave back before they are deleted.
GivenBack == {x \in born \ rows : ~Pending(x)}
FromEvent == IF Releasing THEN rows ELSE {}

\* What was charged is in the counter or was given back for a conversation that is gone.
ChargesCover ==
  Excused({"reused", "raced", "reset"}) \/ used + Cardinality(GivenBack) + Cardinality(FromEvent) >= Cardinality(Paid)

Stored(r)     == \E x \in rows : x[2] = r
AwaitsBack(c) == handler[c].step \in {"refund", "rollback"} /\ call[c].step \in {"lookup", "transact"}

\* The requests whose charge is for a conversation, or for one about to be stored, and the
\* releases under way.
Held  == {r \in Paid : IF Stored(r) THEN ~Releasing ELSE \E c \in Callers : Charging(c) /\ handler[c].request = r}
Backs == {k \in Keys : outcome[k] = "none" /\ \E c \in Callers : AwaitsBack(c) /\ call[c].key = k}

\* Whatever is in the counter is for one of these.
ChargesBounded == Excused({"lost", "raced"}) \/ used <= Cardinality(Held) + Cardinality(Backs)

EventIsLate == outcome[EventKey] # "none" => file # "present"

ChargeInv == ConvBase /\ EventIsLate /\ ChargesCover /\ ChargesBounded

SizesTyped ==
  /\ used \in Nat
  /\ IsFiniteSet(rows) /\ IsFiniteSet(born) /\ IsFiniteSet(Paid)
  /\ IsFiniteSet(GivenBack) /\ IsFiniteSet(FromEvent) /\ IsFiniteSet(Held) /\ IsFiniteSet(Backs)
  /\ Cardinality(rows) \in Nat /\ Cardinality(born) \in Nat /\ Cardinality(Paid) \in Nat
  /\ Cardinality(GivenBack) \in Nat /\ Cardinality(FromEvent) \in Nat
  /\ Cardinality(Held) \in Nat /\ Cardinality(Backs) \in Nat

LEMMA SizesNow == ConvBase => SizesTyped
<1> SUFFICES ASSUME ConvBase  PROVE SizesTyped
  OBVIOUS
<1>1. IsFiniteSet(rows) /\ IsFiniteSet(born)  BY RowsCounted
<1>2. IsFiniteSet(Paid)  BY BaseHas DEF StoredIsPaid
<1>3. IsFiniteSet(GivenBack)
  <2>1. GivenBack \in SUBSET born  BY DEF GivenBack
  <2> QED  BY <1>1, <2>1, FS_Subset
<1>4. IsFiniteSet(FromEvent)  BY <1>1, FS_EmptySet DEF FromEvent
<1>5. IsFiniteSet(Held)
  <2>1. Held \in SUBSET Paid  BY DEF Held
  <2> QED  BY <1>2, <2>1, FS_Subset
<1>6. IsFiniteSet(Backs)
  <2>1. IsFiniteSet(Ids)  BY ConversationsAssumption, FS_Interval DEF Ids
  <2>2. IsFiniteSet({"delete", "rollback"})
    <3>1. IsFiniteSet({"delete"} \cup {"rollback"})  BY FS_Singleton, FS_AddElement
    <3>2. {"delete", "rollback"} = {"delete"} \cup {"rollback"}  OBVIOUS
    <3> QED  BY <3>1, <3>2
  <2>3. IsFiniteSet({"delete", "rollback"} \X Ids)  BY <2>1, <2>2, FS_Product
  <2>4. Backs \in SUBSET ({"delete", "rollback"} \X Ids)
    <3>1. ASSUME NEW c \in Callers, AwaitsBack(c)  PROVE call[c].key \in {"delete", "rollback"} \X Ids
      <4>1. Roles(c) /\ Calling(c) /\ TypeOK  BY BaseHas
      <4>2. handler[c].id \in Ids
        <5>1. CASE handler[c].step = "refund"
          <6>1. <<handler[c].id, handler[c].request>> \in Ids \X Requests  BY <4>1, <5>1 DEF Roles, TypeOK
          <6> QED  BY <6>1
        <5>2. CASE handler[c].step = "rollback"  BY <4>1, <5>2 DEF Roles
        <5> QED  BY <3>1, <5>1, <5>2 DEF AwaitsBack
      <4> QED  BY <3>1, <4>1, <4>2 DEF AwaitsBack, Calling, CallIs
    <3> QED  BY <3>1 DEF Backs
  <2> QED  BY <2>3, <2>4, FS_Subset
<1>7. used \in Nat  BY BaseHas DEF UsageInv, UsageTypeOK
<1> QED  BY <1>1, <1>2, <1>3, <1>4, <1>5, <1>6, <1>7, FS_CardinalityType DEF SizesTyped

LEMMA SizesNext == ConvBase' => SizesTyped'
BY SizesNow, PTL

LEMMA ChargeInvInit == Init => ChargeInv
<1> SUFFICES ASSUME Init  PROVE ChargeInv
  OBVIOUS
<1>1. ConvBase  BY ConvBaseInit
<1>2. used = 0 /\ outcome = [k \in Keys |-> "none"] /\ file = "present"  BY DEF Init, UsageInit
<1>3. Paid = {}  BY <1>2, KeysAre DEF Paid
<1>4. ChargesCover  BY <1>1, <1>2, <1>3, SizesNow, FS_EmptySet DEF ChargesCover, SizesTyped
<1>5. ChargesBounded  BY <1>1, <1>2, SizesNow DEF ChargesBounded, SizesTyped
<1>6. EventIsLate  BY <1>2, KeysAre DEF EventIsLate
<1> QED  BY <1>1, <1>4, <1>5, <1>6 DEF ChargeInv

\* A step that takes nothing from either side.
LEMMA CoverStays ==
  ASSUME ConvBase, ConvBase', ChargesCover, mishaps \subseteq mishaps',
         ~Excused({"reused", "raced", "reset"})' =>
           used' = used /\ Paid' = Paid /\ GivenBack \subseteq GivenBack' /\ FromEvent \subseteq FromEvent'
  PROVE  ChargesCover'
<1>1. SizesTyped /\ SizesTyped'  BY SizesNow, SizesNext
<1>2. CASE Excused({"reused", "raced", "reset"})'  BY <1>2 DEF ChargesCover
<1>3. CASE ~Excused({"reused", "raced", "reset"})'
  <2>1. ~Excused({"reused", "raced", "reset"})  BY <1>3 DEF Excused
  <2>2. Cardinality(GivenBack) <= Cardinality(GivenBack')  BY <1>1, <1>3, FS_Subset DEF SizesTyped
  <2>3. Cardinality(FromEvent) <= Cardinality(FromEvent')  BY <1>1, <1>3, FS_Subset DEF SizesTyped
  <2>4. used + Cardinality(GivenBack) + Cardinality(FromEvent) >= Cardinality(Paid)  BY <2>1 DEF ChargesCover
  <2>5. used' + Cardinality(GivenBack') + Cardinality(FromEvent') >= Cardinality(Paid')
    BY <1>1, <1>3, <2>2, <2>3, <2>4 DEF SizesTyped
  <2> QED  BY <2>5 DEF ChargesCover
<1> QED  BY <1>2, <1>3

LEMMA BoundStays ==
  ASSUME ConvBase, ConvBase', ChargesBounded, mishaps \subseteq mishaps',
         ~Excused({"lost", "raced"})' => used' = used /\ Held \subseteq Held' /\ Backs \subseteq Backs'
  PROVE  ChargesBounded'
<1>1. SizesTyped /\ SizesTyped'  BY SizesNow, SizesNext
<1>2. CASE Excused({"lost", "raced"})'  BY <1>2 DEF ChargesBounded
<1>3. CASE ~Excused({"lost", "raced"})'
  <2>1. ~Excused({"lost", "raced"})  BY <1>3 DEF Excused
  <2>2. Cardinality(Held) <= Cardinality(Held')  BY <1>1, <1>3, FS_Subset DEF SizesTyped
  <2>3. Cardinality(Backs) <= Cardinality(Backs')  BY <1>1, <1>3, FS_Subset DEF SizesTyped
  <2>4. used <= Cardinality(Held) + Cardinality(Backs)  BY <2>1 DEF ChargesBounded
  <2>5. used' <= Cardinality(Held') + Cardinality(Backs')
    BY <1>1, <1>3, <2>2, <2>3, <2>4 DEF SizesTyped
  <2> QED  BY <2>5 DEF ChargesBounded
<1> QED  BY <1>2, <1>3
-------------------------------------------------------------------------------
(* The steps that neither charge nor give back, store nor delete.              *)

Passes(c) ==
  /\ OthersStay(c) /\ UNCHANGED <<used, outcome, rows, born>> /\ mishaps \subseteq mishaps'
  /\ file' = file \/ (file = "present" /\ file' = "announced")
  /\ At(c, "refund")' => /\ At(c, "refund") /\ handler'[c].id = handler[c].id
                         /\ call'[c].step \in {"lookup", "transact"} => call[c].step \in {"lookup", "transact"}
  /\ "lost" \notin mishaps' =>
       /\ Charging(c) /\ handler[c].request \in Paid /\ ~Stored(handler[c].request) =>
            Charging(c)' /\ handler'[c].request = handler[c].request
       /\ AwaitsBack(c) /\ outcome[call[c].key] = "none" => AwaitsBack(c)' /\ call'[c].key = call[c].key

LEMMA PassesKeeps ==
  ASSUME ChargeInv, ConvBase', NEW c \in Callers, Passes(c)
  PROVE  ChargeInv'
<1>0. ConvBase /\ EventIsLate /\ ChargesCover /\ ChargesBounded  BY DEF ChargeInv
<1>1. Paid' = Paid /\ UNCHANGED <<used, outcome, rows, born>>  BY DEF Passes, Paid
<1>2. Releasing' = Releasing  BY <1>0, <1>1 DEF Passes, EventIsLate, Releasing
<1>3. GivenBack \subseteq GivenBack'
  <2> SUFFICES ASSUME NEW x \in GivenBack, NEW d \in Callers,
                      At(d, "refund")', handler'[d].id = x[1], call'[d].step \in {"lookup", "transact"}
               PROVE  FALSE
    BY <1>1 DEF GivenBack, Pending
  <2>1. CASE d = c  BY <2>1 DEF GivenBack, Pending, Passes
  <2>2. CASE d # c  BY <2>2 DEF GivenBack, Pending, Passes, OthersStay, At
  <2> QED  BY <2>1, <2>2
<1>4. FromEvent' = FromEvent  BY <1>1, <1>2 DEF FromEvent
<1>5. ChargesCover'  BY <1>0, <1>1, <1>3, <1>4, CoverStays DEF Passes
<1>6. ASSUME "lost" \notin mishaps'  PROVE Held \subseteq Held' /\ Backs \subseteq Backs'
  <2>1. \A r : Stored(r)' <=> Stored(r)  BY <1>1 DEF Stored
  <2>2. ASSUME NEW r \in Held  PROVE r \in Held'
    <3>1. CASE Stored(r)  BY <1>1, <1>2, <2>1, <2>2, <3>1 DEF Held
    <3>2. CASE ~Stored(r)
      <4>1. PICK d \in Callers : Charging(d) /\ handler[d].request = r  BY <2>2, <3>2 DEF Held
      <4>2. r \in Paid  BY <2>2 DEF Held
      <4>3. Charging(d)' /\ handler'[d].request = r
        <5>1. CASE d = c  BY <1>6, <3>2, <4>1, <4>2, <5>1 DEF Passes
        <5>2. CASE d # c  BY <4>1, <5>2 DEF Passes, OthersStay, Charging
        <5> QED  BY <5>1, <5>2
      <4> QED  BY <1>1, <2>1, <3>2, <4>2, <4>3 DEF Held
    <3> QED  BY <3>1, <3>2
  <2>3. ASSUME NEW k \in Backs  PROVE k \in Backs'
    <3>1. PICK d \in Callers : AwaitsBack(d) /\ call[d].key = k  BY DEF Backs
    <3>2. outcome[k] = "none" /\ k \in Keys  BY DEF Backs
    <3>3. AwaitsBack(d)' /\ call'[d].key = k
      <4>1. CASE d = c  BY <1>6, <3>1, <3>2, <4>1 DEF Passes
      <4>2. CASE d # c  BY <3>1, <4>2 DEF Passes, OthersStay, AwaitsBack
      <4> QED  BY <4>1, <4>2
    <3> QED  BY <1>1, <3>2, <3>3 DEF Backs
  <2> QED  BY <2>2, <2>3
<1>7. ~Excused({"lost", "raced"})' => "lost" \notin mishaps'  BY DEF Excused
<1>8. ChargesBounded'  BY <1>0, <1>1, <1>6, <1>7, BoundStays DEF Passes
<1>9. EventIsLate'  BY <1>0, <1>1 DEF EventIsLate, Passes
<1> QED  BY <1>5, <1>8, <1>9 DEF ChargeInv

\* A handler that is not charging and awaits nothing, and does not come to await a refund.
LEMMA IdlePasses ==
  ASSUME NEW c \in Callers, OthersStay(c), UNCHANGED <<used, outcome, rows, born>>, mishaps \subseteq mishaps',
         file' = file \/ (file = "present" /\ file' = "announced"),
         ~Charging(c), handler[c].step \notin {"refund", "rollback"}, ~At(c, "refund")'
  PROVE  Passes(c)
BY DEF Passes, AwaitsBack

LEMMA HandlerPasses ==
  ASSUME ConvBase, NEW c \in Callers
  PROVE  /\ \A r \in Requests : Create(c, r) => Passes(c)
         /\ \A x \in rows : FindConversation(c, x) => Passes(c)
         /\ FindByRequest(c) => Passes(c)
         /\ AssertScopeExists(c) => Passes(c)
         /\ FindWinner(c) => Passes(c)
         /\ DeleteConversation(c) /\ UNCHANGED rows => Passes(c)
<1>0. TypeOK /\ UsageInv /\ handler \in [Callers -> Handler] /\ call \in [Callers -> Call]
  BY BaseHas DEF TypeOK, Handler, UsageInv, UsageTypeOK
<1>1. ASSUME NEW r \in Requests, Create(c, r)  PROVE Passes(c)
  <2>1. [Free EXCEPT !.step = "find", !.request = r].step = "find"  BY DEF Free
  <2>2. /\ ~Charging(c) /\ handler[c].step \notin {"refund", "rollback"} /\ ~At(c, "refund")'
        /\ \A d \in Callers \ {c} : handler'[d] = handler[d]
    BY <1>0, <1>1, <2>1 DEF Create, At, Charging
  <2> QED  BY <1>1, <2>2, IdlePasses DEF Create, OthersStay, usageVars, ghosts
<1>2. ASSUME NEW x \in rows, FindConversation(c, x)  PROVE Passes(c)
  <2>1. /\ ~Charging(c) /\ handler[c].step \notin {"refund", "rollback"} /\ ~At(c, "refund")'
        /\ \A d \in Callers \ {c} : handler'[d] = handler[d]
    BY <1>0, <1>2 DEF FindConversation, At, Charging
  <2> QED  BY <1>2, <2>1, IdlePasses DEF FindConversation, OthersStay, usageVars, ghosts
<1>3. ASSUME FindByRequest(c)  PROVE Passes(c)
  <2>1. /\ ~Charging(c) /\ handler[c].step \notin {"refund", "rollback"} /\ ~At(c, "refund")'
        /\ \A d \in Callers \ {c} : handler'[d] = handler[d]
    BY <1>0, <1>3, Going, Ending DEF FindByRequest, At, Charging, Steps
  <2> QED  BY <1>3, <2>1, IdlePasses DEF FindByRequest, OthersStay, usageVars, ghosts
<1>4. ASSUME AssertScopeExists(c)  PROVE Passes(c)
  <2>1. At(c, "scope") /\ UNCHANGED <<rows, file, replies, born, mishaps, cuts>>  BY <1>4 DEF AssertScopeExists, ghosts
  <2>2. CASE Finish(c) /\ UNCHANGED <<usageVars, nextId>>
    BY <1>0, <2>1, <2>2, Ending, IdlePasses DEF OthersStay, usageVars, At, Charging
  <2>3. CASE /\ handler' = [handler EXCEPT ![c].step = "charge", ![c].id = nextId]
             /\ Begin(c, "consume", <<"create", handler[c].request>>, 1)
    <3>1. handler'[c].step = "charge" /\ \A d \in Callers \ {c} : handler'[d] = handler[d]
      BY <1>0, <2>3 DEF Handler
    <3>2. UNCHANGED <<used, outcome>> /\ \A d \in Callers \ {c} : call'[d] = call[d]
      BY <1>0, <2>3 DEF Begin
    <3> QED  BY <2>1, <3>1, <3>2, IdlePasses DEF OthersStay, At, Charging
  <2> QED  BY <1>4, <2>2, <2>3 DEF AssertScopeExists
<1>5. ASSUME FindWinner(c)  PROVE Passes(c)
  <2>1. /\ ~Charging(c) /\ handler[c].step \notin {"refund", "rollback"} /\ ~At(c, "refund")'
        /\ \A d \in Callers \ {c} : handler'[d] = handler[d]
    BY <1>0, <1>5, Ending DEF FindWinner, At, Charging
  <2> QED  BY <1>5, <2>1, IdlePasses DEF FindWinner, OthersStay, usageVars, ghosts
<1>6. ASSUME DeleteConversation(c), UNCHANGED rows  PROVE Passes(c)
  <2>1. At(c, "erase") /\ UNCHANGED <<file, born>>  BY <1>6 DEF DeleteConversation
  <2>2. <<handler[c].id, handler[c].request>> \notin rows
    <3>1. SUFFICES ASSUME <<handler[c].id, handler[c].request>> \in rows  PROVE FALSE
      OBVIOUS
    <3>2. rows' = rows \ {<<handler[c].id, handler[c].request>>}  BY <1>6, <3>1 DEF DeleteConversation
    <3> QED  BY <1>6, <3>1, <3>2
  <2>3. Finish(c) /\ UNCHANGED <<usageVars, mishaps>>  BY <1>6, <2>2 DEF DeleteConversation
  <2> QED  BY <1>0, <1>6, <2>1, <2>3, Ending, IdlePasses DEF OthersStay, usageVars, At, Charging
<1> QED  BY <1>1, <1>2, <1>3, <1>4, <1>5, <1>6
\* A handler that returns from a call, or a caller that loses its handler and its call.
LEMMA AnswersPass ==
  ASSUME ConvBase, NEW c \in Callers
  PROVE  /\ Charged(c) => Passes(c)
         /\ Insert(c) /\ UNCHANGED rows => Passes(c)
         /\ RolledBack(c) \/ Refunded(c) => Passes(c)
         /\ CutShort(c) => Passes(c)
<1>0. TypeOK /\ UsageInv /\ Roles(c) /\ Calling(c) /\ handler \in [Callers -> Handler] /\ call \in [Callers -> Call]
  BY BaseHas DEF TypeOK, Handler, UsageInv, UsageTypeOK
<1>1. ASSUME Charged(c)  PROVE Passes(c)
  <2>1. At(c, "charge") /\ Return(c) /\ UNCHANGED <<rows, file, nextId, replies, born, mishaps, cuts>>
    BY <1>1 DEF Charged, ghosts
  <2>2. /\ \A d \in Callers \ {c} : call'[d] = call[d]
        /\ UNCHANGED <<used, outcome>> /\ call[c].step \in {"answered", "failed"}
        /\ call[c].result \in Outcomes
        /\ call[c].result # "none" => call[c].step = "answered" /\ call[c].result = outcome[call[c].key]
    BY <2>1, ReturnIs
  <2>3. CASE Goto(c, "insert")
    <3>1. /\ handler'[c].step = "insert" /\ handler'[c].request = handler[c].request
          /\ \A d \in Callers \ {c} : handler'[d] = handler[d]
      BY <1>0, <2>3, Going DEF Steps
    <3> QED  BY <2>1, <2>2, <3>1 DEF Passes, OthersStay, At, Charging, AwaitsBack
  <2>4. CASE call[c].result # "allowed" /\ Finish(c)
    <3>1. handler'[c].step = "idle" /\ \A d \in Callers \ {c} : handler'[d] = handler[d]
      BY <1>0, <2>4, Ending
    <3>2. call[c].key = <<"create", handler[c].request>>  BY <1>0, <2>1 DEF Calling, CallIs, At
    <3>3. handler[c].request \in Paid => outcome[call[c].key] = "allowed"  BY <3>2 DEF Paid
    <3>4. call[c].step = "answered" => call[c].result # "none"
      BY <1>0 DEF UsageInv, KnowsItsOutcome
    <3>5. "lost" \notin mishaps' => handler[c].request \notin Paid
      BY <1>0, <2>1, <2>2, <2>4, <3>3, <3>4 DEF Calling
    <3> QED  BY <2>1, <2>2, <3>1, <3>5 DEF Passes, OthersStay, At, Charging, AwaitsBack
  <2> QED  BY <1>1, <2>3, <2>4 DEF Charged
<1>2. ASSUME Insert(c), UNCHANGED rows  PROVE Passes(c)
  <2> DEFINE new == <<handler[c].id, handler[c].request>>
  <2>1. At(c, "insert") /\ UNCHANGED <<usageVars, file, nextId, cuts>> /\ new[2] = handler[c].request  BY <1>2 DEF Insert
  <2>2. Row(handler[c].request) # {}
    <3>1. SUFFICES ASSUME Row(handler[c].request) = {}  PROVE FALSE
      OBVIOUS
    <3>2. rows' = rows \union {new}  BY <1>2, <2>1, <3>1 DEF Insert
    <3>3. new \in rows /\ new[2] = handler[c].request  BY <1>2, <3>2
    <3> QED  BY <3>1, <3>3 DEF Row
  <2>3. Goto(c, "winner") /\ UNCHANGED <<replies, born, mishaps>>  BY <1>2, <2>1, <2>2 DEF Insert, ghosts
  <2>4. Stored(handler[c].request)  BY <2>2 DEF Row, Stored
  <2>5. handler'[c].step = "winner" /\ \A d \in Callers \ {c} : handler'[d] = handler[d]
    BY <1>0, <2>3, Going DEF Steps
  <2> QED  BY <1>2, <2>1, <2>3, <2>4, <2>5 DEF Passes, OthersStay, At, Charging, AwaitsBack, usageVars
<1>3. ASSUME RolledBack(c) \/ Refunded(c)  PROVE Passes(c)
  <2>1. /\ At(c, "rollback") \/ At(c, "refund")
        /\ Return(c) /\ Finish(c) /\ UNCHANGED <<rows, file, nextId, replies, born, mishaps, cuts>>
    BY <1>3 DEF RolledBack, Refunded, ghosts
  <2>2. /\ \A d \in Callers \ {c} : call'[d] = call[d]
        /\ UNCHANGED <<used, outcome>> /\ call[c].step \in {"answered", "failed"}
    BY <2>1, ReturnIs
  <2>3. handler'[c].step = "idle" /\ \A d \in Callers \ {c} : handler'[d] = handler[d]
    BY <1>0, <2>1, Ending
  <2> QED  BY <2>1, <2>2, <2>3 DEF Passes, OthersStay, At, Charging, AwaitsBack
<1>4. ASSUME CutShort(c)  PROVE Passes(c)
  <2>1. handler'[c].step = "idle" /\ \A d \in Callers \ {c} : handler'[d] = handler[d]
    BY <1>0, <1>4, Ending DEF CutShort
  <2>2. \A d \in Callers \ {c} : call'[d] = call[d]  BY <1>0, <1>4 DEF CutShort
  <2>3. "lost" \in mishaps' /\ mishaps \subseteq mishaps' /\ UNCHANGED <<used, outcome, rows, file, born>>
    BY <1>4 DEF CutShort
  <2> QED  BY <2>1, <2>2, <2>3 DEF Passes, OthersStay, At
<1> QED  BY <1>1, <1>2, <1>3, <1>4

LEMMA EventPasses ==
  ASSUME ConvBase
  PROVE  Deliver \/ CountScoped \/ Released \/ DeleteFile => Passes(Consumer)
<1>0. /\ TypeOK /\ UsageInv /\ Roles(Consumer) /\ Calling(Consumer)
      /\ handler \in [Callers -> Handler] /\ call \in [Callers -> Call]
  BY BaseHas, ConsumerIs DEF TypeOK, Handler, UsageInv, UsageTypeOK
<1>1. ASSUME Deliver  PROVE Passes(Consumer)
  <2>1. handler'[Consumer].step = "count" /\ \A d \in Callers \ {Consumer} : handler'[d] = handler[d]
    BY <1>0, <1>1, ConsumerIs, Going DEF Deliver, Steps
  <2> QED  BY <1>1, <2>1, ConsumerIs, IdlePasses DEF Deliver, OthersStay, At, Charging, usageVars, ghosts
<1>2. ASSUME CountScoped  PROVE Passes(Consumer)
  <2>1. /\ handler'[Consumer].step \in {"release", "purge"}
        /\ \A d \in Callers \ {Consumer} : handler'[d] = handler[d]
    BY <1>0, <1>2, ConsumerIs, Going DEF CountScoped, Steps
  <2>2. UNCHANGED <<used, outcome>> /\ \A d \in Callers \ {Consumer} : call'[d] = call[d]
    BY <1>0, <1>2, ConsumerIs DEF CountScoped, Begin, usageVars
  <2> QED  BY <1>2, <2>1, <2>2, ConsumerIs, IdlePasses DEF CountScoped, OthersStay, At, Charging, ghosts
<1>3. ASSUME Released  PROVE Passes(Consumer)
  <2>1. Return(Consumer)  BY <1>3 DEF Released
  <2>2. UNCHANGED <<used, outcome>> /\ \A d \in Callers \ {Consumer} : call'[d] = call[d]
    BY <2>1, ConsumerIs, ReturnIs
  <2>3. handler'[Consumer].step \in {"idle", "purge"} /\ \A d \in Callers \ {Consumer} : handler'[d] = handler[d]
    BY <1>0, <1>3, ConsumerIs, Going, Ending DEF Released, Steps
  <2> QED  BY <1>3, <2>2, <2>3, ConsumerIs, IdlePasses DEF Released, OthersStay, At, Charging, ghosts
<1>4. ASSUME DeleteFile  PROVE Passes(Consumer)
  <2>1. ~Charging(Consumer) /\ handler[Consumer].step \notin {"refund", "rollback"}
    BY <1>0 DEF Roles, Charging
  <2> QED  BY <1>4, <2>1, ConsumerIs, IdlePasses DEF DeleteFile, OthersStay, At, Charging, usageVars, ghosts
<1> QED  BY <1>1, <1>2, <1>3, <1>4

LEMMA CallPasses ==
  ASSUME ConvBase, NEW c \in Callers
  PROVE  /\ CallStep(c) /\ UNCHANGED chatVars /\ UNCHANGED outcome => Passes(c)
         /\ CallLost(c) => Passes(c)
<1>0. TypeOK /\ UsageInv /\ call[c] \in Call  BY BaseHas DEF UsageInv, UsageTypeOK
<1>1. call[c].step # "idle" => outcome[call[c].key] \in Outcomes /\ call[c].result \in Outcomes /\ call[c].key \in Keys
  BY <1>0 DEF UsageInv, KnowsItsOutcome, UsageTypeOK, Call
\* A call moves on to a step from which it decides only if it was to decide before.
<1>2. ASSUME NEW step \in CallSteps, NEW result \in Outcomes, Proceed(c, step, result),
             UNCHANGED <<used, outcome, rows, file, handler, born>>, mishaps \subseteq mishaps',
             step \in {"lookup", "transact"} => call[c].step \in {"lookup", "transact"},
             \/ "lost" \in mishaps'
             \/ step = "transact"
             \/ call[c].step \notin {"lookup", "transact"}
             \/ outcome[call[c].key] # "none"
      PROVE  Passes(c)
  <2>1. /\ call'[c].step = step /\ call'[c].key = call[c].key
        /\ \A d \in Callers \ {c} : call'[d] = call[d]
    BY <1>2, ProceedIs
  <2>2. OthersStay(c)  BY <1>2, <2>1 DEF OthersStay
  <2>3. At(c, "refund")' => At(c, "refund") /\ handler'[c].id = handler[c].id  BY <1>2 DEF At
  <2>4. Charging(c) => Charging(c)' /\ handler'[c].request = handler[c].request  BY <1>2 DEF Charging
  <2>5. "lost" \notin mishaps' /\ AwaitsBack(c) /\ outcome[call[c].key] = "none" => AwaitsBack(c)'
    BY <1>2, <2>1 DEF AwaitsBack
  <2> QED  BY <1>2, <2>1, <2>2, <2>3, <2>4, <2>5 DEF Passes
<1>3. ASSUME CallStep(c), UNCHANGED chatVars, UNCHANGED outcome  PROVE Passes(c)
  <2>1. UNCHANGED <<rows, file, handler, born, mishaps>>  BY <1>3 DEF chatVars
  <2>2. CASE Lookup(c)
    <3>1. CASE outcome[call[c].key] = "none"
      BY <1>2, <2>1, <2>2, <3>1 DEF Lookup, CallSteps, Outcomes
    <3>2. CASE outcome[call[c].key] # "none"
      BY <1>1, <1>2, <2>1, <2>2, <3>2 DEF Lookup, CallSteps
    <3> QED  BY <3>1, <3>2
  <2>3. CASE Transact(c)
    <3>1. outcome[call[c].key] # "none"
      <4>1. SUFFICES ASSUME outcome[call[c].key] = "none"  PROVE FALSE
        OBVIOUS
      <4>2. /\ call'[c].result \in {"allowed", "denied"} /\ call[c].key \in Keys
            /\ outcome' = [outcome EXCEPT ![call[c].key] = call'[c].result]
        BY <2>3, <4>1, TransactIs
      <4>3. outcome \in [Keys -> Outcomes]  BY <1>0 DEF UsageInv, UsageTypeOK
      <4>4. outcome'[call[c].key] = call'[c].result  BY <4>2, <4>3
      <4> QED  BY <1>3, <4>1, <4>2, <4>4
    <3> QED  BY <1>2, <2>1, <2>3, <3>1 DEF Transact, CallSteps, Outcomes
  <2>4. CASE Reread(c)
    BY <1>1, <1>2, <2>1, <2>4 DEF Reread, CallSteps
  <2>5. CASE Reply(c)
    BY <1>1, <1>2, <2>1, <2>5 DEF Reply, CallSteps
  <2> QED  BY <1>3, <2>2, <2>3, <2>4, <2>5 DEF CallStep
<1>4. ASSUME CallLost(c)  PROVE Passes(c)
  BY <1>2, <1>4 DEF CallLost, Lose, CallSteps, Outcomes
<1> QED  BY <1>3, <1>4
-------------------------------------------------------------------------------
(* The steps that store, delete, charge or give back.                          *)

LEMMA StoreCharges ==
  ASSUME ChargeInv, ConvBase', NEW c \in Callers, At(c, "insert"), OthersStay(c), UNCHANGED <<used, outcome, file>>,
         handler'[c].step \in {"idle", "rollback"},
         rows' = rows \union {<<handler[c].id, handler[c].request>>},
         born' = born \union {<<handler[c].id, handler[c].request>>},
         mishaps \union Racing \subseteq mishaps'
  PROVE  ChargeInv'
<1> DEFINE new == <<handler[c].id, handler[c].request>>
<1>0. ConvBase /\ EventIsLate /\ ChargesCover /\ ChargesBounded  BY DEF ChargeInv
<1>1. new \notin born
  <2>1. Fresh(c)  BY <1>0, BaseHas
  <2> QED  BY <2>1 DEF Fresh, Charging, At
<1>2. "raced" \notin mishaps' => ~Releasing  BY DEF Racing, Purging, Releasing, EventKey
<1>3. Releasing' = Releasing /\ Paid' = Paid /\ mishaps \subseteq mishaps'  BY DEF Releasing, Paid
<1>4. GivenBack \subseteq GivenBack'
  <2> SUFFICES ASSUME NEW x \in GivenBack, NEW d \in Callers,
                      At(d, "refund")', handler'[d].id = x[1], call'[d].step \in {"lookup", "transact"}
               PROVE  FALSE
    BY <1>1 DEF GivenBack, Pending
  <2>1. d # c  BY DEF At
  <2> QED  BY <2>1 DEF GivenBack, Pending, OthersStay, At
<1>5. "raced" \notin mishaps' => FromEvent \subseteq FromEvent'  BY <1>2 DEF FromEvent
<1>6. ChargesCover'
  <2>1. ~Excused({"reused", "raced", "reset"})' => "raced" \notin mishaps'  BY DEF Excused
  <2> QED  BY <1>0, <1>3, <1>4, <1>5, <2>1, CoverStays
<1>7. ASSUME "raced" \notin mishaps', NEW r \in Held  PROVE r \in Held'
  <2>1. CASE Stored(r) \/ r = handler[c].request
    <3>1. Stored(r)'
      <4>1. new \in rows' /\ new[2] = handler[c].request /\ rows \subseteq rows'  OBVIOUS
      <4> QED  BY <2>1, <4>1 DEF Stored
    <3>2. r \in Paid  BY DEF Held
    <3> QED  BY <1>2, <1>3, <1>7, <3>1, <3>2 DEF Held
  <2>2. CASE ~Stored(r) /\ r # handler[c].request
    <3>1. PICK d \in Callers : Charging(d) /\ handler[d].request = r  BY <2>2 DEF Held
    <3>2. d # c  BY <2>2, <3>1
    <3>3. Charging(d)' /\ handler'[d].request = r  BY <3>1, <3>2 DEF OthersStay, Charging
    <3>4. new[2] = handler[c].request  OBVIOUS
    <3>5. ~Stored(r)'  BY <2>2, <3>4 DEF Stored
    <3>6. r \in Paid  BY DEF Held
    <3> QED  BY <1>3, <3>3, <3>5, <3>6 DEF Held
  <2> QED  BY <2>1, <2>2
<1>8. Backs \subseteq Backs'
  <2> SUFFICES ASSUME NEW k \in Backs  PROVE k \in Backs'
    OBVIOUS
  <2>1. PICK d \in Callers : AwaitsBack(d) /\ call[d].key = k  BY DEF Backs
  <2>2. d # c  BY <2>1 DEF AwaitsBack, At
  <2>3. AwaitsBack(d)' /\ call'[d].key = k  BY <2>1, <2>2 DEF OthersStay, AwaitsBack
  <2> QED  BY <2>3 DEF Backs
<1>9. ChargesBounded'
  <2>1. ~Excused({"lost", "raced"})' => "raced" \notin mishaps'  BY DEF Excused
  <2> QED  BY <1>0, <1>3, <1>7, <1>8, <2>1, BoundStays
<1>10. EventIsLate'  BY <1>0 DEF EventIsLate
<1> QED  BY <1>6, <1>9, <1>10 DEF ChargeInv

\* A charge that is held goes to a release that is under way.
LEMMA BacksGrow ==
  ASSUME ConvBase, ConvBase', ChargesBounded, mishaps \subseteq mishaps', UNCHANGED used,
         NEW r, NEW k,
         ~Excused({"lost", "raced"})' => /\ Held \subseteq Held' \union {r}
                                         /\ Backs \union {k} \subseteq Backs' /\ k \notin Backs
  PROVE  ChargesBounded'
<1>1. SizesTyped /\ SizesTyped'  BY SizesNow, SizesNext
<1>2. CASE Excused({"lost", "raced"})'  BY <1>2 DEF ChargesBounded
<1>3. CASE ~Excused({"lost", "raced"})'
  <2>1. ~Excused({"lost", "raced"})  BY <1>3 DEF Excused
  <2>2. /\ IsFiniteSet(Held' \union {r})
        /\ Cardinality(Held' \union {r}) = IF r \in Held' THEN Cardinality(Held') ELSE Cardinality(Held') + 1
    BY <1>1, FS_AddElement DEF SizesTyped
  <2>3. Cardinality(Held) <= Cardinality(Held' \union {r})  BY <1>3, <2>2, FS_Subset
  <2>4. /\ IsFiniteSet(Backs \union {k})
        /\ Cardinality(Backs \union {k}) = Cardinality(Backs) + 1
    BY <1>1, <1>3, FS_AddElement DEF SizesTyped
  <2>5. Cardinality(Backs \union {k}) <= Cardinality(Backs')  BY <1>1, <1>3, FS_Subset DEF SizesTyped
  <2>6. used <= Cardinality(Held) + Cardinality(Backs)  BY <2>1 DEF ChargesBounded
  <2>7. used' <= Cardinality(Held') + Cardinality(Backs')
    BY <1>1, <2>2, <2>3, <2>4, <2>5, <2>6 DEF SizesTyped
  <2> QED  BY <2>7 DEF ChargesBounded
<1> QED  BY <1>2, <1>3

LEMMA InsertCharges == ASSUME ChargeInv, ConvBase', NEW c \in Callers, Insert(c)  PROVE ChargeInv'
<1> DEFINE new == <<handler[c].id, handler[c].request>>
<1>0. ConvBase /\ TypeOK  BY BaseHas DEF ChargeInv
<1>1. At(c, "insert") /\ UNCHANGED <<usageVars, file, nextId, cuts>> /\ new[2] = handler[c].request  BY DEF Insert
<1>2. CASE Row(new[2]) = {}
  <2>1. /\ rows' = rows \union {new} /\ born' = born \union {new} /\ Finish(c)
        /\ mishaps \union Racing \subseteq mishaps'
    BY <1>2 DEF Insert
  <2>2. handler'[c].step = "idle" /\ \A d \in Callers \ {c} : handler'[d] = handler[d]
    BY <1>0, <2>1, Ending
  <2> QED  BY <1>1, <2>1, <2>2, StoreCharges DEF OthersStay, usageVars
<1>3. CASE Row(new[2]) # {}
  <2>1. UNCHANGED rows  BY <1>3 DEF Insert
  <2> QED  BY <1>0, <2>1, AnswersPass, PassesKeeps
<1> QED  BY <1>2, <1>3

LEMMA InsertFailsCharges == ASSUME ChargeInv, ConvBase', NEW c \in Callers, InsertFails(c)  PROVE ChargeInv'
<1> DEFINE new == <<handler[c].id, handler[c].request>>
           k   == <<"rollback", handler[c].id>>
<1>0. /\ ConvBase /\ TypeOK /\ UsageInv /\ EventIsLate /\ ChargesCover /\ ChargesBounded
      /\ Roles(c) /\ Fresh(c)
  BY BaseHas DEF ChargeInv
<1>1. At(c, "insert") /\ UNCHANGED <<file, nextId, replies>> /\ Goto(c, "rollback") /\ Begin(c, "release", k, 1)
      /\ new[2] = handler[c].request /\ "reused" \in mishaps'
  BY DEF InsertFails
<1>2. handler[c].id \in Ids /\ 1 \in Amounts /\ k \in Keys
  <2>1. handler[c].id \in Ids  BY <1>0, <1>1 DEF Roles, At
  <2> QED  BY <2>1, KeysAre, ConversationsAssumption DEF Ids
<1>3. /\ handler'[c].step = "rollback" /\ \A d \in Callers \ {c} : handler'[d] = handler[d]
  BY <1>0, <1>1, Going DEF Steps
<1>4. /\ call'[c].step = "lookup" /\ call'[c].key = k
      /\ \A d \in Callers \ {c} : call'[d] = call[d]
      /\ UNCHANGED <<used, outcome>>
  <2> HIDE DEF k
  <2> QED  BY <1>0, <1>1, <1>2, Beginning
<1>5. OthersStay(c)  BY <1>3, <1>4 DEF OthersStay
<1>6. CASE /\ Row(new[2]) = {} /\ rows' = rows \union {new} /\ born' = born \union {new}
           /\ mishaps' = mishaps \union Racing \union {"reused"}
  BY <1>1, <1>3, <1>4, <1>5, <1>6, StoreCharges
<1>7. CASE mishaps' = mishaps \union {"reused"} /\ UNCHANGED <<rows, born>>
  <2>1. ChargesCover'  BY <1>7 DEF ChargesCover, Excused
  <2>2. EventIsLate'  BY <1>0, <1>1, <1>4 DEF EventIsLate
  <2>3. Held \subseteq Held' \union {handler[c].request}
    <3> SUFFICES ASSUME NEW r \in Held, r # handler[c].request  PROVE r \in Held'
      OBVIOUS
    <3>1. r \in Paid /\ Paid' = Paid /\ Releasing' = Releasing /\ (Stored(r)' <=> Stored(r))
      BY <1>1, <1>4, <1>7 DEF Held, Paid, Releasing, Stored
    <3>2. CASE Stored(r)  BY <3>1, <3>2 DEF Held
    <3>3. CASE ~Stored(r)
      <4>1. PICK d \in Callers : Charging(d) /\ handler[d].request = r  BY <3>3 DEF Held
      <4>2. Charging(d)' /\ handler'[d].request = r  BY <1>3, <4>1 DEF Charging
      <4> QED  BY <3>1, <3>3, <4>2 DEF Held
    <3> QED  BY <3>2, <3>3
  <2>4. k \notin Backs
    <3> SUFFICES ASSUME NEW d \in Callers, AwaitsBack(d), call[d].key = k  PROVE FALSE
      BY DEF Backs
    <3>1. Calling(d)  BY <1>0, BaseHas
    <3>2. At(d, "rollback") /\ handler[d].id = handler[c].id
      BY <3>1 DEF AwaitsBack, Calling, CallIs, At
    <3>3. d # c  BY <1>1, <3>2 DEF At
    <3> QED  BY <1>0, <1>1, <3>2, <3>3 DEF Fresh, Charging, At
  <2>5. Backs \union {k} \subseteq Backs'
    <3>1. k \in Backs'
      <4>1. outcome'[k] = "none"  BY <1>0, <1>1, <1>4 DEF Fresh, Charging, At
      <4> QED  BY <1>2, <1>3, <1>4, <4>1 DEF Backs, AwaitsBack
    <3>2. ASSUME NEW j \in Backs  PROVE j \in Backs'
      <4>1. PICK d \in Callers : AwaitsBack(d) /\ call[d].key = j  BY DEF Backs
      <4>2. d # c  BY <1>1, <4>1 DEF AwaitsBack, At
      <4>3. AwaitsBack(d)' /\ call'[d].key = j  BY <1>5, <4>1, <4>2 DEF OthersStay, AwaitsBack
      <4> QED  BY <1>4, <4>3 DEF Backs
    <3> QED  BY <3>1, <3>2
  <2>6. ChargesBounded'
    <3>1. mishaps \subseteq mishaps'  BY <1>7
    <3> HIDE DEF k
    <3> QED  BY <1>0, <1>4, <2>3, <2>4, <2>5, <3>1, BacksGrow
  <2> QED  BY <2>1, <2>2, <2>6 DEF ChargeInv
<1> QED  BY <1>6, <1>7 DEF InsertFails
LEMMA DeleteCharges == ASSUME ChargeInv, ConvBase', NEW c \in Callers, DeleteConversation(c)  PROVE ChargeInv'
<1> DEFINE x == <<handler[c].id, handler[c].request>>
           k == <<"delete", handler[c].id>>
<1>0. /\ ConvBase /\ TypeOK /\ UsageInv /\ EventIsLate /\ ChargesCover /\ ChargesBounded
      /\ Roles(c) /\ IdsAreGiven /\ SpentKeys
  BY BaseHas DEF ChargeInv
<1>1. At(c, "erase") /\ UNCHANGED <<file, nextId, replies, born, cuts>> /\ x \in born
      /\ x[1] = handler[c].id /\ x[2] = handler[c].request
  BY <1>0 DEF DeleteConversation, Roles, At
<1>2. CASE x \notin rows
  <2>1. UNCHANGED rows  BY <1>2 DEF DeleteConversation
  <2> QED  BY <1>0, <2>1, HandlerPasses, PassesKeeps
<1>3. CASE x \in rows
  <2>1. /\ rows' = rows \ {x} /\ Goto(c, "refund") /\ Begin(c, "release", k, 1)
        /\ mishaps' = mishaps \union Racing
    BY <1>1, <1>3 DEF DeleteConversation
  <2>2. /\ handler'[c].step = "refund" /\ handler'[c].id = handler[c].id
        /\ \A d \in Callers \ {c} : handler'[d] = handler[d]
    BY <1>0, <2>1, Going DEF Steps
  <2>3. handler[c].id \in Ids /\ k \in Keys /\ 1 \in Amounts
    <3>1. x \in Ids \X Requests  BY <1>0, <1>1 DEF TypeOK
    <3>2. handler[c].id \in Ids  BY <3>1
    <3> QED  BY <3>2, KeysAre, ConversationsAssumption DEF Ids
  <2>4. /\ call'[c].step = "lookup" /\ call'[c].key = k
        /\ \A d \in Callers \ {c} : call'[d] = call[d]
        /\ UNCHANGED <<used, outcome>>
    <3> HIDE DEF k
    <3> QED  BY <1>0, <2>1, <2>3, Beginning
  <2>5. OthersStay(c)  BY <2>2, <2>4 DEF OthersStay
  <2>6. "raced" \notin mishaps' => ~Releasing  BY <2>1 DEF Racing, Purging, Releasing, EventKey
  <2>7. Paid' = Paid /\ Releasing' = Releasing /\ mishaps \subseteq mishaps'
    BY <1>1, <2>1, <2>4 DEF Paid, Releasing
  <2>8. \A y \in born : y[1] = handler[c].id => y = x  BY <1>0, <1>1 DEF IdsAreGiven
  <2>9. GivenBack \subseteq GivenBack'
    <3> SUFFICES ASSUME NEW y \in GivenBack, NEW d \in Callers,
                        At(d, "refund")', handler'[d].id = y[1], call'[d].step \in {"lookup", "transact"}
                 PROVE  FALSE
      BY <1>1, <2>1 DEF GivenBack, Pending
    <3>1. y \in born /\ y \notin rows  BY DEF GivenBack
    <3>2. CASE d = c  BY <1>3, <2>2, <2>8, <3>1, <3>2
    <3>3. CASE d # c  BY <2>5, <3>3 DEF GivenBack, Pending, OthersStay, At
    <3> QED  BY <3>2, <3>3
  <2>10. ChargesCover'
    <3>1. ~Excused({"reused", "raced", "reset"})' => FromEvent \subseteq FromEvent'
      BY <2>6, <2>7 DEF FromEvent, Excused
    <3> QED  BY <1>0, <2>4, <2>7, <2>9, <3>1, CoverStays
  <2>11. ASSUME "raced" \notin mishaps'  PROVE Held \subseteq Held' \union {handler[c].request}
    <3> SUFFICES ASSUME NEW r \in Held, r # handler[c].request  PROVE r \in Held'
      OBVIOUS
    <3>1. r \in Paid /\ ~Releasing'  BY <2>6, <2>7, <2>11 DEF Held
    <3>2. Stored(r)' <=> Stored(r)  BY <1>1, <2>1 DEF Stored
    <3>3. CASE Stored(r)  BY <2>7, <3>1, <3>2, <3>3 DEF Held
    <3>4. CASE ~Stored(r)
      <4>1. PICK d \in Callers : Charging(d) /\ handler[d].request = r  BY <3>4 DEF Held
      <4>2. d # c  BY <1>1, <4>1 DEF Charging, At
      <4>3. Charging(d)' /\ handler'[d].request = r  BY <2>2, <4>1, <4>2 DEF Charging
      <4> QED  BY <2>7, <3>1, <3>2, <3>4, <4>3 DEF Held
    <3> QED  BY <3>3, <3>4
  <2>12. k \notin Backs
    <3> SUFFICES ASSUME NEW d \in Callers, AwaitsBack(d), call[d].key = k  PROVE FALSE
      BY DEF Backs
    <3>1. Calling(d) /\ Roles(d)  BY <1>0, BaseHas
    <3>2. At(d, "refund") /\ handler[d].id = handler[c].id
      BY <3>1 DEF AwaitsBack, Calling, CallIs, At
    <3>3. <<handler[d].id, handler[d].request>> \in born \ rows  BY <3>1, <3>2 DEF Roles, At
    <3> QED  BY <1>3, <2>8, <3>2, <3>3
  <2>13. Backs \union {k} \subseteq Backs'
    <3>1. k \in Backs'
      <4>1. outcome[k] = "none"
        <5>1. SUFFICES ASSUME outcome[k] # "none"  PROVE FALSE
          OBVIOUS
        <5>2. \E y \in born \ rows : y[1] = handler[c].id  BY <1>0, <2>3, <5>1 DEF SpentKeys
        <5> QED  BY <1>3, <2>8, <5>2
      <4> QED  BY <2>2, <2>3, <2>4, <4>1 DEF Backs, AwaitsBack
    <3>2. ASSUME NEW j \in Backs  PROVE j \in Backs'
      <4>1. PICK d \in Callers : AwaitsBack(d) /\ call[d].key = j  BY DEF Backs
      <4>2. d # c  BY <1>1, <4>1 DEF AwaitsBack, At
      <4>3. AwaitsBack(d)' /\ call'[d].key = j  BY <2>5, <4>1, <4>2 DEF OthersStay, AwaitsBack
      <4> QED  BY <2>4, <4>3 DEF Backs
    <3> QED  BY <3>1, <3>2
  <2>14. ChargesBounded'
    <3>1. ~Excused({"lost", "raced"})' => "raced" \notin mishaps'  BY DEF Excused
    <3> HIDE DEF k
    <3> QED  BY <1>0, <2>4, <2>7, <2>11, <2>12, <2>13, <3>1, BacksGrow
  <2>15. EventIsLate'  BY <1>0, <1>1, <2>4 DEF EventIsLate
  <2> QED  BY <2>10, <2>14, <2>15 DEF ChargeInv
<1> QED  BY <1>2, <1>3

LEMMA PurgeCharges == ASSUME ChargeInv, ConvBase', DeleteScoped  PROVE ChargeInv'
<1>0. /\ ConvBase /\ TypeOK /\ EventIsLate /\ ChargesCover /\ ChargesBounded
      /\ Calling(Consumer) /\ IdsAreGiven
  BY BaseHas, ConsumerIs DEF ChargeInv
<1>1. At(Consumer, "purge") /\ rows' = {} /\ file' = "handled"
      /\ UNCHANGED <<used, outcome, call, nextId, replies, born, mishaps, cuts>>
  BY DEF DeleteScoped, ghosts, usageVars
<1>2. handler'[Consumer].step = "idle" /\ \A d \in Callers \ {Consumer} : handler'[d] = handler[d]
  BY <1>0, ConsumerIs, Ending DEF DeleteScoped
<1>3. ~Releasing' /\ Paid' = Paid /\ \A r : ~Stored(r)'  BY <1>1 DEF Releasing, Paid, Stored
<1>4. "raced" \notin mishaps => rows = {} \/ Releasing  BY <1>0, <1>1 DEF Calling, At
<1>5. GivenBack \union rows \subseteq GivenBack'
  <2> SUFFICES ASSUME NEW x \in GivenBack \union rows, NEW d \in Callers,
                      At(d, "refund")', handler'[d].id = x[1], call'[d].step \in {"lookup", "transact"}
               PROVE  FALSE
    BY <1>0, <1>1 DEF GivenBack, Pending, IdsAreGiven
  <2>1. d # Consumer  BY <1>2 DEF At
  <2>2. At(d, "refund") /\ handler[d].id = x[1] /\ call[d].step \in {"lookup", "transact"}
    BY <1>1, <1>2, <2>1 DEF At
  <2>3. x \notin GivenBack  BY <2>2 DEF GivenBack, Pending
  <2>4. <<handler[d].id, handler[d].request>> \in born \ rows  BY <1>0, <2>2, BaseHas DEF Roles, At
  <2>5. x \in born /\ \A y \in born : y[1] = x[1] => y = x  BY <1>0, <2>3 DEF IdsAreGiven
  <2> QED  BY <2>2, <2>3, <2>4, <2>5
<1>6. ChargesCover'
  <2>1. SizesTyped /\ SizesTyped'  BY <1>0, SizesNow, SizesNext
  <2>2. CASE Excused({"reused", "raced", "reset"})  BY <1>1, <2>2 DEF ChargesCover, Excused
  <2>3. CASE ~Excused({"reused", "raced", "reset"})
    <3>1. /\ IsFiniteSet(GivenBack \union rows)
          /\ Cardinality(GivenBack \union rows) = Cardinality(GivenBack) + Cardinality(rows) - Cardinality(GivenBack \cap rows)
      BY <2>1, FS_Union DEF SizesTyped
    <3>2. Cardinality(GivenBack \cap rows) = 0
      <4>1. GivenBack \cap rows = {}  BY DEF GivenBack
      <4> QED  BY <4>1, FS_EmptySet
    <3>3. Cardinality(GivenBack \union rows) <= Cardinality(GivenBack')  BY <1>5, <2>1, FS_Subset DEF SizesTyped
    <3>4. Cardinality(GivenBack) + Cardinality(rows) <= Cardinality(GivenBack')
      BY <2>1, <3>1, <3>2, <3>3 DEF SizesTyped
    <3>5. Cardinality(FromEvent) <= Cardinality(rows)
      BY <2>1, FS_EmptySet DEF FromEvent, SizesTyped
    <3>6. used + Cardinality(GivenBack) + Cardinality(FromEvent) >= Cardinality(Paid)  BY <2>3, <1>0 DEF ChargesCover
    <3>7. used' + Cardinality(GivenBack') + Cardinality(FromEvent') >= Cardinality(Paid')
      BY <1>1, <1>3, <2>1, <3>4, <3>5, <3>6 DEF SizesTyped
    <3> QED  BY <3>7 DEF ChargesCover
  <2> QED  BY <2>2, <2>3
<1>7. ASSUME "raced" \notin mishaps, NEW r \in Held  PROVE r \in Held'
  <2>1. ~Stored(r)  BY <1>4, <1>7 DEF Held, Stored
  <2>2. PICK d \in Callers : Charging(d) /\ handler[d].request = r  BY <2>1 DEF Held
  <2>3. d # Consumer  BY <1>1, <2>2 DEF Charging, At
  <2>4. Charging(d)' /\ handler'[d].request = r  BY <1>2, <2>2, <2>3 DEF Charging
  <2>5. r \in Paid  BY DEF Held
  <2> QED  BY <1>3, <2>4, <2>5 DEF Held
<1>8. Backs \subseteq Backs'
  <2> SUFFICES ASSUME NEW k \in Backs  PROVE k \in Backs'
    OBVIOUS
  <2>1. PICK d \in Callers : AwaitsBack(d) /\ call[d].key = k  BY DEF Backs
  <2>2. d # Consumer  BY <1>1, <2>1 DEF AwaitsBack, At
  <2>3. AwaitsBack(d)' /\ call'[d].key = k  BY <1>1, <1>2, <2>1, <2>2 DEF AwaitsBack
  <2> QED  BY <1>1, <2>3 DEF Backs
<1>9. ChargesBounded'
  <2>1. ~Excused({"lost", "raced"})' => "raced" \notin mishaps  BY <1>1 DEF Excused
  <2> QED  BY <1>0, <1>1, <1>7, <1>8, <2>1, BoundStays
<1>10. EventIsLate'  BY <1>1 DEF EventIsLate
<1> QED  BY <1>6, <1>9, <1>10 DEF ChargeInv

LEMMA NewMonthCharges == ASSUME ChargeInv, ConvBase', NewMonth  PROVE ChargeInv'
<1>0. ConvBase /\ EventIsLate  BY DEF ChargeInv
<1>1. used' = 0 /\ "reset" \in mishaps' /\ UNCHANGED <<outcome, file>>  BY DEF NewMonth, ResetMonthlyQuotas
<1>2. ChargesCover'  BY <1>1 DEF ChargesCover, Excused
<1>3. ChargesBounded'  BY <1>0, <1>1, SizesNext DEF ChargesBounded, SizesTyped
<1>4. EventIsLate'  BY <1>0, <1>1 DEF EventIsLate
<1> QED  BY <1>2, <1>3, <1>4 DEF ChargeInv
-------------------------------------------------------------------------------
(* A call decides its key.                                                     *)

\* What a decided key leaves alone: everything but the calls, the key and the counter.
Decides(c) ==
  /\ UNCHANGED <<rows, file, handler, nextId, replies, born, mishaps, cuts>>
  /\ call[c].step = "transact" /\ call[c].key \in Keys /\ outcome[call[c].key] = "none"
  /\ call'[c].step = "committed" /\ \A d \in Callers \ {c} : call'[d] = call[d]
  /\ \A j \in Keys \ {call[c].key} : outcome'[j] = outcome[j]
  /\ outcome'[call[c].key] \in {"allowed", "denied"}
  /\ call[c].kind = "release" => outcome'[call[c].key] = "allowed" /\ used' = Less(call[c].amount)
  /\ call[c].kind = "consume" => \/ outcome'[call[c].key] = "allowed" /\ used' = used + call[c].amount
                                 \/ outcome'[call[c].key] = "denied" /\ used' = used

LEMMA DecidesIs ==
  ASSUME ConvBase, NEW c \in Callers, Transact(c), outcome[call[c].key] = "none", UNCHANGED chatVars
  PROVE  Decides(c)
<1>1. UNCHANGED <<rows, file, handler, nextId, replies, born, mishaps, cuts>>  BY DEF chatVars
<1>2. outcome \in [Keys -> Outcomes]  BY BaseHas DEF UsageInv, UsageTypeOK
<1>3. /\ call[c].step = "transact" /\ call[c].key \in Keys
      /\ call'[c].step = "committed" /\ \A d \in Callers \ {c} : call'[d] = call[d]
      /\ call'[c].result \in {"allowed", "denied"}
      /\ outcome' = [outcome EXCEPT ![call[c].key] = call'[c].result]
      /\ call[c].kind = "release" => call'[c].result = "allowed" /\ used' = Less(call[c].amount)
      /\ call[c].kind = "consume" => \/ call'[c].result = "allowed" /\ used' = used + call[c].amount
                                     \/ call'[c].result = "denied" /\ used' = used
  BY TransactIs
<1>4. outcome'[call[c].key] = call'[c].result /\ \A j \in Keys \ {call[c].key} : outcome'[j] = outcome[j]
  BY <1>2, <1>3
<1> QED  BY <1>1, <1>3, <1>4 DEF Decides

\* Who does not await a refund with this call is pending as before.
LEMMA SameGivenBack ==
  ASSUME NEW c \in Callers, Decides(c), ~At(c, "refund")
  PROVE  GivenBack' = GivenBack
<1> SUFFICES ASSUME NEW x  PROVE Pending(x)' <=> Pending(x)
  BY DEF GivenBack, Decides
<1> QED  BY DEF Pending, Decides, At

LEMMA SameBacks ==
  ASSUME NEW c \in Callers, Decides(c)
  PROVE  Backs' = Backs \ {call[c].key}
<1>1. ASSUME NEW k \in Backs, k # call[c].key  PROVE k \in Backs'
  <2>1. PICK d \in Callers : AwaitsBack(d) /\ call[d].key = k  BY DEF Backs
  <2>2. d # c  BY <1>1, <2>1
  <2>3. AwaitsBack(d)' /\ call'[d].key = k  BY <2>1, <2>2 DEF AwaitsBack, Decides
  <2> QED  BY <1>1, <2>3 DEF Backs, Decides
<1>2. ASSUME NEW k \in Backs'  PROVE k \in Backs /\ k # call[c].key
  <2>1. k # call[c].key  BY DEF Backs, Decides
  <2>2. PICK d \in Callers : AwaitsBack(d)' /\ call'[d].key = k  BY DEF Backs
  <2>3. d # c  BY <2>2 DEF AwaitsBack, Decides
  <2>4. AwaitsBack(d) /\ call[d].key = k  BY <2>2, <2>3 DEF AwaitsBack, Decides
  <2> QED  BY <2>1, <2>4 DEF Backs, Decides
<1> QED  BY <1>1, <1>2

LEMMA ChargeDecides ==
  ASSUME ChargeInv, ConvBase', NEW c \in Callers, Decides(c), At(c, "charge")
  PROVE  ChargeInv'
<1> DEFINE r == handler[c].request
<1>0. ConvBase /\ EventIsLate /\ ChargesCover /\ ChargesBounded /\ Calling(c) /\ Roles(c)  BY BaseHas DEF ChargeInv
<1>1. call[c].kind = "consume" /\ call[c].key = <<"create", r>> /\ call[c].amount = 1 /\ r \in Requests
  BY <1>0 DEF Calling, CallIs, Roles, At
<1> HIDE DEF r
<1>2. SizesTyped /\ SizesTyped'  BY <1>0, SizesNow, SizesNext
<1>3. r \notin Paid  BY <1>1 DEF Paid, Decides
<1>4. Paid' = Paid \union (IF outcome'[<<"create", r>>] = "allowed" THEN {r} ELSE {})
  <2>1. \A q \in Requests : q # r => (q \in Paid' <=> q \in Paid)  BY <1>1, KeysAre DEF Paid, Decides
  <2>2. r \in Paid' <=> outcome'[<<"create", r>>] = "allowed"  BY <1>1 DEF Paid
  <2>3. Paid \subseteq Requests /\ Paid' \subseteq Requests  BY DEF Paid
  <2> QED  BY <1>1, <1>3, <2>1, <2>2, <2>3
<1>5. outcome'[EventKey] = outcome[EventKey] /\ Releasing' = Releasing
  BY <1>1, KeysAre DEF Decides, Releasing, EventKey
<1>6. GivenBack' = GivenBack /\ FromEvent' = FromEvent
  <2>1. ~At(c, "refund")  BY DEF At
  <2> QED  BY <1>5, <2>1, SameGivenBack DEF FromEvent, Decides
<1>7. Backs' = Backs
  <2>1. <<"create", r>> \notin Backs
    <3> SUFFICES ASSUME NEW d \in Callers, AwaitsBack(d), call[d].key = <<"create", r>>  PROVE FALSE
      BY DEF Backs
    <3>1. Calling(d)  BY <1>0, BaseHas
    <3> QED  BY <3>1 DEF Calling, CallIs, AwaitsBack
  <2> QED  BY <1>1, <2>1, SameBacks
<1>8. Held \subseteq Held' /\ (r \in Paid' => r \in Held')
  <2>1. \A q : Stored(q)' <=> Stored(q)  BY DEF Stored, Decides
  <2>2. \A d \in Callers : Charging(d)' <=> Charging(d)  BY DEF Charging, Decides
  <2>3. ~Stored(r)  BY <1>0, <1>3, BaseHas DEF Stored, StoredIsPaid, IdsAreGiven
  <2>4. Paid \subseteq Paid'  BY <1>4
  <2>5. handler' = handler /\ Charging(c) /\ handler[c].request = r  BY DEF Decides, Charging, At, r
  <2> QED  BY <1>5, <2>1, <2>2, <2>3, <2>4, <2>5 DEF Held
<1>9. Cardinality(Held) <= Cardinality(Held')  BY <1>2, <1>8, FS_Subset DEF SizesTyped
<1>10. EventIsLate'  BY <1>0, <1>5 DEF EventIsLate, Decides
<1>11. CASE outcome'[<<"create", r>>] = "allowed" /\ used' = used + 1
  <2>1. Cardinality(Paid') = Cardinality(Paid) + 1
    <3>1. Paid' = Paid \union {r}  BY <1>4, <1>11
    <3> QED  BY <1>2, <1>3, <3>1, FS_AddElement DEF SizesTyped
  <2>2. ChargesCover'
    BY <1>0, <1>2, <1>6, <1>11, <2>1 DEF ChargesCover, SizesTyped, Excused, Decides
  <2>3. Cardinality(Held) + 1 <= Cardinality(Held')
    <3>1. r \notin Held  BY <1>3 DEF Held
    <3>2. r \in Paid'  BY <1>4, <1>11
    <3>3. Held \union {r} \subseteq Held'  BY <1>8, <3>2
    <3>4. IsFiniteSet(Held \union {r}) /\ Cardinality(Held \union {r}) = Cardinality(Held) + 1
      BY <1>2, <3>1, FS_AddElement DEF SizesTyped
    <3>5. Cardinality(Held \union {r}) <= Cardinality(Held')  BY <1>2, <3>3, FS_Subset DEF SizesTyped
    <3> QED  BY <3>4, <3>5
  <2>4. ChargesBounded'
    BY <1>0, <1>2, <1>7, <1>11, <2>3 DEF ChargesBounded, SizesTyped, Excused, Decides
  <2> QED  BY <1>10, <2>2, <2>4 DEF ChargeInv
<1>12. CASE outcome'[<<"create", r>>] = "denied" /\ used' = used
  <2>1. Paid' = Paid  BY <1>4, <1>12
  <2>2. ChargesCover'  BY <1>0, <1>6, <1>12, <2>1 DEF ChargesCover, Excused, Decides
  <2>3. ChargesBounded'
    BY <1>0, <1>2, <1>7, <1>9, <1>12 DEF ChargesBounded, SizesTyped, Excused, Decides
  <2> QED  BY <1>10, <2>2, <2>3 DEF ChargeInv
<1> QED  BY <1>1, <1>11, <1>12 DEF Decides

LEMMA LessIs == ASSUME used \in Nat, NEW n \in Nat  PROVE Less(n) \in Nat /\ Less(n) >= used - n /\ (Less(n) = 0 \/ Less(n) = used - n)
BY DEF Less

LEMMA BackDecides ==
  ASSUME ChargeInv, ConvBase', NEW c \in Callers, Decides(c), At(c, "refund") \/ At(c, "rollback")
  PROVE  ChargeInv'
<1> DEFINE k == call[c].key
           x == <<handler[c].id, handler[c].request>>
<1>0. ConvBase /\ EventIsLate /\ ChargesCover /\ ChargesBounded /\ Calling(c) /\ Roles(c)  BY BaseHas DEF ChargeInv
<1>1. /\ call[c].kind = "release" /\ call[c].amount = 1 /\ k \in {<<"delete", handler[c].id>>, <<"rollback", handler[c].id>>}
      /\ At(c, "rollback") => "reused" \in mishaps
  BY <1>0 DEF Calling, CallIs, At
<1>2. SizesTyped /\ SizesTyped'  BY <1>0, SizesNow, SizesNext
<1>3. used' \in Nat /\ used' >= used - 1 /\ (used' = 0 \/ used' = used - 1)
  BY <1>1, <1>2, LessIs DEF Decides, SizesTyped
<1>4. k \in Backs  BY DEF Backs, AwaitsBack, Decides, At
<1> HIDE DEF k
<1>5. Paid' = Paid
  <2>1. \A r \in Requests : <<"create", r>> \in Keys /\ <<"create", r>> # call[c].key
    BY <1>1, KeysAre, KindsDiffer DEF k
  <2>2. \A r \in Requests : outcome'[<<"create", r>>] = outcome[<<"create", r>>]
    BY <2>1 DEF Decides
  <2> QED  BY <2>2 DEF Paid
<1>6. outcome'[EventKey] = outcome[EventKey] /\ Releasing' = Releasing
  BY <1>1, KeysAre DEF Decides, Releasing, EventKey, k
<1>7. Held' = Held
  <2>1. \A q : Stored(q)' <=> Stored(q)  BY DEF Stored, Decides
  <2>2. \A d \in Callers : (Charging(d)' <=> Charging(d)) /\ handler'[d] = handler[d]  BY DEF Charging, Decides
  <2> QED  BY <1>5, <1>6, <2>1, <2>2 DEF Held
<1>8. Cardinality(Backs') = Cardinality(Backs) - 1
  <2>1. Backs' = Backs \ {k}  BY SameBacks DEF k
  <2> QED  BY <1>2, <1>4, <2>1, FS_RemoveElement DEF SizesTyped
<1>9. ChargesBounded'
  BY <1>0, <1>2, <1>3, <1>7, <1>8 DEF ChargesBounded, SizesTyped, Excused, Decides
<1>10. ChargesCover'
  <2>1. CASE At(c, "rollback")  BY <1>1, <2>1 DEF ChargesCover, Excused, Decides
  <2>2. CASE At(c, "refund")
    <3>1. x \in born /\ x \notin rows /\ x[1] = handler[c].id  BY <1>0, <2>2 DEF Roles, At
    <3>2. x \notin GivenBack  BY <2>2, <3>1 DEF GivenBack, Pending, Decides
    <3>3. GivenBack \union {x} \subseteq GivenBack'
      <4> SUFFICES ASSUME NEW y \in GivenBack \union {x}, NEW d \in Callers,
                          At(d, "refund")', handler'[d].id = y[1], call'[d].step \in {"lookup", "transact"}
                   PROVE  FALSE
        BY <3>1 DEF GivenBack, Pending, Decides
      <4>1. d # c  BY DEF Decides
      <4>2. At(d, "refund") /\ handler[d].id = y[1] /\ call[d].step \in {"lookup", "transact"}
        BY <4>1 DEF Decides, At
      <4>3. y = x  BY <4>2 DEF GivenBack, Pending
      <4>4. RefundsAreAlone  BY <1>0, BaseHas
      <4> QED  BY <2>2, <3>1, <4>1, <4>2, <4>3, <4>4 DEF RefundsAreAlone
    <3> HIDE DEF x
    <3>4. IsFiniteSet(GivenBack \union {x}) /\ Cardinality(GivenBack \union {x}) = Cardinality(GivenBack) + 1
      BY <1>2, <3>2, FS_AddElement DEF SizesTyped
    <3>5. Cardinality(GivenBack \union {x}) <= Cardinality(GivenBack')  BY <1>2, <3>3, FS_Subset DEF SizesTyped
    <3>6. FromEvent' = FromEvent  BY <1>6 DEF FromEvent, Decides
    <3> QED  BY <1>0, <1>2, <1>3, <1>5, <3>4, <3>5, <3>6 DEF ChargesCover, SizesTyped, Excused, Decides
  <2> QED  BY <2>1, <2>2
<1>11. EventIsLate'  BY <1>0, <1>6 DEF EventIsLate, Decides
<1> QED  BY <1>9, <1>10, <1>11 DEF ChargeInv

\* Each conversation has one request: no more requests are stored than conversations.
LEMMA StoredCounted ==
  ASSUME ConvBase, NEW S, S \subseteq {r \in Requests : Stored(r)}
  PROVE  IsFiniteSet(S) /\ Cardinality(S) <= Cardinality(rows) /\ Cardinality(S) \in Nat
<1> DEFINE T == {r \in Requests : Stored(r)}
           f == [x \in rows |-> x[2]]
<1>1. rows \subseteq Ids \X Requests  BY BaseHas DEF TypeOK
<1>2. f \in Surjection(rows, T)
  <2>1. f \in [rows -> T]  BY <1>1, PairsAre DEF Stored
  <2>2. \A r \in T : \E x \in rows : f[x] = r  BY DEF Stored
  <2> QED  BY <2>1, <2>2 DEF Surjection
<1>3. IsFiniteSet(rows) /\ Cardinality(rows) \in Nat  BY SizesNow DEF SizesTyped
<1> HIDE DEF f, T
<1>4. IsFiniteSet(T) /\ Cardinality(T) <= Cardinality(rows)  BY <1>2, <1>3, FS_Surjection
<1>5. S \in SUBSET T  BY DEF T
<1>6. IsFiniteSet(S) /\ Cardinality(S) <= Cardinality(T)  BY <1>4, <1>5, FS_Subset
<1>7. Cardinality(T) \in Nat /\ Cardinality(S) \in Nat  BY <1>4, <1>6, FS_CardinalityType
<1> QED  BY <1>3, <1>4, <1>6, <1>7

LEMMA EventDecides ==
  ASSUME ChargeInv, ConvBase', NEW c \in Callers, Decides(c), At(c, "release")
  PROVE  ChargeInv'
<1>0. ConvBase /\ EventIsLate /\ ChargesCover /\ ChargesBounded /\ Calling(c) /\ Roles(c)  BY BaseHas DEF ChargeInv
<1>1. /\ call[c].kind = "release" /\ call[c].key = EventKey /\ file = "announced"
      /\ "raced" \notin mishaps => call[c].amount = Cardinality(rows)
  BY <1>0 DEF Calling, CallIs, Roles, At
<1>2. SizesTyped /\ SizesTyped'  BY <1>0, SizesNow, SizesNext
<1>3. "raced" \notin mishaps =>
        /\ used' >= used - Cardinality(rows) /\ (used' = 0 \/ used' = used - Cardinality(rows))
  BY <1>1, <1>2, LessIs DEF Decides, SizesTyped
<1>4. Paid' = Paid
  <2>1. \A r \in Requests : <<"create", r>> \in Keys /\ <<"create", r>> # call[c].key
    BY <1>1, KeysAre, KindsDiffer
  <2>2. \A r \in Requests : outcome'[<<"create", r>>] = outcome[<<"create", r>>]
    BY <2>1 DEF Decides
  <2> QED  BY <2>2 DEF Paid
<1>5. ~Releasing /\ Releasing'  BY <1>1 DEF Releasing, Decides
<1>6. FromEvent = {} /\ FromEvent' = rows  BY <1>5 DEF FromEvent, Decides
<1>7. GivenBack' = GivenBack
  <2>1. ~At(c, "refund")  BY DEF At
  <2> QED  BY <2>1, SameGivenBack
<1>8. ChargesCover'
  <2>1. ~Excused({"reused", "raced", "reset"})' => ~Excused({"reused", "raced", "reset"}) /\ "raced" \notin mishaps
    BY DEF Excused, Decides
  <2>2. Cardinality(FromEvent) = 0 /\ Cardinality(FromEvent') = Cardinality(rows)  BY <1>6, FS_EmptySet
  <2> QED  BY <1>0, <1>2, <1>3, <1>4, <1>7, <2>1, <2>2 DEF ChargesCover, SizesTyped
<1>9. Backs' = Backs
  <2>1. EventKey \notin Backs
    <3> SUFFICES ASSUME NEW d \in Callers, AwaitsBack(d), call[d].key = EventKey  PROVE FALSE
      BY DEF Backs
    <3>1. Calling(d)  BY <1>0, BaseHas
    <3> QED  BY <3>1 DEF Calling, CallIs, AwaitsBack, EventKey
  <2> QED  BY <1>1, <2>1, SameBacks
<1>10. Cardinality(Held) <= Cardinality(Held') + Cardinality(rows)
  <2> DEFINE S == {r \in Held : Stored(r)}
  <2>1. Held \subseteq Requests  BY DEF Held, Paid
  <2>2. IsFiniteSet(S) /\ Cardinality(S) <= Cardinality(rows) /\ Cardinality(S) \in Nat
    BY <1>0, <2>1, StoredCounted
  <2>3. Held \subseteq Held' \union S
    <3>1. \A q : Stored(q)' <=> Stored(q)  BY DEF Stored, Decides
    <3>2. \A d \in Callers : (Charging(d)' <=> Charging(d)) /\ handler'[d] = handler[d]  BY DEF Charging, Decides
    <3> QED  BY <1>4, <1>5, <3>1, <3>2 DEF Held
  <2> HIDE DEF S
  <2>4. /\ IsFiniteSet(Held' \union S)
        /\ Cardinality(Held' \union S) = Cardinality(Held') + Cardinality(S) - Cardinality(Held' \cap S)
    BY <1>2, <2>2, FS_Union DEF SizesTyped
  <2>5. Cardinality(Held) <= Cardinality(Held' \union S)  BY <2>3, <2>4, FS_Subset
  <2>6. Cardinality(Held' \cap S) \in Nat  BY <1>2, FS_Intersection, FS_CardinalityType DEF SizesTyped
  <2> QED  BY <1>2, <2>2, <2>4, <2>5, <2>6 DEF SizesTyped
<1>11. ChargesBounded'
  <2>1. ~Excused({"lost", "raced"})' => ~Excused({"lost", "raced"}) /\ "raced" \notin mishaps
    BY DEF Excused, Decides
  <2> QED  BY <1>0, <1>2, <1>3, <1>9, <1>10, <2>1 DEF ChargesBounded, SizesTyped
<1>12. EventIsLate'  BY <1>1 DEF EventIsLate, Decides
<1> QED  BY <1>8, <1>11, <1>12 DEF ChargeInv

LEMMA CallCharges ==
  ASSUME ChargeInv, ConvBase', NEW c \in Callers, CallStep(c), UNCHANGED chatVars
  PROVE  ChargeInv'
<1>0. ConvBase /\ Calling(c)  BY BaseHas DEF ChargeInv
<1>1. CASE UNCHANGED outcome  BY <1>0, <1>1, CallPasses, PassesKeeps
<1>2. CASE Transact(c) /\ outcome[call[c].key] = "none"
  <2>1. Decides(c)  BY <1>0, <1>2, DecidesIs
  <2>2. At(c, "charge") \/ At(c, "refund") \/ At(c, "rollback") \/ At(c, "release")
    BY <1>0, <2>1 DEF Calling, Decides, At
  <2> QED  BY <2>1, <2>2, ChargeDecides, BackDecides, EventDecides
<1> QED  BY <1>1, <1>2 DEF CallStep, Lookup, Transact, Reread, Reply

LEMMA ChargeInvStep == ChargeInv /\ [Next]_vars => ChargeInv'
<1> SUFFICES ASSUME ChargeInv, [Next]_vars  PROVE ChargeInv'
  OBVIOUS
<1>0. ConvBase /\ ConvBase'  BY ConvBaseStep DEF ChargeInv
<1>1. ASSUME NEW c \in Callers, NEW r \in Requests, Create(c, r)  PROVE ChargeInv'
  BY <1>0, <1>1, HandlerPasses, PassesKeeps
<1>2. ASSUME NEW c \in Callers, NEW x \in rows, FindConversation(c, x)  PROVE ChargeInv'
  BY <1>0, <1>2, HandlerPasses, PassesKeeps
<1>3. ASSUME NEW c \in Callers, CreateStep(c)  PROVE ChargeInv'
  <2>1. CASE Insert(c)  BY <1>0, <2>1, InsertCharges
  <2>2. CASE InsertFails(c)  BY <1>0, <2>2, InsertFailsCharges
  <2>3. CASE FindByRequest(c) \/ AssertScopeExists(c) \/ Charged(c) \/ FindWinner(c) \/ RolledBack(c)
    BY <1>0, <2>3, HandlerPasses, AnswersPass, PassesKeeps
  <2> QED  BY <1>3, <2>1, <2>2, <2>3 DEF CreateStep
<1>4. ASSUME NEW c \in Callers, DeleteStep(c)  PROVE ChargeInv'
  BY <1>0, <1>4, DeleteCharges, AnswersPass, PassesKeeps DEF DeleteStep
<1>5. ASSUME NEW c \in Callers, CallStep(c) /\ UNCHANGED chatVars  PROVE ChargeInv'
  BY <1>0, <1>5, CallCharges
<1>6. ASSUME NEW c \in Callers, CallLost(c) \/ CutShort(c)  PROVE ChargeInv'
  BY <1>0, <1>6, CallPasses, AnswersPass, PassesKeeps
<1>7. CASE DeleteFile \/ EventStep \/ NewMonth
  BY <1>0, <1>7, ConsumerIs, EventPasses, PassesKeeps, PurgeCharges, NewMonthCharges DEF EventStep
<1>8. CASE UNCHANGED vars
  <2>1. Passes(Consumer)
    BY <1>8, ConsumerIs DEF vars, usageVars, chatVars, Passes, OthersStay, At, Charging, AwaitsBack
  <2> QED  BY <1>0, <2>1, ConsumerIs, PassesKeeps
<1> QED  BY <1>1, <1>2, <1>3, <1>4, <1>5, <1>6, <1>7, <1>8 DEF Next

LEMMA ChargeInvHolds == Spec => []ChargeInv
BY ChargeInvInit, ChargeInvStep, PTL DEF Spec

\* No conversation is free: the charge of a live one is never given back, by whom ever requests,
\* deletions and the redelivered file.deleted interleave (quota.py, handlers.py).
THEOREM NoConversationIsFree == Spec => []NoFreeConversation
<1>1. ChargeInv => NoFreeConversation
  <2> SUFFICES ASSUME ChargeInv, Quiet, mishaps \cap {"reused", "raced", "reset"} = {}
               PROVE  used >= Cardinality(rows)
    BY DEF NoFreeConversation
  <2>1. ConvBase /\ SizesTyped /\ StoredIsPaid /\ IdsAreGiven /\ TypeOK  BY SizesNow, BaseHas DEF ChargeInv
  <2>2. FromEvent = {}  BY DEF FromEvent, Releasing, Quiet
  <2>3. used + Cardinality(GivenBack) >= Cardinality(Paid)
    BY <2>1, <2>2, FS_EmptySet DEF ChargeInv, ChargesCover, Excused, SizesTyped
  <2>4. Cardinality(born) <= Cardinality(Paid)
    <3> DEFINE f == [x \in born |-> x[2]]
    <3>1. \A x, y \in born : x[2] = y[2] => x = y  BY <2>1 DEF StoredIsPaid
    <3>2. f \in [born -> Paid]  BY <2>1 DEF StoredIsPaid
    <3>3. f \in Injection(born, Paid)  BY <3>1, <3>2 DEF Injection, IsInjective
    <3> QED  BY <2>1, <3>3, FS_Injection DEF SizesTyped
  <2>5. Cardinality(born \ rows) = Cardinality(born) - Cardinality(rows) /\ IsFiniteSet(born \ rows)
    <3>1. born \cap rows = rows  BY <2>1 DEF IdsAreGiven
    <3> QED  BY <2>1, <3>1, FS_Difference DEF SizesTyped
  <2>6. Cardinality(GivenBack) <= Cardinality(born \ rows)
    <3>1. GivenBack \in SUBSET (born \ rows)  BY DEF GivenBack
    <3> QED  BY <2>5, <3>1, FS_Subset
  <2> QED  BY <2>1, <2>3, <2>4, <2>5, <2>6 DEF SizesTyped
<1> QED  BY <1>1, ChargeInvHolds, PTL

\* No charge is left over: what did not become a conversation, or is deleted, is paid back
\* (quota.py, chat_servicer.py).
THEOREM NoChargeIsLost == Spec => []NoLostCharge
<1>1. ChargeInv => NoLostCharge
  <2> SUFFICES ASSUME ChargeInv, Quiet, mishaps \cap {"lost", "raced"} = {}
               PROVE  used <= Cardinality(rows)
    BY DEF NoLostCharge
  <2>1. ConvBase /\ SizesTyped  BY SizesNow DEF ChargeInv
  <2>2. \A c \in Callers : ~Charging(c) /\ ~AwaitsBack(c)  BY DEF Quiet, At, Charging, AwaitsBack
  <2>3. Backs = {}  BY <2>2 DEF Backs
  <2>4. Held \subseteq {r \in Requests : Stored(r)}  BY <2>2 DEF Held, Paid
  <2>5. Cardinality(Held) <= Cardinality(rows)  BY <2>1, <2>4, StoredCounted
  <2>6. used <= Cardinality(Held) + Cardinality(Backs)  BY DEF ChargeInv, ChargesBounded, Excused
  <2> QED  BY <2>1, <2>3, <2>5, <2>6, FS_EmptySet DEF SizesTyped
<1> QED  BY <1>1, ChargeInvHolds, PTL

-------------------------------------------------------------------------------
(* The messages of one conversation.                                            *)

Sending == [step : SendSteps, request : RequestIds, row : Summary, question : Positions \union {Nothing},
            looked : Positions \union {Nothing}, prompt : SUBSET Positions]

\* A reply comes after the question it refers to, and a request has one question.
RepliesFollow ==
  \A i \in 1..Len(messages) : messages[i].role = "assistant" =>
    messages[i].to \in 1..(i - 1) /\ messages[messages[i].to].role = "user"
QuestionsAreUnique == \A r \in RequestIds : \A i, j \in QuestionOf(r) : i = j

\* A summary stands for all messages up to its end, as long as no history was cut off.
Whole(s) == s.covers \subseteq 1..s.until /\ (overflowed \/ 1..s.until \subseteq s.covers)

\* A send that goes on has a question, no reply to it that was there when it looked, and, when
\* the graph is run, everything that was said.
SendOK(s) ==
  LET m == send[s] IN
  /\ Whole(m.row) /\ m.looked <= Len(messages)
  /\ m.step = "ask" => \A i \in QuestionOf(m.request) : i > m.looked
  /\ m.step \in {"reply", "countQuestion", "history", "run", "answer", "countReply"} =>
       m.question \in 1..Len(messages) /\ messages[m.question].role = "user"
  /\ m.step \in {"countQuestion", "history", "run", "answer"} => \A i \in RepliesTo(m.question) : i > m.looked
  /\ m.step = "run" => overflowed \/ 1..m.question \subseteq m.prompt

Counting == {s \in Sends : send[s].step \in {"countQuestion", "countReply"}}
Counted  == Len(messages) = count + uncounted + Cardinality(Counting)

MessagesInv ==
  /\ MessagesTypeOK /\ uncounted <= setbacks
  /\ RepliesFollow /\ QuestionsAreUnique
  /\ Whole(summary) /\ \A s \in Sends : SendOK(s)
  /\ Counted

-------------------------------------------------------------------------------
(* Intervals of positions.                                                      *)

LEMMA IntervalSize == ASSUME NEW a \in Int, NEW b \in Int
                      PROVE  Cardinality(a..b) = (IF a > b THEN 0 ELSE b - a + 1)
BY FS_Interval

\* The newest n of an interval are those less than n from its end.
LEMMA NewestOfInterval ==
  ASSUME NEW a \in Int, NEW b \in Int, NEW n \in Nat
  PROVE  Newest(a..b, n) = {i \in a..b : b - i < n}
<1>1. ASSUME NEW i \in a..b PROVE Cardinality({j \in a..b : j > i}) = b - i
  <2>1. {j \in a..b : j > i} = (i + 1)..b
    OBVIOUS
  <2>2. Cardinality((i + 1)..b) = b - i
    <3>1. i + 1 \in Int /\ i \in Int /\ i <= b
      OBVIOUS
    <3>2. Cardinality((i + 1)..b) = (IF i + 1 > b THEN 0 ELSE b - (i + 1) + 1)
      BY <3>1, IntervalSize
    <3> QED BY <3>1, <3>2
  <2> QED BY <2>1, <2>2
<1> QED BY <1>1 DEF Newest

LEMMA LastOfInterval == ASSUME NEW a \in Int, NEW b \in Int, a <= b PROVE Last(a..b) = b
<1>1. \A i \in a..b : (\A j \in a..b : j <= i) => i = b
  OBVIOUS
<1>2. b \in a..b /\ \A j \in a..b : j <= b
  OBVIOUS
<1> QED BY <1>1, <1>2 DEF Last

LEMMA LastOfOne == ASSUME NEW Q, NEW i \in Q, i \in Int, \A j \in Q : j = i PROVE Last(Q) = i
<1>1. \A j \in Q : j <= i
  OBVIOUS
<1> QED BY <1>1 DEF Last

-------------------------------------------------------------------------------
(* The messages, and what one send changes.                                    *)

LEMMA Settings ==
  /\ IsFiniteSet(Sends) /\ RequestIds # {}
  /\ Keep \in Nat \ {0} /\ Threshold \in Nat /\ HistoryLimit \in Nat
  /\ Keep <= Threshold /\ Threshold < HistoryLimit
  /\ MaxMessages \in Nat /\ MaxSetbacks \in Nat
BY MessagesAssumption DEF MessagesAssumption

LEMMA MessagesTyped ==
  ASSUME messages \in Seq(Message)
  PROVE  /\ Len(messages) \in Nat /\ DOMAIN messages = 1..Len(messages)
         /\ \A i \in 1..Len(messages) : messages[i] \in Message
OBVIOUS

LEMMA MessageRoles ==
  /\ \A e \in Message : e.role = "user" => e.request \in RequestIds
  /\ \A e \in Message : e.role = "assistant" => e.to \in Positions
  /\ \A e \in Message : e.role \in {"user", "assistant"}
BY DEF Message

\* A message that is added is the last one, and the others stay where they are.
LEMMA Appended ==
  ASSUME messages \in Seq(Message), NEW e \in Message, messages' = Append(messages, e)
  PROVE  /\ messages' \in Seq(Message) /\ Len(messages') = Len(messages) + 1
         /\ DOMAIN messages' = 1..(Len(messages) + 1)
         /\ \A i \in 1..Len(messages) : messages'[i] = messages[i]
         /\ messages'[Len(messages) + 1] = e
OBVIOUS

LEMMA RepliesGrow ==
  ASSUME messages \in Seq(Message), NEW e \in Message, messages' = Append(messages, e)
  PROVE  /\ \A q : RepliesTo(q)' \subseteq RepliesTo(q) \union {Len(messages) + 1}
         /\ \A q : e.role = "user" => RepliesTo(q)' = RepliesTo(q)
         /\ \A r : QuestionOf(r)' \subseteq QuestionOf(r) \union {Len(messages) + 1}
         /\ \A r : e.role = "assistant" \/ e.request # r => QuestionOf(r)' = QuestionOf(r)
<1>1. DOMAIN messages = 1..Len(messages) /\ Len(messages) \in Nat
  BY MessagesTyped
<1>2. /\ DOMAIN messages' = 1..(Len(messages) + 1)
      /\ \A i \in 1..Len(messages) : messages'[i] = messages[i]
      /\ messages'[Len(messages) + 1] = e
  BY Appended
<1>3. \A i : i \in 1..(Len(messages) + 1) <=> i \in 1..Len(messages) \/ i = Len(messages) + 1
  BY <1>1
<1>4. \A q : RepliesTo(q)' \subseteq RepliesTo(q) \union {Len(messages) + 1}
  BY <1>1, <1>2, <1>3 DEF RepliesTo
<1>5. \A q : e.role = "user" => RepliesTo(q)' = RepliesTo(q)
  BY <1>1, <1>2, <1>3 DEF RepliesTo
<1>6. \A r : QuestionOf(r)' \subseteq QuestionOf(r) \union {Len(messages) + 1}
  BY <1>1, <1>2, <1>3 DEF QuestionOf
<1>7. \A r : e.role = "assistant" \/ e.request # r => QuestionOf(r)' = QuestionOf(r)
  BY <1>1, <1>2, <1>3 DEF QuestionOf
<1> QED BY <1>4, <1>5, <1>6, <1>7

\* The questions of a request, and the replies to a question, are messages.
LEMMA FoundInMessages ==
  ASSUME messages \in Seq(Message)
  PROVE  /\ \A r : QuestionOf(r) \subseteq 1..Len(messages)
         /\ \A q : RepliesTo(q) \subseteq 1..Len(messages)
BY MessagesTyped DEF QuestionOf, RepliesTo

\* One send goes on as m.
SendTurns(s, m) == send' = [send EXCEPT ![s] = m]

LEMMA OtherSendsStay ==
  ASSUME send \in [Sends -> Sending], NEW s \in Sends, NEW m \in Sending, SendTurns(s, m)
  PROVE  /\ send' \in [Sends -> Sending] /\ send'[s] = m
         /\ \A t \in Sends \ {s} : send'[t] = send[t]
BY DEF SendTurns

Recording == {"countQuestion", "countReply"}

\* How many messages are still to be recorded, when one send turns.
LEMMA CountingTurns ==
  ASSUME send \in [Sends -> Sending], NEW s \in Sends, NEW m \in Sending, SendTurns(s, m)
  PROVE  /\ Cardinality(Counting) \in Nat /\ Cardinality(Counting') \in Nat
         /\ (m.step \in Recording <=> send[s].step \in Recording) => Cardinality(Counting') = Cardinality(Counting)
         /\ (m.step \in Recording /\ send[s].step \notin Recording) =>
              Cardinality(Counting') = Cardinality(Counting) + 1
         /\ (m.step \notin Recording /\ send[s].step \in Recording) =>
              Cardinality(Counting') = Cardinality(Counting) - 1
<1>1. /\ send'[s] = m
      /\ \A t \in Sends \ {s} : send'[t] = send[t]
  BY OtherSendsStay
<1>2. IsFiniteSet(Counting) /\ IsFiniteSet(Counting')
  BY Settings, FS_Subset DEF Counting
<1>3. Cardinality(Counting) \in Nat /\ Cardinality(Counting') \in Nat
  BY <1>2, FS_CardinalityType
<1>4. ASSUME m.step \in Recording <=> send[s].step \in Recording PROVE Counting' = Counting
  BY <1>1, <1>4 DEF Counting, Recording
<1>5. ASSUME m.step \in Recording, send[s].step \notin Recording
      PROVE  Cardinality(Counting') = Cardinality(Counting) + 1
  <2>1. Counting' = Counting \union {s} /\ s \notin Counting
    BY <1>1, <1>5 DEF Counting, Recording
  <2> QED BY <2>1, <1>2, FS_AddElement
<1>6. ASSUME m.step \notin Recording, send[s].step \in Recording
      PROVE  Cardinality(Counting') = Cardinality(Counting) - 1
  <2>1. Counting' = Counting \ {s} /\ s \in Counting
    BY <1>1, <1>6 DEF Counting, Recording
  <2> QED BY <2>1, <1>2, FS_RemoveElement
<1> QED BY <1>3, <1>4, <1>5, <1>6

\* What a send knows holds on, as messages are added and histories overflow.
LEMMA SendKeeps ==
  ASSUME MessagesInv, NEW t \in Sends, send'[t] = send[t],
         overflowed => overflowed', overflowed' \in BOOLEAN,
         \/ messages' = messages
         \/ \E e \in Message : messages' = Append(messages, e)
  PROVE  SendOK(t)'
<1>1. SendOK(t) /\ messages \in Seq(Message) /\ send[t] \in Sending
  BY DEF MessagesInv, MessagesTypeOK, Sending
<1>2. Len(messages) \in Nat /\ \A e \in Message : messages' = Append(messages, e) => Len(messages') = Len(messages) + 1
  BY <1>1, Appended, MessagesTyped
<1>3. send[t].looked \in Nat
  BY <1>1, Settings DEF Sending, Positions, Nothing
<1>4. /\ Len(messages') \in Nat /\ Len(messages) <= Len(messages')
      /\ \A i \in 1..Len(messages) : messages'[i] = messages[i]
      /\ \A q : \A i \in RepliesTo(q)' : i \in RepliesTo(q) \/ i > Len(messages)
      /\ \A r : \A i \in QuestionOf(r)' : i \in QuestionOf(r) \/ i > Len(messages)
  <2>1. CASE messages' = messages
    BY <1>2, <2>1 DEF RepliesTo, QuestionOf
  <2>2. CASE \E e \in Message : messages' = Append(messages, e)
    <3>1. PICK e \in Message : messages' = Append(messages, e)
      BY <2>2
    <3>2. \A i \in 1..Len(messages) : messages'[i] = messages[i]
      BY <1>1, <3>1, Appended
    <3>3. /\ \A q : RepliesTo(q)' \subseteq RepliesTo(q) \union {Len(messages) + 1}
          /\ \A r : QuestionOf(r)' \subseteq QuestionOf(r) \union {Len(messages) + 1}
      BY <1>1, <3>1, RepliesGrow
    <3> QED BY <1>2, <3>1, <3>2, <3>3
  <2> QED BY <2>1, <2>2
<1>5. Whole(send[t].row)' /\ send'[t] = send[t]
  BY <1>1 DEF SendOK, Whole
<1>6. /\ send[t].looked <= Len(messages')
      /\ send[t].step = "ask" => \A i \in QuestionOf(send[t].request)' : i > send[t].looked
      /\ send[t].step \in {"countQuestion", "history", "run", "answer"} =>
           \A i \in RepliesTo(send[t].question)' : i > send[t].looked
  <2>1. send[t].looked <= Len(messages)
    BY <1>1 DEF SendOK
  <2>2. send[t].step = "ask" => \A i \in QuestionOf(send[t].request)' : i > send[t].looked
    <3> SUFFICES ASSUME send[t].step = "ask", NEW i \in QuestionOf(send[t].request)' PROVE i > send[t].looked
      OBVIOUS
    <3>1. i \in QuestionOf(send[t].request) \/ i > Len(messages)
      BY <1>4
    <3>2. i \in QuestionOf(send[t].request) => i > send[t].looked
      BY <1>1 DEF SendOK
    <3>3. i \in Nat
      <4>1. i \in DOMAIN messages'
        BY DEF QuestionOf
      <4>2. messages' \in Seq(Message)
        BY <1>1, Appended
      <4> QED BY <4>1, <4>2
    <3> QED BY <3>1, <3>2, <3>3, <2>1, <1>2, <1>3
  <2>3. send[t].step \in {"countQuestion", "history", "run", "answer"} =>
           \A i \in RepliesTo(send[t].question)' : i > send[t].looked
    <3> SUFFICES ASSUME send[t].step \in {"countQuestion", "history", "run", "answer"},
                        NEW i \in RepliesTo(send[t].question)'
                 PROVE  i > send[t].looked
      OBVIOUS
    <3>1. i \in RepliesTo(send[t].question) \/ i > Len(messages)
      BY <1>4
    <3>2. i \in RepliesTo(send[t].question) => i > send[t].looked
      BY <1>1 DEF SendOK
    <3>3. i \in Nat
      <4>1. i \in DOMAIN messages'
        BY DEF RepliesTo
      <4>2. messages' \in Seq(Message)
        BY <1>1, Appended
      <4> QED BY <4>1, <4>2
    <3> QED BY <3>1, <3>2, <3>3, <2>1, <1>2, <1>3
  <2> QED BY <2>1, <2>2, <2>3, <1>2, <1>3, <1>4
<1>7. send[t].step \in {"reply", "countQuestion", "history", "run", "answer", "countReply"} =>
        send[t].question \in 1..Len(messages') /\ messages'[send[t].question].role = "user"
  <2> SUFFICES ASSUME send[t].step \in {"reply", "countQuestion", "history", "run", "answer", "countReply"}
               PROVE  send[t].question \in 1..Len(messages') /\ messages'[send[t].question].role = "user"
    OBVIOUS
  <2>1. send[t].question \in 1..Len(messages) /\ messages[send[t].question].role = "user"
    BY <1>1 DEF SendOK
  <2> QED BY <2>1, <1>2, <1>4
<1>8. send[t].step = "run" => overflowed' \/ 1..send[t].question \subseteq send[t].prompt
  BY <1>1 DEF SendOK
<1> QED BY <1>5, <1>6, <1>7, <1>8 DEF SendOK

\* The messages stay as they are, or a fitting one is added.
Says(e) ==
  /\ messages' = Append(messages, e) /\ Len(messages) < MaxMessages
  /\ e \in Message
  /\ e.role = "user" => QuestionOf(e.request) = {}
  /\ e.role = "assistant" => e.to \in 1..Len(messages) /\ messages[e.to].role = "user"

TalkOK == /\ messages \in Seq(Message) /\ Len(messages) <= MaxMessages
          /\ RepliesFollow /\ QuestionsAreUnique

LEMMA TalkStays == ASSUME TalkOK, messages' = messages PROVE TalkOK'
BY DEF TalkOK, RepliesFollow, QuestionsAreUnique, QuestionOf

LEMMA TalkGrows == ASSUME TalkOK, NEW e, Says(e) PROVE TalkOK'
<1>1. messages \in Seq(Message) /\ Len(messages) \in Nat /\ e \in Message /\ DOMAIN messages = 1..Len(messages)
  BY MessagesTyped DEF TalkOK, Says
<1>2. /\ messages' \in Seq(Message) /\ Len(messages') = Len(messages) + 1
      /\ \A i \in 1..Len(messages) : messages'[i] = messages[i]
      /\ messages'[Len(messages) + 1] = e
  BY <1>1, Appended DEF Says
<1>3. Len(messages') <= MaxMessages
  BY <1>1, <1>2, Settings DEF Says
<1>4. RepliesFollow'
  <2> SUFFICES ASSUME NEW i \in 1..Len(messages'), messages'[i].role = "assistant"
               PROVE  messages'[i].to \in 1..(i - 1) /\ messages'[messages'[i].to].role = "user"
    BY DEF RepliesFollow
  <2>1. CASE i \in 1..Len(messages)
    <3>1. messages[i].to \in 1..(i - 1) /\ messages[messages[i].to].role = "user"
      BY <2>1, <1>2 DEF TalkOK, RepliesFollow
    <3>2. messages[i].to \in 1..Len(messages)
      BY <3>1, <2>1, <1>1
    <3> QED BY <3>1, <3>2, <2>1, <1>2
  <2>2. CASE i = Len(messages) + 1
    <3>1. e.to \in 1..Len(messages) /\ messages[e.to].role = "user"
      BY <2>2, <1>2 DEF Says
    <3>2. e.to \in 1..(i - 1)
      BY <3>1, <2>2, <1>1
    <3> QED BY <3>1, <3>2, <2>2, <1>2
  <2> QED BY <2>1, <2>2, <1>1, <1>2
<1>5. QuestionsAreUnique'
  <2> SUFFICES ASSUME NEW r \in RequestIds, NEW i \in QuestionOf(r)', NEW j \in QuestionOf(r)' PROVE i = j
    BY DEF QuestionsAreUnique
  <2>1. CASE e.role = "user" /\ e.request = r
    <3>1. QuestionOf(r) = {}
      BY <2>1 DEF Says
    <3>2. QuestionOf(r)' \subseteq QuestionOf(r) \union {Len(messages) + 1}
      BY <1>1, RepliesGrow DEF Says
    <3> QED BY <3>1, <3>2
  <2>2. CASE ~(e.role = "user" /\ e.request = r)
    <3>1. e.role = "assistant" \/ e.request # r
      BY <2>2, <1>1, MessageRoles
    <3>2. QuestionOf(r)' = QuestionOf(r)
      BY <3>1, <1>1, RepliesGrow DEF Says
    <3> QED BY <3>2 DEF TalkOK, QuestionsAreUnique
  <2> QED BY <2>1, <2>2
<1> QED BY <1>2, <1>3, <1>4, <1>5 DEF TalkOK

LEMMA StepKeeps ==
  ASSUME MessagesInv, NEW s \in Sends, NEW m \in Sending, SendTurns(s, m),
         messages' = messages \/ \E e : Says(e),
         overflowed' \in BOOLEAN, overflowed => overflowed',
         SendOK(s)', summary' \in Summary, Whole(summary)',
         setbacks' \in 0..MaxSetbacks, uncounted' \in Nat, uncounted' <= setbacks', count' \in Nat, Counted'
  PROVE  MessagesInv'
<1>1. TalkOK /\ send \in [Sends -> Sending]
  BY DEF MessagesInv, MessagesTypeOK, TalkOK, Sending
<1>2. TalkOK'
  BY <1>1, TalkStays, TalkGrows
<1>3. send' \in [Sends -> Sending] /\ \A t \in Sends \ {s} : send'[t] = send[t]
  BY <1>1, OtherSendsStay
<1>4. messages' = messages \/ \E e \in Message : messages' = Append(messages, e)
  BY DEF Says
<1>5. \A t \in Sends : SendOK(t)'
  <2> SUFFICES ASSUME NEW t \in Sends, t # s PROVE SendOK(t)'
    OBVIOUS
  <2>1. send'[t] = send[t]
    BY <1>3
  <2> QED BY <2>1, <1>4, SendKeeps
<1>6. MessagesTypeOK'
  <2>1. \A i \in DOMAIN messages' : messages'[i].role = "assistant" => messages'[messages'[i].to].role = "user"
    <3>1. DOMAIN messages' = 1..Len(messages')
      BY <1>2 DEF TalkOK
    <3> QED BY <3>1, <1>2 DEF TalkOK, RepliesFollow
  <2>2. uncounted' \in 0..MaxSetbacks
    BY Settings
  <2>3. summary'.covers \subseteq 1..summary'.until
    BY DEF Whole
  <2> QED BY <2>1, <2>2, <2>3, <1>2, <1>3 DEF MessagesTypeOK, TalkOK, Sending
<1> QED BY <1>2, <1>5, <1>6 DEF MessagesInv, TalkOK

\* What an action finds.
LEMMA Found ==
  ASSUME MessagesInv, NEW s \in Sends
  PROVE  /\ messages \in Seq(Message) /\ Len(messages) \in 0..MaxMessages
         /\ DOMAIN messages = 1..Len(messages)
         /\ send \in [Sends -> Sending] /\ send[s] \in Sending
         /\ summary \in Summary /\ Whole(summary) /\ Whole(send[s].row) /\ SendOK(s)
         /\ overflowed \in BOOLEAN /\ count \in Nat
         /\ setbacks \in 0..MaxSetbacks /\ uncounted \in Nat /\ uncounted <= setbacks /\ Counted
         /\ Cardinality(Counting) \in Nat
<1>1. messages \in Seq(Message) /\ Len(messages) <= MaxMessages /\ send \in [Sends -> Sending]
  BY DEF MessagesInv, MessagesTypeOK, Sending
<1>2. Cardinality(Counting) \in Nat
  BY Settings, FS_Subset, FS_CardinalityType DEF Counting
<1>3. SendOK(s) /\ Whole(send[s].row)
  BY DEF MessagesInv, SendOK
<1>4. Len(messages) \in 0..MaxMessages /\ DOMAIN messages = 1..Len(messages)
  BY <1>1, Settings, MessagesTyped
<1>5. uncounted \in Nat /\ setbacks \in 0..MaxSetbacks /\ summary \in Summary /\ overflowed \in BOOLEAN /\ count \in Nat
  BY Settings DEF MessagesInv, MessagesTypeOK
<1> QED BY <1>1, <1>2, <1>3, <1>4, <1>5 DEF MessagesInv

LEMMA IdleTyped == Idle \in Sending /\ Idle.step = "idle" /\ Unsummed \in Summary
<1>1. (CHOOSE r \in RequestIds : TRUE) \in RequestIds
  BY Settings
<1>2. Unsummed \in Summary
  BY DEF Unsummed, Summary
<1> QED BY <1>1, <1>2 DEF Idle, Sending, SendSteps

LEMMA UnsummedWhole == Whole(Unsummed)
BY DEF Whole, Unsummed, Nothing

\* A send that is done knows nothing.
LEMMA IdleOK == ASSUME NEW s \in Sends, Len(messages') \in Nat, send'[s] = Idle PROVE SendOK(s)'
<1>1. Idle.step = "idle" /\ Idle.row = Unsummed /\ Idle.looked = 0
  BY DEF Idle, Nothing
<1>2. Whole(Unsummed)'
  BY UnsummedWhole, PTL
<1> QED BY <1>1, <1>2 DEF SendOK

LEMMA SendMessageKeeps == ASSUME MessagesInv, NEW s \in Sends, NEW r \in RequestIds, SendMessage(s, r) PROVE MessagesInv'
<1> DEFINE m == [Idle EXCEPT !.step = "find", !.request = r, !.row = summary]
<1>1. /\ SendTurns(s, m) /\ send[s].step = "idle"
      /\ UNCHANGED <<messages, summary, count, setbacks, uncounted, overflowed>>
  BY DEF SendMessage, SendTurns, InStep
<1>2. m \in Sending /\ m.step = "find" /\ m.row = summary /\ m.looked = 0
  <2>1. Idle \in Sending /\ Idle.looked = 0
    BY IdleTyped DEF Idle, Nothing
  <2>2. summary \in Summary /\ "find" \in SendSteps
    BY Found DEF SendSteps
  <2> QED BY <2>1, <2>2 DEF Sending
<1> HIDE DEF m
<1>3. send \in [Sends -> Sending]
  BY Found
<1>4. send'[s] = m
  BY <1>1, <1>2, <1>3, OtherSendsStay
<1>5. Whole(summary)'
  BY <1>1, Found DEF Whole
<1>6. SendOK(s)'
  <2>1. Len(messages') \in Nat
    BY <1>1, Found
  <2>2. send'[s].row = summary /\ send'[s].step = "find" /\ send'[s].looked = 0
    BY <1>2, <1>4
  <2>3. Whole(send[s].row)'
    BY <2>2, <1>1, <1>5 DEF Whole
  <2> QED BY <2>1, <2>2, <2>3 DEF SendOK
<1>7. Counted'
  <2>1. Cardinality(Counting') = Cardinality(Counting)
    BY <1>1, <1>2, <1>3, CountingTurns DEF Recording
  <2> QED BY <2>1, <1>1, Found DEF Counted
<1> QED BY <1>1, <1>2, <1>5, <1>6, <1>7, Found, StepKeeps

LEMMA PlacesOrNone == Positions \union {Nothing} = 0..MaxMessages
BY Settings DEF Positions, Nothing

\* A send goes on: what it keeps, and what is new.
LooksAt(m, step, n) == [m EXCEPT !.step = step, !.looked = n]
Asks(m, step, n)    == [m EXCEPT !.step = step, !.question = n]
Reads(m, step, p)   == [m EXCEPT !.step = step, !.prompt = p]
Goes(m, step)       == [m EXCEPT !.step = step]

Alike(x, m, step) == x \in Sending /\ x.step = step /\ x.row = m.row /\ x.request = m.request

LEMMA SendLooks ==
  ASSUME NEW m \in Sending, NEW step \in SendSteps, NEW n \in 0..MaxMessages
  PROVE  /\ Alike(LooksAt(m, step, n), m, step)
         /\ LooksAt(m, step, n).looked = n /\ LooksAt(m, step, n).question = m.question
BY PlacesOrNone DEF Sending, Alike, LooksAt

LEMMA SendAsks ==
  ASSUME NEW m \in Sending, NEW step \in SendSteps, NEW n \in 0..MaxMessages
  PROVE  /\ Alike(Asks(m, step, n), m, step)
         /\ Asks(m, step, n).looked = m.looked /\ Asks(m, step, n).question = n
BY PlacesOrNone DEF Sending, Alike, Asks

LEMMA SendReads ==
  ASSUME NEW m \in Sending, NEW step \in SendSteps, NEW p \in SUBSET Positions
  PROVE  /\ Alike(Reads(m, step, p), m, step)
         /\ Reads(m, step, p).looked = m.looked /\ Reads(m, step, p).question = m.question
         /\ Reads(m, step, p).prompt = p
BY DEF Sending, Alike, Reads

LEMMA SendGoes ==
  ASSUME NEW m \in Sending, NEW step \in SendSteps
  PROVE  /\ Alike(Goes(m, step), m, step)
         /\ Goes(m, step).looked = m.looked /\ Goes(m, step).question = m.question
         /\ Goes(m, step).prompt = m.prompt
BY DEF Sending, Alike, Goes

LEMMA SameTalk ==
  ASSUME messages' = messages
  PROVE  (\A r : QuestionOf(r)' = QuestionOf(r)) /\ (\A q : RepliesTo(q)' = RepliesTo(q))
BY DEF QuestionOf, RepliesTo

\* Only the send itself changes.
OnlySend == UNCHANGED <<messages, summary, count, setbacks, uncounted, overflowed>>

LEMMA OnlySendKeeps ==
  ASSUME MessagesInv, NEW s \in Sends, NEW m \in Sending, SendTurns(s, m), OnlySend, SendOK(s)',
         m.step \in Recording <=> send[s].step \in Recording
  PROVE  MessagesInv'
<1>1. send \in [Sends -> Sending]
  BY Found
<1>2. Cardinality(Counting') = Cardinality(Counting)
  BY <1>1, CountingTurns
<1>3. Counted'
  BY <1>2, Found DEF OnlySend, Counted
<1>4. Whole(summary)'
  BY Found DEF OnlySend, Whole
<1> QED BY <1>3, <1>4, Found, StepKeeps DEF OnlySend

LEMMA FinishKeeps ==
  ASSUME MessagesInv, NEW s \in Sends, EndSend(s), OnlySend, send[s].step \notin Recording
  PROVE  MessagesInv'
<1>1. SendTurns(s, Idle) /\ Idle \in Sending /\ Idle.step = "idle"
  BY IdleTyped DEF EndSend, SendTurns
<1>2. send'[s] = Idle
  BY <1>1, Found, OtherSendsStay
<1>3. SendOK(s)'
  BY <1>2, Found, IdleOK DEF OnlySend
<1> QED BY <1>1, <1>3, OnlySendKeeps DEF Recording

\* The question of a request is found: there is one.
LEMMA QuestionFound ==
  ASSUME MessagesInv, NEW r \in RequestIds, QuestionOf(r) # {}
  PROVE  /\ Last(QuestionOf(r)) \in QuestionOf(r) /\ Last(QuestionOf(r)) \in 1..Len(messages)
         /\ messages[Last(QuestionOf(r))].role = "user"
<1>1. PICK i \in QuestionOf(r) : TRUE
  OBVIOUS
<1>2. messages \in Seq(Message)
  BY DEF MessagesInv, MessagesTypeOK
<1>3. i \in 1..Len(messages) /\ i \in Int
  BY <1>2, FoundInMessages
<1>4. \A j \in QuestionOf(r) : j = i
  BY DEF MessagesInv, QuestionsAreUnique
<1>5. Last(QuestionOf(r)) = i
  BY <1>3, <1>4, LastOfOne
<1> QED BY <1>3, <1>5 DEF QuestionOf

LEMMA FindQuestionKeeps == ASSUME MessagesInv, NEW s \in Sends, FindQuestion(s) PROVE MessagesInv'
<1>1. /\ send[s].step = "find" /\ OnlySend /\ send[s].request \in RequestIds
      /\ send \in [Sends -> Sending] /\ send[s] \in Sending /\ Len(messages) \in 0..MaxMessages
  BY Found DEF FindQuestion, InStep, OnlySend, Sending
<1>2. CASE QuestionOf(send[s].request) = {}
  <2> DEFINE m == LooksAt(send[s], "ask", Len(messages))
  <2>1. SendTurns(s, m)
    BY <1>1, <1>2 DEF FindQuestion, SendTurns, LooksAt
  <2>2. m \in Sending /\ m.step = "ask" /\ m.looked = Len(messages) /\ m.row = send[s].row /\ m.request = send[s].request
    <3>1. "ask" \in SendSteps /\ "history" \in SendSteps
      BY DEF SendSteps
    <3> QED BY <1>1, <3>1, SendLooks DEF Alike
  <2> HIDE DEF m
  <2>3. send'[s] = m
    BY <2>1, <2>2, <1>1, OtherSendsStay
  <2>4. SendOK(s)'
    <3>1. Whole(send[s].row)'
      BY <2>2, <2>3, <1>1, Found DEF Whole, OnlySend
    <3>2. QuestionOf(send[s].request)' = {}
      BY <2>2, <2>3, <1>1, <1>2 DEF QuestionOf, OnlySend
    <3> QED BY <3>1, <3>2, <2>2, <2>3, <1>1 DEF SendOK, OnlySend
  <2> QED BY <2>1, <2>2, <2>4, <1>1, OnlySendKeeps DEF Recording
<1>3. CASE QuestionOf(send[s].request) # {}
  <2> DEFINE q == Last(QuestionOf(send[s].request))
             m == Asks(send[s], "reply", q)
  <2>0. q \in 1..Len(messages) /\ messages[q].role = "user"
    BY <1>1, <1>3, QuestionFound
  <2> HIDE DEF q
  <2>1. SendTurns(s, m)
    BY <1>1, <1>3 DEF FindQuestion, SendTurns, Asks, q
  <2>2. m \in Sending /\ m.step = "reply" /\ m.looked = send[s].looked /\ m.row = send[s].row /\ m.question = q
    <3>1. q \in 0..MaxMessages /\ "reply" \in SendSteps
      BY <1>1, <2>0, Settings DEF SendSteps
    <3> QED BY <1>1, <3>1, SendAsks DEF Alike
  <2> HIDE DEF m
  <2>3. send'[s] = m
    BY <2>1, <2>2, <1>1, OtherSendsStay
  <2>4. SendOK(s)'
    <3>1. Whole(send[s].row)' /\ send[s].looked <= Len(messages)
      BY <2>2, <2>3, <1>1, Found DEF Whole, OnlySend, SendOK
    <3>2. send'[s].step = "reply" /\ send'[s].question \in 1..Len(messages') /\ messages'[send'[s].question].role = "user"
      BY <2>0, <2>2, <2>3, <1>1 DEF OnlySend
    <3> QED BY <3>1, <3>2, <2>2, <2>3, <1>1 DEF SendOK, OnlySend
  <2> QED BY <2>1, <2>2, <2>4, <1>1, OnlySendKeeps DEF Recording
<1> QED BY <1>2, <1>3

LEMMA FindReplyKeeps == ASSUME MessagesInv, NEW s \in Sends, FindReply(s) PROVE MessagesInv'
<1>1. /\ send[s].step = "reply" /\ OnlySend
      /\ send \in [Sends -> Sending] /\ send[s] \in Sending /\ Len(messages) \in 0..MaxMessages
      /\ send[s].question \in 1..Len(messages) /\ messages[send[s].question].role = "user"
  BY Found DEF FindReply, InStep, OnlySend, SendOK
<1>2. CASE RepliesTo(send[s].question) # {}
  BY <1>1, <1>2, FinishKeeps DEF FindReply, Recording
<1>3. CASE RepliesTo(send[s].question) = {}
  <2> DEFINE m == LooksAt(send[s], "history", Len(messages))
  <2>1. SendTurns(s, m)
    BY <1>1, <1>3 DEF FindReply, SendTurns, LooksAt
  <2>2. m \in Sending /\ m.step = "history" /\ m.looked = Len(messages) /\ m.row = send[s].row /\ m.question = send[s].question
    <3>1. "ask" \in SendSteps /\ "history" \in SendSteps
      BY DEF SendSteps
    <3> QED BY <1>1, <3>1, SendLooks DEF Alike
  <2> HIDE DEF m
  <2>3. send'[s] = m
    BY <2>1, <2>2, <1>1, OtherSendsStay
  <2>4. SendOK(s)'
    <3>1. Whole(send[s].row)'
      BY <2>2, <2>3, <1>1, Found DEF Whole, OnlySend
    <3>2. RepliesTo(send[s].question)' = {}
      BY <2>2, <2>3, <1>1, <1>3 DEF RepliesTo, OnlySend
    <3> QED BY <3>1, <3>2, <2>2, <2>3, <1>1 DEF SendOK, OnlySend
  <2> QED BY <2>1, <2>2, <2>4, <1>1, OnlySendKeeps DEF Recording
<1> QED BY <1>2, <1>3

\* A message is added: the send keeps to the counting.
LEMMA MessageKeeps ==
  ASSUME MessagesInv, NEW s \in Sends, NEW m \in Sending, SendTurns(s, m), NEW e, Says(e), SendOK(s)',
         m.step \in Recording, send[s].step \notin Recording,
         UNCHANGED <<summary, count, setbacks, uncounted, overflowed>>
  PROVE  MessagesInv'
<1>1. send \in [Sends -> Sending] /\ messages \in Seq(Message)
  BY Found
<1>2. Cardinality(Counting') = Cardinality(Counting) + 1
  BY <1>1, CountingTurns
<1>3. Len(messages') = Len(messages) + 1
  BY <1>1, Appended DEF Says
<1>4. Counted'
  <2>1. /\ Len(messages) = count + uncounted + Cardinality(Counting)
        /\ count \in Nat /\ uncounted \in Nat /\ Cardinality(Counting) \in Nat
    BY Found DEF Counted
  <2>2. Len(messages') = count' + uncounted' + Cardinality(Counting')
    BY <2>1, <1>2, <1>3
  <2> QED BY <2>2 DEF Counted
<1>5. Whole(summary)'
  BY Found DEF Whole
<1> QED BY <1>4, <1>5, Found, StepKeeps

LEMMA AddUserMessageKeeps == ASSUME MessagesInv, NEW s \in Sends, AddUserMessage(s) PROVE MessagesInv'
<1>1. /\ send[s].step = "ask" /\ send[s].request \in RequestIds /\ Len(messages) < MaxMessages
      /\ UNCHANGED <<summary, count, setbacks, uncounted, overflowed>>
      /\ send \in [Sends -> Sending] /\ send[s] \in Sending /\ Len(messages) \in 0..MaxMessages
      /\ messages \in Seq(Message) /\ Whole(send[s].row) /\ send[s].looked <= Len(messages)
      /\ send[s].looked \in Nat
      /\ \A i \in QuestionOf(send[s].request) : i > send[s].looked
  <2>1. send[s].request \in RequestIds /\ send[s].looked \in 0..MaxMessages
    BY Found, PlacesOrNone DEF Sending
  <2> QED BY <2>1, Found, Settings DEF AddUserMessage, InStep, SendOK
<1>2. CASE QuestionOf(send[s].request) = {}
  <2> DEFINE e == [role |-> "user", request |-> send[s].request]
             m == Asks(send[s], "countQuestion", Len(messages) + 1)
  <2>1. SendTurns(s, m) /\ messages' = Append(messages, e)
    BY <1>1, <1>2 DEF AddUserMessage, SendTurns, Asks
  <2>2. Says(e) /\ e \in Message /\ e.role = "user"
    BY <1>1, <1>2, <2>1 DEF Says, Message
  <2>3. /\ m \in Sending /\ m.step = "countQuestion" /\ m.looked = send[s].looked /\ m.row = send[s].row
        /\ m.question = Len(messages) + 1
    <3>1. Len(messages) + 1 \in 0..MaxMessages /\ "countQuestion" \in SendSteps
      BY <1>1, Settings DEF SendSteps
    <3> QED BY <1>1, <3>1, SendAsks DEF Alike
  <2> HIDE DEF m, e
  <2>4. send'[s] = m
    BY <2>1, <2>3, <1>1, OtherSendsStay
  <2>5. SendOK(s)'
    <3>1. Whole(send[s].row)'
      BY <2>3, <2>4, <1>1 DEF Whole
    <3>2. Len(messages') = Len(messages) + 1 /\ messages'[Len(messages) + 1].role = "user"
      BY <2>1, <2>2, <1>1, Appended
    <3>3. RepliesTo(Len(messages) + 1) = {}
      <4> SUFFICES ASSUME NEW i \in RepliesTo(Len(messages) + 1) PROVE FALSE
        OBVIOUS
      <4>1. i \in 1..Len(messages) /\ messages[i].role = "assistant" /\ messages[i].to = Len(messages) + 1
        BY <1>1, FoundInMessages DEF RepliesTo
      <4>2. messages[i].to \in 1..(i - 1)
        BY <4>1 DEF MessagesInv, RepliesFollow
      <4> QED BY <4>1, <4>2, <1>1
    <3>4. \A q : RepliesTo(q)' = RepliesTo(q)
      BY <1>1, <2>1, <2>2, RepliesGrow
    <3>5. RepliesTo(send[s].question)' = {}
      <4>1. \A q : q = send'[s].question => RepliesTo(send[s].question)' = RepliesTo(q)'
        BY DEF RepliesTo
      <4>2. send'[s].question = Len(messages) + 1
        BY <2>3, <2>4
      <4>3. RepliesTo(send[s].question)' = RepliesTo(Len(messages) + 1)
        BY <3>4, <4>1, <4>2
      <4> QED BY <3>3, <4>3
    <3> QED BY <3>1, <3>2, <3>5, <2>3, <2>4, <1>1 DEF SendOK
  <2> QED BY <2>1, <2>2, <2>3, <2>5, <1>1, MessageKeeps DEF Recording
<1>3. CASE QuestionOf(send[s].request) # {}
  <2> DEFINE q == Last(QuestionOf(send[s].request))
             m == Asks(send[s], "history", q)
  <2>0. q \in QuestionOf(send[s].request) /\ q \in 1..Len(messages) /\ messages[q].role = "user"
    BY <1>1, <1>3, QuestionFound
  <2>1. OnlySend /\ SendTurns(s, m)
    BY <1>1, <1>3 DEF AddUserMessage, SendTurns, Asks, OnlySend
  <2> HIDE DEF q
  <2>2. m \in Sending /\ m.step = "history" /\ m.looked = send[s].looked /\ m.row = send[s].row /\ m.question = q
    <3>1. q \in 0..MaxMessages /\ "history" \in SendSteps
      BY <1>1, <2>0, Settings DEF SendSteps
    <3> QED BY <1>1, <3>1, SendAsks DEF Alike
  <2> HIDE DEF m
  <2>3. send'[s] = m
    BY <2>1, <2>2, <1>1, OtherSendsStay
  <2>4. SendOK(s)'
    <3>1. Whole(send[s].row)'
      BY <2>1, <2>2, <2>3, <1>1 DEF Whole, OnlySend
    <3>2. \A i \in RepliesTo(q) : i > send[s].looked
      <4> SUFFICES ASSUME NEW i \in RepliesTo(q) PROVE i > send[s].looked
        OBVIOUS
      <4>1. i \in 1..Len(messages) /\ messages[i].role = "assistant" /\ messages[i].to = q
        BY <1>1, FoundInMessages DEF RepliesTo
      <4>2. q \in 1..(i - 1)
        BY <4>1 DEF MessagesInv, RepliesFollow
      <4>3. q > send[s].looked
        BY <1>1, <2>0
      <4> QED BY <4>1, <4>2, <4>3, <2>0, <1>1
    <3>3. RepliesTo(send[s].question)' = RepliesTo(q)
      BY <2>1, <2>2, <2>3 DEF RepliesTo, OnlySend
    <3> QED BY <3>1, <3>2, <3>3, <2>0, <2>1, <2>2, <2>3, <1>1 DEF SendOK, OnlySend
  <2> QED BY <2>1, <2>2, <2>4, <1>1, OnlySendKeeps DEF Recording
<1> QED BY <1>2, <1>3

LEMMA AddAssistantMessageKeeps == ASSUME MessagesInv, NEW s \in Sends, AddAssistantMessage(s) PROVE MessagesInv'
<1> DEFINE e == [role |-> "assistant", to |-> send[s].question]
           m == Goes(send[s], "countReply")
<1>1. /\ send[s].step = "answer" /\ Len(messages) < MaxMessages
      /\ messages' = Append(messages, e) /\ SendTurns(s, m)
      /\ UNCHANGED <<summary, count, setbacks, uncounted, overflowed>>
  BY DEF AddAssistantMessage, InStep, MoveTo, SendTurns, Goes
<1>2. /\ send \in [Sends -> Sending] /\ send[s] \in Sending /\ Len(messages) \in 0..MaxMessages
      /\ messages \in Seq(Message) /\ Whole(send[s].row) /\ send[s].looked <= Len(messages)
      /\ send[s].looked \in Nat
      /\ send[s].question \in 1..Len(messages) /\ messages[send[s].question].role = "user"
  <2>1. send[s].looked \in 0..MaxMessages
    BY Found, PlacesOrNone DEF Sending
  <2> QED BY <2>1, <1>1, Found, Settings DEF SendOK
<1>3. e \in Message /\ Says(e) /\ e.role = "assistant"
  <2>1. send[s].question \in Positions
    BY <1>2, Settings DEF Positions
  <2>2. e \in Message /\ e.role = "assistant" /\ e.to = send[s].question
    BY <2>1 DEF Message
  <2> QED BY <2>2, <1>1, <1>2 DEF Says
<1>4. m \in Sending /\ m.step = "countReply" /\ m.row = send[s].row /\ m.looked = send[s].looked /\ m.question = send[s].question
  <2>1. "countReply" \in SendSteps
    BY DEF SendSteps
  <2> QED BY <2>1, <1>2, SendGoes DEF Alike
<1> HIDE DEF e, m
<1>5. send'[s] = m
  BY <1>1, <1>2, <1>4, OtherSendsStay
<1>6. SendOK(s)'
  <2>1. Whole(send[s].row)'
    BY <1>1, <1>2, <1>4, <1>5 DEF Whole
  <2>2. Len(messages') = Len(messages) + 1 /\ messages'[send[s].question] = messages[send[s].question]
    BY <1>1, <1>2, <1>3, Appended
  <2> QED BY <2>1, <2>2, <1>2, <1>4, <1>5 DEF SendOK
<1> QED BY <1>1, <1>3, <1>4, <1>6, MessageKeeps DEF Recording

LEMMA RecordKeeps == ASSUME MessagesInv, NEW s \in Sends, Record(s) PROVE MessagesInv'
<1>1. /\ send[s].step \in Recording /\ count' = count + 1
      /\ UNCHANGED <<messages, summary, setbacks, uncounted, overflowed>>
      /\ send \in [Sends -> Sending] /\ send[s] \in Sending /\ Len(messages) \in 0..MaxMessages
  BY Found DEF Record, InStep, Recording
<1>2. PICK m \in Sending : SendTurns(s, m) /\ m.step \in SendSteps \ Recording /\ (send'[s] = m => SendOK(s)')
  <2>1. CASE send[s].step = "countQuestion"
    <3> DEFINE m == Goes(send[s], "history")
    <3>1. SendTurns(s, m)
      BY <2>1 DEF Record, InStep, MoveTo, SendTurns, Goes
    <3>2. m \in Sending /\ m.step = "history" /\ m.row = send[s].row /\ m.looked = send[s].looked /\ m.question = send[s].question
      <4>1. "history" \in SendSteps
        BY DEF SendSteps
      <4> QED BY <4>1, <1>1, SendGoes DEF Alike
    <3> HIDE DEF m
    <3>3. send'[s] = m => SendOK(s)'
      <4> SUFFICES ASSUME send'[s] = m PROVE SendOK(s)'
        OBVIOUS
      <4>1. Whole(send[s].row)' /\ RepliesTo(send[s].question)' = RepliesTo(send[s].question)
        BY <1>1, <3>2, Found DEF Whole, RepliesTo
      <4> QED BY <4>1, <3>2, <1>1, <2>1, Found DEF SendOK
    <3> QED BY <3>1, <3>2, <3>3 DEF SendSteps, Recording
  <2>2. CASE send[s].step = "countReply"
    <3>1. SendTurns(s, Idle)
      BY <2>2 DEF Record, InStep, EndSend, SendTurns
    <3> QED BY <3>1, <1>1, IdleTyped, IdleOK DEF SendSteps, Recording
  <2> QED BY <2>1, <2>2, <1>1 DEF Recording
<1>3. SendOK(s)'
  BY <1>1, <1>2, OtherSendsStay
<1>4. Cardinality(Counting') = Cardinality(Counting) - 1
  BY <1>1, <1>2, CountingTurns
<1>5. Counted'
  <2>1. /\ Len(messages) = count + uncounted + Cardinality(Counting)
        /\ count \in Nat /\ uncounted \in Nat /\ Cardinality(Counting) \in Nat
    BY Found DEF Counted
  <2>2. Len(messages') = count' + uncounted' + Cardinality(Counting')
    BY <2>1, <1>1, <1>4
  <2> QED BY <2>2 DEF Counted
<1>6. Whole(summary)' /\ count' \in Nat
  BY <1>1, Found DEF Whole
<1> QED BY <1>1, <1>2, <1>3, <1>5, <1>6, Found, StepKeeps

LEMMA RunGraphKeeps == ASSUME MessagesInv, NEW s \in Sends, RunGraph(s) PROVE MessagesInv'
<1>1. /\ send[s].step = "run" /\ OnlySend
      /\ send \in [Sends -> Sending] /\ send[s] \in Sending /\ Len(messages) \in 0..MaxMessages
  BY Found DEF RunGraph, InStep, OnlySend
<1>2. CASE EndSend(s)
  BY <1>1, <1>2, FinishKeeps DEF Recording
<1>3. CASE MoveTo(s, "answer")
  <2> DEFINE m == Goes(send[s], "answer")
  <2>1. SendTurns(s, m)
    BY <1>3 DEF MoveTo, SendTurns, Goes
  <2>2. m \in Sending /\ m.step = "answer" /\ m.row = send[s].row /\ m.looked = send[s].looked /\ m.question = send[s].question
    <3>1. "answer" \in SendSteps
      BY DEF SendSteps
    <3> QED BY <3>1, <1>1, SendGoes DEF Alike
  <2> HIDE DEF m
  <2>3. send'[s] = m
    BY <2>1, <2>2, <1>1, OtherSendsStay
  <2>4. Whole(send[s].row)' /\ RepliesTo(send[s].question)' = RepliesTo(send[s].question)
    BY <1>1, <2>2, <2>3, Found DEF Whole, RepliesTo, OnlySend
  <2>5. SendOK(s)'
    BY <2>2, <2>3, <2>4, <1>1, Found DEF SendOK, OnlySend
  <2> QED BY <2>1, <2>2, <2>5, <1>1, OnlySendKeeps DEF Recording
<1> QED BY <1>2, <1>3 DEF RunGraph

LEMMA StopSendKeeps == ASSUME MessagesInv, NEW s \in Sends, StopSend(s) PROVE MessagesInv'
<1>1. /\ setbacks < MaxSetbacks /\ setbacks' = setbacks + 1
      /\ uncounted' = (IF send[s].step \in Recording THEN uncounted + 1 ELSE uncounted)
      /\ SendTurns(s, Idle) /\ UNCHANGED <<messages, summary, count, overflowed>>
  BY DEF StopSend, Setback, EndSend, SendTurns, Recording
<1>2. Idle \in Sending /\ Idle.step \notin Recording
  BY IdleTyped DEF Recording
<1>3. send \in [Sends -> Sending]
  BY Found
<1>4. SendOK(s)'
  <2>1. send'[s] = Idle
    BY <1>1, <1>2, <1>3, OtherSendsStay
  <2> QED BY <2>1, <1>1, Found, IdleOK
<1>5. /\ Cardinality(Counting') \in Nat
      /\ send[s].step \in Recording => Cardinality(Counting') = Cardinality(Counting) - 1
      /\ send[s].step \notin Recording => Cardinality(Counting') = Cardinality(Counting)
  BY <1>1, <1>2, <1>3, CountingTurns
<1>6. Counted'
  <2>1. /\ Len(messages) = count + uncounted + Cardinality(Counting)
        /\ count \in Nat /\ uncounted \in Nat /\ Cardinality(Counting) \in Nat
    BY Found DEF Counted
  <2>2. Len(messages') = count' + uncounted' + Cardinality(Counting')
    BY <2>1, <1>1, <1>5
  <2> QED BY <2>2 DEF Counted
<1>7. Whole(summary)'
  BY <1>1, Found DEF Whole
<1>8. setbacks' \in 0..MaxSetbacks /\ uncounted' \in Nat /\ uncounted' <= setbacks'
  BY <1>1, Found, Settings
<1> QED BY <1>1, <1>2, <1>4, <1>6, <1>7, <1>8, Found, StepKeeps

-------------------------------------------------------------------------------
(* The history is the end of the conversation, and follows on the summary.      *)

LEMMA HistoryFollows ==
  ASSUME MessagesInv, NEW s \in Sends, send[s].step = "history"
  PROVE  LET u == send[s].row.until
             q == send[s].question
         IN  /\ u \in 0..MaxMessages /\ q \in 1..Len(messages) /\ Len(messages) \in 0..MaxMessages
             /\ \E a \in 1..(MaxMessages + 1) :
                  /\ a > u /\ History(s) = a..q
                  /\ Cardinality(Unsummarized(s)) <= HistoryLimit => a = u + 1
<1> DEFINE u == send[s].row.until
           q == send[s].question
<1>1. /\ u \in 0..MaxMessages /\ q \in 1..Len(messages) /\ Len(messages) \in 0..MaxMessages
      /\ DOMAIN messages = 1..Len(messages)
  <2>1. send[s].row \in Summary
    BY Found DEF Sending
  <2>2. u \in 0..MaxMessages
    BY <2>1, PlacesOrNone DEF Summary
  <2> QED BY <2>2, Found DEF SendOK
<1>2. Unsummarized(s) = (u + 1)..q
  <2>1. Unsummarized(s) = {i \in 1..Len(messages) : u < i /\ i <= q}
    BY <1>1 DEF Unsummarized
  <2> HIDE DEF u, q
  <2> QED BY <1>1, <2>1
<1> HIDE DEF u, q
<1>3. HistoryLimit \in Nat /\ MaxMessages \in Nat
  BY Settings
<1>4. Cardinality(Unsummarized(s)) = (IF u + 1 > q THEN 0 ELSE q - u)
  <2>1. u + 1 \in Int /\ q \in Int
    BY <1>1
  <2>2. Cardinality((u + 1)..q) = (IF u + 1 > q THEN 0 ELSE q - (u + 1) + 1)
    BY <2>1, IntervalSize
  <2> QED BY <2>2, <1>1, <1>2
<1>5. History(s) = {i \in (u + 1)..q : q - i < HistoryLimit}
  <2>1. u + 1 \in Int /\ q \in Int
    BY <1>1
  <2> QED BY <2>1, <1>2, <1>3, NewestOfInterval DEF History
<1>6. CASE q - HistoryLimit <= u
  <2>1. History(s) = (u + 1)..q
    BY <1>1, <1>3, <1>5, <1>6
  <2>2. u + 1 \in 1..(MaxMessages + 1) /\ u + 1 > u
    BY <1>1, <1>3
  <2> QED BY <1>1, <2>1, <2>2 DEF u, q
<1>7. CASE q - HistoryLimit > u
  <2> DEFINE a == q - HistoryLimit + 1
  <2>1. History(s) = a..q
    BY <1>1, <1>3, <1>5, <1>7
  <2>2. a \in 1..(MaxMessages + 1) /\ a > u
    BY <1>1, <1>3, <1>7
  <2>3. ~(Cardinality(Unsummarized(s)) <= HistoryLimit)
    BY <1>1, <1>3, <1>4, <1>7
  <2> HIDE DEF a
  <2> QED BY <1>1, <2>1, <2>2, <2>3 DEF u, q
<1>8. q - HistoryLimit <= u \/ q - HistoryLimit > u
  BY <1>1, <1>3
<1> QED BY <1>6, <1>7, <1>8

\* A history without what is not recent in it ends just before what is.
LEMMA OlderPart ==
  ASSUME NEW a \in 1..(MaxMessages + 1), NEW q \in 1..MaxMessages, Cardinality(a..q) > Threshold
  PROVE  /\ (a..q) \ Newest(a..q, Keep) = a..(q - Keep)
         /\ Last(a..(q - Keep)) = q - Keep /\ q - Keep \in a..q
<1>1. a \in Int /\ q \in Int /\ Keep \in Nat \ {0} /\ Threshold \in Nat /\ Keep <= Threshold /\ a >= 1
  BY Settings
<1>2. Newest(a..q, Keep) = {i \in a..q : q - i < Keep}
  BY <1>1, NewestOfInterval
<1>3. Cardinality(a..q) = (IF a > q THEN 0 ELSE q - a + 1)
  BY <1>1, IntervalSize
<1>4. q - Keep >= a
  BY <1>1, <1>3
<1>5. (a..q) \ Newest(a..q, Keep) = a..(q - Keep)
  BY <1>1, <1>2
<1>6. Last(a..(q - Keep)) = q - Keep
  <2>1. q - Keep \in Int /\ a <= q - Keep
    BY <1>1, <1>4
  <2> QED BY <1>1, <2>1, LastOfInterval
<1> QED BY <1>1, <1>4, <1>5, <1>6

\* The graph is run with everything up to the question.
LEMMA RunsKeeps ==
  ASSUME MessagesInv, NEW s \in Sends, send[s].step = "history", NEW p \in SUBSET Positions,
         SendTurns(s, Reads(send[s], "run", p)), Overflow(s), overflowed' \/ 1..send[s].question \subseteq p,
         summary' \in Summary, Whole(summary)', UNCHANGED <<messages, count, uncounted>>,
         setbacks' \in 0..MaxSetbacks, setbacks' >= setbacks
  PROVE  MessagesInv'
<1> DEFINE m == Reads(send[s], "run", p)
<1>1. /\ send \in [Sends -> Sending] /\ send[s] \in Sending /\ Len(messages) \in 0..MaxMessages
      /\ overflowed' \in BOOLEAN /\ (overflowed => overflowed')
  BY Found DEF Overflow
<1>2. /\ m \in Sending /\ m.step = "run" /\ m.row = send[s].row /\ m.looked = send[s].looked
      /\ m.question = send[s].question /\ m.prompt = p
  <2>1. "run" \in SendSteps
    BY DEF SendSteps
  <2> QED BY <2>1, <1>1, SendReads DEF Alike
<1>3. SendTurns(s, m)
  OBVIOUS
<1> HIDE DEF m
<1>4. send'[s] = m
  BY <1>1, <1>2, <1>3, OtherSendsStay
<1>5. SendOK(s)'
  <2>1. Whole(send[s].row)' /\ RepliesTo(send[s].question)' = RepliesTo(send[s].question)
    <3>1. Whole(send[s].row)'
      BY <1>1, <1>2, <1>4, Found DEF Whole
    <3>2. send'[s].question = send[s].question /\ messages' = messages
      BY <1>2, <1>4
    <3> QED BY <3>1, <3>2 DEF RepliesTo
  <2>2. /\ send[s].looked <= Len(messages) /\ send[s].question \in 1..Len(messages)
        /\ messages[send[s].question].role = "user"
        /\ \A i \in RepliesTo(send[s].question) : i > send[s].looked
    BY Found DEF SendOK
  <2> QED BY <2>1, <2>2, <1>2, <1>4 DEF SendOK
<1>6. Counted'
  <2>1. Cardinality(Counting') = Cardinality(Counting)
    BY <1>1, <1>2, <1>3, CountingTurns DEF Recording
  <2> QED BY <2>1, Found DEF Counted
<1>7. uncounted' \in Nat /\ uncounted' <= setbacks' /\ count' \in Nat
  BY Found, Settings
<1>8. messages' = messages \/ \E e : Says(e)
  OBVIOUS
<1> QED BY <1>1, <1>2, <1>3, <1>5, <1>6, <1>7, <1>8, StepKeeps

\* With what the summary of the send covers, the history is everything up to the question.
LEMMA HistoryAndSummary ==
  ASSUME MessagesInv, NEW s \in Sends, send[s].step = "history", Overflow(s)
  PROVE  /\ History(s) \subseteq Positions /\ send[s].row.covers \subseteq Positions
         /\ overflowed' \/ 1..send[s].question \subseteq History(s) \union send[s].row.covers
<1> DEFINE u == send[s].row.until
           q == send[s].question
<1>1. /\ u \in 0..MaxMessages /\ q \in 1..Len(messages) /\ Len(messages) \in 0..MaxMessages
      /\ \E a \in 1..(MaxMessages + 1) :
           /\ a > u /\ History(s) = a..q
           /\ Cardinality(Unsummarized(s)) <= HistoryLimit => a = u + 1
  BY HistoryFollows
<1>2. PICK a \in 1..(MaxMessages + 1) :
           /\ a > u /\ History(s) = a..q
           /\ Cardinality(Unsummarized(s)) <= HistoryLimit => a = u + 1
  BY <1>1
<1>3. send[s].row.covers \subseteq 1..u /\ (overflowed \/ 1..u \subseteq send[s].row.covers)
  BY Found DEF Whole
<1>4. History(s) \subseteq Positions /\ send[s].row.covers \subseteq Positions
  <2> HIDE DEF u, q
  <2> QED BY <1>1, <1>2, <1>3, Settings DEF Positions
<1>5. ASSUME ~overflowed' PROVE 1..q \subseteq History(s) \union send[s].row.covers
  <2>1. ~overflowed /\ ~(Cardinality(Unsummarized(s)) > HistoryLimit)
    BY <1>5 DEF Overflow
  <2>2. Cardinality(Unsummarized(s)) <= HistoryLimit
    <3>1. Unsummarized(s) \subseteq 1..Len(messages)
      BY Found DEF Unsummarized
    <3>2. Cardinality(Unsummarized(s)) \in Nat
      <4>1. IsFiniteSet(1..Len(messages))
        BY <1>1, FS_Interval
      <4> QED BY <3>1, <4>1, FS_Subset, FS_CardinalityType
    <3> QED BY <3>2, <2>1, Settings
  <2> HIDE DEF u, q
  <2> QED BY <2>1, <2>2, <1>1, <1>2, <1>3
<1> QED BY <1>4, <1>5, Found

LEMMA ReadHistoryKeeps == ASSUME MessagesInv, NEW s \in Sends, ReadHistory(s) PROVE MessagesInv'
<1> DEFINE p == send[s].prompt \union History(s) \union send[s].row.covers
<1>1. send[s].step = "history" /\ Overflow(s) /\ UNCHANGED <<messages, summary, count, setbacks, uncounted>>
  BY DEF ReadHistory, InStep
<1>2. /\ History(s) \subseteq Positions /\ send[s].row.covers \subseteq Positions
      /\ overflowed' \/ 1..send[s].question \subseteq History(s) \union send[s].row.covers
  BY <1>1, HistoryAndSummary
<1>3. send[s].prompt \subseteq Positions
  BY Found DEF Sending
<1>4. p \in SUBSET Positions /\ (overflowed' \/ 1..send[s].question \subseteq p)
  BY <1>2, <1>3
<1>5. SendTurns(s, Reads(send[s], "run", p))
  BY DEF ReadHistory, SendTurns, Reads
<1> HIDE DEF p
<1>6. Whole(summary)'
  BY <1>1, Found DEF Whole, Overflow
<1>7. setbacks' \in 0..MaxSetbacks /\ setbacks' >= setbacks /\ summary' \in Summary
  BY <1>1, Found, Settings
<1> QED BY <1>1, <1>4, <1>5, <1>6, <1>7, RunsKeeps

LEMMA FoldFailsKeeps == ASSUME MessagesInv, NEW s \in Sends, FoldFails(s) PROVE MessagesInv'
<1> DEFINE p == History(s) \union send[s].row.covers
<1>1. /\ send[s].step = "history" /\ Overflow(s) /\ UNCHANGED <<messages, summary, count, uncounted>>
      /\ setbacks < MaxSetbacks /\ setbacks' = setbacks + 1
  BY DEF FoldFails, InStep, Setback
<1>2. p \in SUBSET Positions /\ (overflowed' \/ 1..send[s].question \subseteq p)
  BY <1>1, HistoryAndSummary
<1>3. SendTurns(s, Reads(send[s], "run", p))
  BY DEF FoldFails, SendTurns, Reads
<1> HIDE DEF p
<1>4. Whole(summary)'
  BY <1>1, Found DEF Whole, Overflow
<1>5. setbacks' \in 0..MaxSetbacks /\ setbacks' >= setbacks
  BY <1>1, Found, Settings
<1> QED BY <1>1, <1>2, <1>3, <1>4, <1>5, Found, RunsKeeps

LEMMA FoldKeeps == ASSUME MessagesInv, NEW s \in Sends, Fold(s) PROVE MessagesInv'
<1> DEFINE older == History(s) \ Newest(History(s), Keep)
           known == send[s].row.covers \union older
           p == History(s) \union known
           u == send[s].row.until
           q == send[s].question
<1>1. /\ send[s].step = "history" /\ Overflow(s) /\ UNCHANGED <<messages, count, setbacks, uncounted>>
      /\ Cardinality(History(s)) > Threshold
      /\ summary' = [covers |-> known, until |-> Last(older)]
      /\ SendTurns(s, Reads(send[s], "run", p))
  BY DEF Fold, InStep, SendTurns, Reads
<1>2. /\ History(s) \subseteq Positions /\ send[s].row.covers \subseteq Positions
      /\ overflowed' \/ 1..q \subseteq History(s) \union send[s].row.covers
  BY <1>1, HistoryAndSummary
<1>3. /\ u \in 0..MaxMessages /\ q \in 1..Len(messages) /\ Len(messages) \in 0..MaxMessages
      /\ \E a \in 1..(MaxMessages + 1) : a > u /\ History(s) = a..q
  BY <1>1, HistoryFollows
<1>4. PICK a \in 1..(MaxMessages + 1) : a > u /\ History(s) = a..q
  BY <1>3
<1>5. /\ older = a..(q - Keep) /\ Last(older) = q - Keep /\ q - Keep \in a..q
  <2>1. q \in 1..MaxMessages
    BY <1>3, Settings
  <2>2. Cardinality(a..q) > Threshold
    BY <1>1, <1>4
  <2>3. /\ (a..q) \ Newest(a..q, Keep) = a..(q - Keep)
        /\ Last(a..(q - Keep)) = q - Keep /\ q - Keep \in a..q
    <3> HIDE DEF q
    <3> QED BY <2>1, <2>2, OlderPart
  <2> QED BY <2>3, <1>4
<1>6. send[s].row.covers \subseteq 1..u
  BY Found DEF Whole
<1>7. p \in SUBSET Positions /\ (overflowed' \/ 1..q \subseteq p)
  BY <1>2
<1>8. known \subseteq 1..(q - Keep) /\ q - Keep \in Positions
  <2> HIDE DEF u, q, older
  <2> QED BY <1>3, <1>4, <1>5, <1>6, Settings DEF Positions
<1>9. overflowed' \/ 1..(q - Keep) \subseteq known
  <2> SUFFICES ASSUME ~overflowed' PROVE 1..(q - Keep) \subseteq known
    OBVIOUS
  <2>1. 1..q \subseteq (a..q) \union send[s].row.covers
    BY <1>2, <1>4
  <2> HIDE DEF u, q, older
  <2> QED BY <2>1, <1>3, <1>4, <1>5, Settings
<1>10. summary' \in Summary
  <2>1. known \subseteq Positions
    BY <1>2
  <2>2. Last(older) \in Positions
    BY <1>5, <1>8
  <2> HIDE DEF known, older
  <2> QED BY <2>1, <2>2, <1>1 DEF Summary
<1>11. Whole(summary)'
  <2>1. summary'.covers = known /\ summary'.until = q - Keep
    BY <1>1, <1>5
  <2> QED BY <2>1, <1>8, <1>9 DEF Whole
<1>12. setbacks' \in 0..MaxSetbacks /\ setbacks' >= setbacks
  BY <1>1, Found, Settings
<1> HIDE DEF p
<1> QED BY <1>1, <1>7, <1>10, <1>11, <1>12, RunsKeeps

-------------------------------------------------------------------------------
(* The invariant holds throughout.                                              *)

LEMMA MessagesStart == ASSUME MessagesInit PROVE MessagesInv
<1>1. /\ messages = <<>> /\ Len(messages) = 0 /\ DOMAIN messages = {} /\ messages \in Seq(Message)
      /\ summary = Unsummed /\ count = 0 /\ uncounted = 0 /\ setbacks = 0 /\ overflowed = FALSE
      /\ send = [s \in Sends |-> Idle]
  BY DEF MessagesInit
<1>2. /\ RepliesFollow /\ QuestionsAreUnique
      /\ \A i \in DOMAIN messages : messages[i].role = "assistant" => messages[messages[i].to].role = "user"
  BY <1>1 DEF RepliesFollow, QuestionsAreUnique, QuestionOf
<1>3. Whole(summary) /\ summary \in Summary
  BY <1>1, UnsummedWhole, IdleTyped
<1>4. \A s \in Sends : SendOK(s)
  <2> SUFFICES ASSUME NEW s \in Sends PROVE SendOK(s)
    OBVIOUS
  <2>1. send[s] = Idle /\ Idle.step = "idle" /\ Idle.row = Unsummed /\ Idle.looked = 0
    BY <1>1 DEF Idle, Nothing
  <2> QED BY <2>1, <1>1, UnsummedWhole DEF SendOK
<1>5. Counted
  <2>1. Counting = {}
    BY <1>1, IdleTyped DEF Counting
  <2> QED BY <2>1, <1>1, FS_EmptySet DEF Counted
<1>6. MessagesTypeOK
  <2>1. send \in [Sends -> Sending]
    BY <1>1, IdleTyped
  <2>2. summary.covers \subseteq 1..summary.until
    BY <1>3 DEF Whole
  <2>3. Len(messages) <= MaxMessages /\ uncounted \in 0..MaxSetbacks /\ setbacks \in 0..MaxSetbacks /\ count \in Nat
    BY <1>1, Settings
  <2> QED BY <2>1, <2>2, <2>3, <1>1, <1>2, <1>3 DEF MessagesTypeOK, Sending
<1> QED BY <1>1, <1>2, <1>3, <1>4, <1>5, <1>6 DEF MessagesInv

LEMMA MessagesStutter == ASSUME MessagesInv, UNCHANGED messagesVars PROVE MessagesInv'
<1>1. UNCHANGED <<messages, summary, count, send, setbacks, uncounted, overflowed>>
  BY DEF messagesVars
<1>2. MessagesTypeOK' /\ uncounted' <= setbacks' /\ Whole(summary)' /\ Counted'
  BY <1>1 DEF MessagesInv, MessagesTypeOK, Whole, Counted, Counting
<1>3. RepliesFollow' /\ QuestionsAreUnique'
  BY <1>1 DEF MessagesInv, RepliesFollow, QuestionsAreUnique, QuestionOf
<1>4. ASSUME NEW s \in Sends PROVE SendOK(s)'
  BY <1>1, <1>4, SendKeeps, Found
<1> QED BY <1>2, <1>3, <1>4 DEF MessagesInv

LEMMA MessagesStep == ASSUME MessagesInv, [MessagesNext]_messagesVars PROVE MessagesInv'
<1>1. CASE UNCHANGED messagesVars
  BY <1>1, MessagesStutter
<1>2. ASSUME NEW s \in Sends, NEW r \in RequestIds, SendMessage(s, r) PROVE MessagesInv'
  BY <1>2, SendMessageKeeps
<1>3. ASSUME NEW s \in Sends,
             \/ FindQuestion(s) \/ FindReply(s) \/ AddUserMessage(s) \/ Record(s)
      PROVE  MessagesInv'
  BY <1>3, FindQuestionKeeps, FindReplyKeeps, AddUserMessageKeeps, RecordKeeps
<1>4. ASSUME NEW s \in Sends, ReadHistory(s) \/ Fold(s) \/ FoldFails(s)
      PROVE  MessagesInv'
  BY <1>4, ReadHistoryKeeps, FoldKeeps, FoldFailsKeeps
<1>5. ASSUME NEW s \in Sends, RunGraph(s) \/ AddAssistantMessage(s) \/ StopSend(s)
      PROVE  MessagesInv'
  BY <1>5, RunGraphKeeps, AddAssistantMessageKeeps, StopSendKeeps
<1> QED BY <1>1, <1>2, <1>3, <1>4, <1>5 DEF MessagesNext

\* The invariant the theorems rest on, in every state of every behaviour.
THEOREM MessagesInvariant == MessagesSpec => []MessagesInv
<1>1. MessagesInit => MessagesInv
  BY MessagesStart
<1>2. MessagesInv /\ [MessagesNext]_messagesVars => MessagesInv'
  BY MessagesStep
<1> QED BY <1>1, <1>2, PTL DEF MessagesSpec

-------------------------------------------------------------------------------
(* What the runs check.                                                         *)

\* The messages, the summary and every send keep to their types: an answer refers to a user
\* message, and no summary covers what comes after its end.
THEOREM MessagesTypeCorrect == MessagesSpec => []MessagesTypeOK
<1>1. MessagesInv => MessagesTypeOK
  BY DEF MessagesInv
<1> QED BY <1>1, MessagesInvariant, PTL

\* The graph is given every message up to its question, in words or in the summary, however
\* many sends fold the history over one another, until a history outgrows HISTORY_LIMIT
\* (chat_runner.py _prepare_history, conversation_store.py save_summary).
THEOREM NothingIsForgotten == MessagesSpec => []NothingForgotten
<1>1. MessagesInv => NothingForgotten
  BY DEF MessagesInv, SendOK, NothingForgotten, InStep
<1> QED BY <1>1, MessagesInvariant, PTL

\* The message count of the conversation misses only what is being recorded, and what a send
\* that was cut short did not come to record (conversation_store.py record_message).
THEOREM MessagesAreCounted == MessagesSpec => []EachIsCounted
<1>1. MessagesInv => EachIsCounted
  BY DEF MessagesInv, Counted, Counting, EachIsCounted
<1> QED BY <1>1, MessagesInvariant, PTL

\* A question is answered a second time only by a send that had looked for the first answer
\* before it was stored (chat_runner.py send_message, find_reply).
THEOREM RepliedOnceUnlessUnderWay == MessagesSpec => SecondReplyWasUnderWay
<1>1. MessagesInv /\ [MessagesNext]_messagesVars =>
        [\A s \in Sends :
           InStep(s, "answer") /\ messages' # messages /\ send[s] # send'[s] =>
             \A i \in RepliesTo(send[s].question) : i > send[s].looked]_messagesVars
  BY DEF MessagesInv, SendOK, InStep
<1> QED BY <1>1, MessagesInvariant, PTL DEF MessagesSpec, SecondReplyWasUnderWay
================================================================================
