----------------------------- MODULE Conversations -----------------------------
(* The conversations a user has about one file, in chat-manager, and what they  *)
(* cost in payment-service: creation with a request id and its retries,         *)
(* deletion, and the deletion of the file (chat_servicer.py, quota.py,          *)
(* handlers.py, conversation_store.py). Each await is a step, and a handler may *)
(* be cut short between any two, by a client that leaves or a restart.          *)
EXTENDS Usage, FiniteSets

CONSTANTS
  Requests,  \* request ids of the clients
  MaxIds,    \* bound: conversations that get an id
  MaxCuts,   \* bound: calls, insertions and handlers that fail or are cut short, new months
  Consumer   \* the caller that handles file.deleted

Ids == 1..MaxIds

ASSUME ConversationsAssumption ==
  /\ Consumer \in Callers /\ MaxIds \in Nat /\ MaxCuts \in Nat /\ Ids \subseteq Amounts
  /\ Keys = ({"create"} \X Requests) \union ({"rollback", "delete"} \X Ids) \union {<<"event", 1>>}

VARIABLES
  rows,      \* conversations: <<id, request>>
  file,      \* "present"; gone and "announced": file.deleted is not acked; or "handled"
  handler,   \* what each caller's request is doing
  nextId,
  replies,   \* for the properties: <<id, request>> the clients were told
  born,      \* for the properties: conversations ever inserted
  mishaps,   \* for the properties: what sets usage and conversations apart. "lost": a call or a
             \* handler was cut short; "reused": a request was served whose charge had been
             \* paid back; "raced": conversations came or went while the file's were deleted
  cuts

chatVars == <<rows, file, handler, nextId, replies, born, mishaps, cuts>>
vars     == <<usageVars, chatVars>>

Free  == [step |-> "idle", request |-> "none", id |-> 0]
Steps == {"idle", "find", "scope", "charge", "insert", "winner", "rollback",
          "erase", "refund", "count", "release", "purge"}

TypeOK ==
  /\ UsageTypeOK
  /\ rows \subseteq Ids \X Requests /\ replies \subseteq Ids \X Requests /\ born \subseteq Ids \X Requests
  /\ \A x, y \in rows : x[2] = y[2] => x = y
  /\ file \in {"present", "announced", "handled"}
  /\ handler \in [Callers -> [step : Steps, request : Requests \union {"none"}, id : 0..MaxIds]]
  /\ nextId \in 1..MaxIds + 1 /\ mishaps \subseteq {"lost", "reused", "raced", "reset"} /\ cuts \in 0..MaxCuts

Init ==
  /\ UsageInit
  /\ rows = {} /\ file = "present" /\ nextId = 1
  /\ handler = [c \in Callers |-> Free]
  /\ replies = {} /\ born = {} /\ mishaps = {} /\ cuts = 0

At(c, step)   == handler[c].step = step
Goto(c, step) == handler' = [handler EXCEPT ![c].step = step]
Finish(c)     == handler' = [handler EXCEPT ![c] = Free]
Row(r)        == {x \in rows : x[2] = r}
Answer(x)     == replies' = replies \union {x}
ghosts == <<born, mishaps>>

-------------------------------------------------------------------------------
(* CreateConversation.                                                           *)

Create(c, r) ==
  /\ c # Consumer /\ At(c, "idle") /\ nextId <= MaxIds
  /\ handler' = [handler EXCEPT ![c] = [Free EXCEPT !.step = "find", !.request = r]]
  /\ UNCHANGED <<usageVars, rows, file, nextId, replies, ghosts, cuts>>

\* A request that was served is answered with its conversation.
FindByRequest(c) ==
  /\ At(c, "find")
  /\ LET found == Row(handler[c].request)
     IN  IF found = {} THEN Goto(c, "scope") /\ UNCHANGED replies
         ELSE Finish(c) /\ \E x \in found : Answer(x)
  /\ UNCHANGED <<usageVars, rows, file, nextId, ghosts, cuts>>

\* The file must exist; then the conversation gets its id and is charged for, under
\* a key made of the request.
AssertScopeExists(c) ==
  /\ At(c, "scope")
  /\ IF file = "present" /\ nextId <= MaxIds
     THEN /\ handler' = [handler EXCEPT ![c].step = "charge", ![c].id = nextId]
          /\ nextId' = nextId + 1
          /\ Begin(c, "consume", <<"create", handler[c].request>>, 1)
     ELSE Finish(c) /\ UNCHANGED <<usageVars, nextId>>
  /\ UNCHANGED <<rows, file, replies, ghosts, cuts>>

Charged(c) ==
  /\ At(c, "charge") /\ Return(c)
  /\ IF call[c].result = "allowed" THEN Goto(c, "insert") ELSE Finish(c)
  /\ UNCHANGED <<rows, file, nextId, replies, ghosts, cuts>>

PaidBack(r) == \E x \in born : x[2] = r /\ (x \notin rows \/ outcome[<<"rollback", x[1]>>] = "allowed")

\* Between a count of the file's conversations, or their release, and their deletion.
Purging == \/ handler[Consumer].step \in {"release", "purge"}
           \/ file = "announced" /\ outcome[<<"event", 1>>] = "allowed"
Racing  == IF Purging THEN {"raced"} ELSE {}

\* Mutant: the loser of two equal requests answers with the row it did not write.
InsertOrAnswer(c) ==
  /\ At(c, "insert") /\ Finish(c)
  /\ LET new == <<handler[c].id, handler[c].request>>
     IN  /\ Answer(new)
         /\ IF Row(new[2]) = {} THEN rows' = rows \union {new} /\ born' = born \union {new}
            ELSE UNCHANGED <<rows, born>>
  /\ UNCHANGED <<usageVars, file, nextId, mishaps, cuts>>

\* Mutant: the loser of two equal requests is treated like any other failure.
InsertOrRollback(c) ==
  /\ At(c, "insert")
  /\ LET new == <<handler[c].id, handler[c].request>>
     IN  IF Row(new[2]) = {}
         THEN /\ rows' = rows \union {new} /\ born' = born \union {new}
              /\ Finish(c) /\ Answer(new) /\ UNCHANGED usageVars
         ELSE /\ Goto(c, "rollback") /\ Begin(c, "release", <<"rollback", new[1]>>, 1)
              /\ UNCHANGED <<rows, replies, born>>
  /\ UNCHANGED <<file, nextId, cuts, mishaps>>

\* A request id has one conversation; the loser of two equal requests looks for the winner's.
Insert(c) ==
  /\ At(c, "insert")
  /\ LET new == <<handler[c].id, handler[c].request>>
     IN  IF Row(new[2]) = {}
         THEN /\ rows' = rows \union {new} /\ born' = born \union {new}
              /\ Finish(c) /\ Answer(new)
              /\ mishaps' = mishaps \union Racing \union (IF PaidBack(new[2]) THEN {"reused"} ELSE {})
         ELSE Goto(c, "winner") /\ UNCHANGED <<rows, replies, ghosts>>
  /\ UNCHANGED <<usageVars, file, nextId, cuts>>

FindWinner(c) ==
  /\ At(c, "winner") /\ Finish(c)
  /\ IF Row(handler[c].request) = {} THEN UNCHANGED replies
     ELSE \E x \in Row(handler[c].request) : Answer(x)
  /\ UNCHANGED <<usageVars, rows, file, nextId, ghosts, cuts>>

\* Mutant: the charge is kept.
InsertFailsUnpaid(c) ==
  /\ At(c, "insert") /\ cuts < MaxCuts /\ cuts' = cuts + 1 /\ Finish(c)
  /\ UNCHANGED <<usageVars, rows, file, nextId, replies, ghosts>>

\* Any other error gives the charge back, also when the row was written after all.
InsertFails(c) ==
  /\ At(c, "insert") /\ cuts < MaxCuts /\ cuts' = cuts + 1
  /\ Goto(c, "rollback")
  /\ Begin(c, "release", <<"rollback", handler[c].id>>, 1)
  /\ LET new == <<handler[c].id, handler[c].request>>
     IN  \/ /\ Row(new[2]) = {} /\ rows' = rows \union {new} /\ born' = born \union {new}
            /\ mishaps' = mishaps \union Racing \union {"reused"}
         \/ /\ mishaps' = mishaps \union {"reused"}
            /\ UNCHANGED <<rows, born>>
  /\ UNCHANGED <<file, nextId, replies>>

RolledBack(c) ==
  /\ At(c, "rollback") /\ Return(c) /\ Finish(c)
  /\ UNCHANGED <<rows, file, nextId, replies, ghosts, cuts>>

-------------------------------------------------------------------------------
(* DeleteConversation.                                                           *)

FindConversation(c, x) ==
  /\ c # Consumer /\ At(c, "idle") /\ x \in rows
  /\ handler' = [handler EXCEPT ![c] = [step |-> "erase", request |-> x[2], id |-> x[1]]]
  /\ UNCHANGED <<usageVars, rows, file, nextId, replies, ghosts, cuts>>

\* The deletion that removed the row pays it back, under a key made of its id.
DeleteConversation(c) ==
  /\ At(c, "erase")
  /\ LET x == <<handler[c].id, handler[c].request>>
     IN  IF x \in rows
         THEN /\ rows' = rows \ {x} /\ Goto(c, "refund")
              /\ Begin(c, "release", <<"delete", x[1]>>, 1)
              /\ mishaps' = mishaps \union Racing
         ELSE Finish(c) /\ UNCHANGED <<usageVars, rows, mishaps>>
  /\ UNCHANGED <<file, nextId, replies, born, cuts>>

\* A release that fails is logged.
Refunded(c) ==
  /\ At(c, "refund") /\ Return(c) /\ Finish(c)
  /\ UNCHANGED <<rows, file, nextId, replies, ghosts, cuts>>

-------------------------------------------------------------------------------
(* file.deleted.                                                                 *)

DeleteFile ==
  /\ file = "present" /\ file' = "announced"
  /\ UNCHANGED <<usageVars, rows, handler, nextId, replies, ghosts, cuts>>

\* The event is delivered until its handler succeeds.
Deliver ==
  /\ file = "announced" /\ At(Consumer, "idle") /\ Goto(Consumer, "count")
  /\ UNCHANGED <<usageVars, rows, file, nextId, replies, ghosts, cuts>>

\* Nothing is released when there is nothing to release.
CountScoped ==
  /\ At(Consumer, "count")
  /\ IF rows = {} THEN Goto(Consumer, "purge") /\ UNCHANGED usageVars
     ELSE Goto(Consumer, "release") /\ Begin(Consumer, "release", <<"event", 1>>, Cardinality(rows))
  /\ UNCHANGED <<rows, file, nextId, replies, ghosts, cuts>>

\* A release that fails has the event redelivered.
Released ==
  /\ At(Consumer, "release") /\ Return(Consumer)
  /\ IF call[Consumer].step = "answered" THEN Goto(Consumer, "purge") ELSE Finish(Consumer)
  /\ UNCHANGED <<rows, file, nextId, replies, ghosts, cuts>>

DeleteScoped ==
  /\ At(Consumer, "purge") /\ Finish(Consumer)
  /\ rows' = {} /\ file' = "handled"
  /\ UNCHANGED <<usageVars, nextId, replies, ghosts, cuts>>

-------------------------------------------------------------------------------

CallLost(c) ==
  /\ Lose(c) /\ cuts < MaxCuts /\ cuts' = cuts + 1
  /\ mishaps' = mishaps \union {"lost"}
  /\ UNCHANGED <<rows, file, handler, nextId, replies, born>>

\* The handler ends where it is; its call may have done its work.
CutShort(c) ==
  /\ ~At(c, "idle") /\ cuts < MaxCuts /\ cuts' = cuts + 1
  /\ Finish(c) /\ call' = [call EXCEPT ![c] = NoCall]
  /\ mishaps' = mishaps \union {"lost"}
  /\ UNCHANGED <<used, outcome, rows, file, nextId, replies, born>>

NewMonth ==
  /\ cuts < MaxCuts /\ cuts' = cuts + 1
  /\ mishaps' = mishaps \union {"reset"}
  /\ ResetMonthlyQuotas
  /\ UNCHANGED <<rows, file, handler, nextId, replies, born>>

CreateStep(c) == \/ FindByRequest(c) \/ AssertScopeExists(c) \/ Charged(c) \/ Insert(c)
                 \/ FindWinner(c) \/ InsertFails(c) \/ RolledBack(c)
DeleteStep(c) == DeleteConversation(c) \/ Refunded(c)
EventStep     == Deliver \/ CountScoped \/ Released \/ DeleteScoped

Next ==
  \/ \E c \in Callers : \/ \E r \in Requests : Create(c, r)
                        \/ \E x \in rows : FindConversation(c, x)
                        \/ CreateStep(c) \/ DeleteStep(c)
                        \/ CallStep(c) /\ UNCHANGED chatVars
                        \/ CallLost(c) \/ CutShort(c)
  \/ DeleteFile \/ EventStep \/ NewMonth

Spec == Init /\ [][Next]_vars

-------------------------------------------------------------------------------
(* Properties.                                                                   *)

Quiet == file # "announced" /\ \A c \in Callers : At(c, "idle")

\* A client is told of a conversation that was stored, and two of one request only
\* when the first was deleted in between (CreateConversation).
RepliesAreStored ==
  /\ replies \subseteq born
  /\ \A x, y \in replies : x[2] = y[2] /\ x # y => x \notin rows \/ y \notin rows

\* No conversation is free: the charge of a live one is not given back, by whom ever
\* requests, deletions and the event's redeliveries interleave.
NoFreeConversation ==
  Quiet /\ mishaps \cap {"reused", "raced", "reset"} = {} => used >= Cardinality(rows)

\* No charge is left over: what did not become a conversation or is deleted is paid back.
NoLostCharge ==
  Quiet /\ mishaps \cap {"lost", "raced"} = {} => used <= Cardinality(rows)

===============================================================================
