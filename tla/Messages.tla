-------------------------------- MODULE Messages --------------------------------
(* The messages of one conversation in chat-manager: a send stores its question,  *)
(* folds the older history into the running summary, lets the graph answer and    *)
(* stores the reply; a repeated request id replays the stored reply               *)
(* (chat-manager/src/services/chat_runner.py, conversation_store.py). Sends run   *)
(* side by side with no lock, each from the conversation as it read it at first.  *)
EXTENDS Integers, Sequences, FiniteSets

CONSTANTS
  Sends,        \* sends in progress at once
  RequestIds,   \* ids that clients give to their requests
  Threshold,    \* summary_threshold
  Keep,         \* keep_recent_messages
  HistoryLimit, \* HISTORY_LIMIT
  MaxMessages,  \* bound: messages of the conversation
  MaxSetbacks   \* bound: summaries that fail, and sends cut short

ASSUME MessagesAssumption ==
  /\ IsFiniteSet(Sends) /\ RequestIds # {}
  /\ Keep \in Nat \ {0} /\ Threshold \in Nat /\ HistoryLimit \in Nat
  /\ Keep <= Threshold /\ Threshold < HistoryLimit
  /\ MaxMessages \in Nat /\ MaxSetbacks \in Nat

Positions == 1..MaxMessages
Nothing   == 0

VARIABLES
  messages,  \* in the order of their timestamps
  summary,   \* the messages folded into the summary, and summarizedUntil
  count,     \* messageCount
  send,      \* what each send is doing
  setbacks,
  uncounted, \* messages whose record in the conversation was cut off
  overflowed \* a history was longer than HISTORY_LIMIT

messagesVars == <<messages, summary, count, send, setbacks, uncounted, overflowed>>

Message  == [role : {"user"}, request : RequestIds] \union [role : {"assistant"}, to : Positions]
Summary  == [covers : SUBSET Positions, until : Positions \union {Nothing}]
Unsummed == [covers |-> {}, until |-> Nothing]
SendSteps == {"idle", "find", "reply", "ask", "countQuestion", "history", "run", "answer", "countReply"}

Idle == [step |-> "idle", request |-> CHOOSE r \in RequestIds : TRUE, row |-> Unsummed,
         question |-> Nothing, looked |-> Nothing, prompt |-> {}]

MessagesTypeOK ==
  /\ messages \in Seq(Message) /\ Len(messages) <= MaxMessages
  /\ \A i \in DOMAIN messages : messages[i].role = "assistant" => messages[messages[i].to].role = "user"
  /\ summary \in Summary /\ summary.covers \subseteq 1..summary.until
  /\ count \in Nat /\ uncounted \in 0..MaxSetbacks /\ overflowed \in BOOLEAN /\ setbacks \in 0..MaxSetbacks
  /\ send \in [Sends -> [step : SendSteps, request : RequestIds, row : Summary,
                         question : Positions \union {Nothing}, looked : Positions \union {Nothing},
                         prompt : SUBSET Positions]]

MessagesInit ==
  /\ messages = <<>>
  /\ summary = Unsummed
  /\ count = 0
  /\ send = [s \in Sends |-> Idle]
  /\ setbacks = 0
  /\ uncounted = 0
  /\ overflowed = FALSE

-------------------------------------------------------------------------------
InStep(s, step) == send[s].step = step
MoveTo(s, step) == send' = [send EXCEPT ![s].step = step]
EndSend(s)      == send' = [send EXCEPT ![s] = Idle]

QuestionOf(r) == {i \in DOMAIN messages : messages[i].role = "user" /\ messages[i].request = r}
RepliesTo(q)  == {i \in DOMAIN messages : messages[i].role = "assistant" /\ messages[i].to = q}

Newest(positions, n) == {i \in positions : Cardinality({j \in positions : j > i}) < n}
Last(positions) == CHOOSE i \in positions : \A j \in positions : j <= i

\* The messages after the summary, up to the question; at most the newest HistoryLimit.
Unsummarized(s) == {i \in DOMAIN messages : send[s].row.until < i /\ i <= send[s].question}
History(s) == Newest(Unsummarized(s), HistoryLimit)
Overflow(s) == overflowed' = (overflowed \/ Cardinality(Unsummarized(s)) > HistoryLimit)

\* A send takes the conversation, and its summary, as it is now.
SendMessage(s, r) ==
  /\ InStep(s, "idle")
  /\ send' = [send EXCEPT ![s] = [Idle EXCEPT !.step = "find", !.request = r, !.row = summary]]
  /\ UNCHANGED <<messages, summary, count, setbacks, uncounted, overflowed>>

FindQuestion(s) ==
  /\ InStep(s, "find")
  /\ IF QuestionOf(send[s].request) = {}
     THEN send' = [send EXCEPT ![s].step = "ask", ![s].looked = Len(messages)]
     ELSE send' = [send EXCEPT ![s].step = "reply", ![s].question = Last(QuestionOf(send[s].request))]
  /\ UNCHANGED <<messages, summary, count, setbacks, uncounted, overflowed>>

\* Mutant: a stored question is answered again.
FindQuestionOnly(s) ==
  /\ InStep(s, "reply")
  /\ send' = [send EXCEPT ![s].step = "history", ![s].looked = Len(messages)]
  /\ UNCHANGED <<messages, summary, count, setbacks, uncounted, overflowed>>

\* A reply that is there is replayed; without one the send goes on with the stored question.
FindReply(s) ==
  /\ InStep(s, "reply")
  /\ IF RepliesTo(send[s].question) # {} THEN EndSend(s)
     ELSE send' = [send EXCEPT ![s].step = "history", ![s].looked = Len(messages)]
  /\ UNCHANGED <<messages, summary, count, setbacks, uncounted, overflowed>>

\* The request id is unique: a send that comes second to it takes the question of the first.
AddUserMessage(s) ==
  LET r == send[s].request
  IN /\ InStep(s, "ask") /\ Len(messages) < MaxMessages
     /\ IF QuestionOf(r) = {}
        THEN /\ messages' = Append(messages, [role |-> "user", request |-> r])
             /\ send' = [send EXCEPT ![s].step = "countQuestion", ![s].question = Len(messages) + 1]
        ELSE /\ send' = [send EXCEPT ![s].step = "history", ![s].question = Last(QuestionOf(r))]
             /\ UNCHANGED messages
     /\ UNCHANGED <<summary, count, setbacks, uncounted, overflowed>>

\* Mutant: the reply is counted with its question, whether it came or not.
RecordTwice(s) ==
  /\ \/ InStep(s, "countQuestion") /\ MoveTo(s, "history") /\ count' = count + 2
     \/ InStep(s, "countReply") /\ EndSend(s) /\ count' = count
  /\ UNCHANGED <<messages, summary, setbacks, uncounted, overflowed>>

\* The conversation counts a message after it was stored.
Record(s) ==
  /\ \/ InStep(s, "countQuestion") /\ MoveTo(s, "history")
     \/ InStep(s, "countReply") /\ EndSend(s)
  /\ count' = count + 1
  /\ UNCHANGED <<messages, summary, setbacks, uncounted, overflowed>>

ReadHistory(s) ==
  /\ InStep(s, "history") /\ Overflow(s)
  /\ Cardinality(History(s)) <= Threshold
  /\ send' = [send EXCEPT ![s].step = "run", ![s].prompt = @ \union History(s) \union send[s].row.covers]
  /\ UNCHANGED <<messages, summary, count, setbacks, uncounted>>

\* Mutant: the summary is made anew from the messages it replaces.
FoldAnew(s) ==
  LET older == History(s) \ Newest(History(s), Keep)
  IN /\ InStep(s, "history") /\ Overflow(s)
     /\ Cardinality(History(s)) > Threshold
     /\ summary' = [covers |-> older, until |-> Last(older)]
     /\ send' = [send EXCEPT ![s].step = "run", ![s].prompt = History(s) \union older]
     /\ UNCHANGED <<messages, count, setbacks, uncounted>>

\* All but the most recent messages are folded into the summary this send knows, and take the
\* place of whatever another send saved meanwhile.
Fold(s) ==
  LET older == History(s) \ Newest(History(s), Keep)
      known == send[s].row.covers \union older
  IN /\ InStep(s, "history") /\ Overflow(s)
     /\ Cardinality(History(s)) > Threshold
     /\ summary' = [covers |-> known, until |-> Last(older)]
     /\ send' = [send EXCEPT ![s].step = "run", ![s].prompt = History(s) \union known]
     /\ UNCHANGED <<messages, count, setbacks, uncounted>>

Setback == setbacks < MaxSetbacks /\ setbacks' = setbacks + 1

\* The model gives no summary: the send goes on with the history as it is.
FoldFails(s) ==
  /\ InStep(s, "history") /\ Overflow(s)
  /\ Cardinality(History(s)) > Threshold
  /\ Setback
  /\ send' = [send EXCEPT ![s].step = "run", ![s].prompt = History(s) \union send[s].row.covers]
  /\ UNCHANGED <<messages, summary, count, uncounted>>

\* The graph answers, or fails and tells the client to try again.
RunGraph(s) ==
  /\ InStep(s, "run")
  /\ MoveTo(s, "answer") \/ EndSend(s)
  /\ UNCHANGED <<messages, summary, count, setbacks, uncounted, overflowed>>

\* Mutant: the reply refers to the newest message of the conversation.
AddAssistantMessageToLast(s) ==
  /\ InStep(s, "answer") /\ Len(messages) < MaxMessages
  /\ messages' = Append(messages, [role |-> "assistant", to |-> Len(messages)])
  /\ MoveTo(s, "countReply")
  /\ UNCHANGED <<summary, count, setbacks, uncounted, overflowed>>

AddAssistantMessage(s) ==
  /\ InStep(s, "answer") /\ Len(messages) < MaxMessages
  /\ messages' = Append(messages, [role |-> "assistant", to |-> send[s].question])
  /\ MoveTo(s, "countReply")
  /\ UNCHANGED <<summary, count, setbacks, uncounted, overflowed>>

\* The client goes away, the process stops, or a call throws.
StopSend(s) ==
  /\ ~InStep(s, "idle")
  /\ Setback
  /\ uncounted' = IF send[s].step \in {"countQuestion", "countReply"} THEN uncounted + 1 ELSE uncounted
  /\ EndSend(s)
  /\ UNCHANGED <<messages, summary, count, overflowed>>

-------------------------------------------------------------------------------
MessagesNext ==
  \E s \in Sends :
    \/ \E r \in RequestIds : SendMessage(s, r)
    \/ FindQuestion(s) \/ FindReply(s) \/ AddUserMessage(s) \/ Record(s)
    \/ ReadHistory(s) \/ Fold(s) \/ FoldFails(s) \/ RunGraph(s) \/ AddAssistantMessage(s)
    \/ StopSend(s)

MessagesSpec == MessagesInit /\ [][MessagesNext]_messagesVars

-------------------------------------------------------------------------------
(* Properties.                                                                 *)

\* "older messages live on in the summary" (conversation_store.py:13): the graph is given, in
\* words or in the summary, every message up to its question, however sends overwrite one
\* another's summaries; they are only lost once more than HISTORY_LIMIT are unsummarized,
\* which takes summaries that fail, or sends that others overtake.
NothingForgotten ==
  \A s \in Sends : InStep(s, "run") => overflowed \/ 1..send[s].question \subseteq send[s].prompt

\* "a repeated request_id replays the stored reply" (chat-manager/README.md:5): a question gets
\* a second reply only from a send that looked for the first before it was stored.
SecondReplyWasUnderWay ==
  [][\A s \in Sends :
       InStep(s, "answer") /\ messages' # messages /\ send[s] # send'[s] =>
         \A i \in RepliesTo(send[s].question) : i > send[s].looked]_messagesVars

\* The conversation's count is its number of messages, but for those a send still has to
\* record, and those whose send stopped just before.
EachIsCounted ==
  Len(messages) = count + uncounted + Cardinality({s \in Sends : send[s].step \in {"countQuestion", "countReply"}})
================================================================================
