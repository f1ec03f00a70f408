# RagSpace: TLA+ specifications

Specifications of the parts of RagSpace whose correctness depends on the order in which
services, tasks, messages and failures meet: TLA+ modules, TLC configurations that
model-check them on small instances, and TLAPS proofs of the main results for every instance.
Paths are relative to the root of the repository. `PROJECT.json` maps each definition to the
lines it models.

## 1. The system

RagSpace lets users upload videos, images and audio, indexes them, and answers questions
about them. Services talk by gRPC, and by events over RabbitMQ.

| Component | State it keeps | Operations | Modelled |
|---|---|---|---|
| upload-manager, processing state (`upload-manager/src/files/processing.ts`, `files.service.ts`) | stage, status, retry count of a file row | fold a `file.stage_changed`, reprocess, delete | `Processing`, `Pipeline` |
| upload-manager, uploads (`files.service.ts`) | upload status, S3 session and object, storage charged | create, complete, abort, delete, sweep, import, purge | `Uploads` (not import, purge) |
| upload-manager, collections (`collections/collections.service.ts`) | forest of collections, membership | create, move, delete, add, remove | `Collections` |
| scene-detector | tasks in memory, scenes | detect, retry, cancel, purge | `Pipeline` (tasks), `Indexing` (scenes) |
| file-embedder | tasks in memory, `_transcriptions`, Chroma, deletion tracker | transcribe, wait, index, retry, purge | `Pipeline` (tasks, `_transcriptions`), `Indexing` (index, tracker) |
| event bus (`packages/shared-ts/src/events/bus.ts`) | durable queues, attempts per message in memory | publish, dispatch, retry, dead-letter | `EventBus`, `AtLeastOnce` |
| event bus, Python (`packages/shared-py/ragspace_shared/events/bus.py`) | same | same | `EventBus` |
| payment-service, usage (`usage/usage.service.ts`) | quotas, idempotency keys | consume, release, monthly reset | `Usage`, `IdempotentCalls`; expiry of keys in `Uploads` |
| payment-service, subscriptions (`subscription/`, `webhook/`, `billing/`) | subscriptions, scheduled changes, webhook log, checkouts to poll | create, change plan, cancel, pause, resume, purge, webhooks, cron jobs | `Subscriptions` |
| chat-manager, conversations (`rpc/`, `handlers.py`) | conversations, their charge | create, delete, `file.deleted` | `Conversations` |
| chat-manager, messages (`services/chat_runner.py`, `conversation_store.py`) | messages, running summary, count | send, replay | `Messages` |
| api-gateway | session cache, rate windows, live event streams | resolve, evict, hit, stream | `LiveFiles` (event stream) |
| frontend (`hooks/useFileEvents.ts`) | the list of files in a tab | fetch, patch, reconnect | `LiveFiles` |
| auth-service | accounts, sessions (kept by a library) | delete user | no: one step |
| search, LLM graph, REST mapping, contracts, deployment, pages of the frontend | none that outlives a request | | no |

**How they interact.** upload-manager charges storage in payment-service, keeps the object in
S3, and publishes `file.uploaded` when an upload is complete. scene-detector and file-embedder
each consume it and start a task: scenes are detected while the sound is transcribed.
scene-detector then publishes `file.scenes_detected`; file-embedder waits for its
transcription and indexes the scenes. Both report by `file.stage_changed`; upload-manager is
the only writer of the row, and publishes `file.updated`, which api-gateway forwards to the
open tabs. chat-manager charges a conversation in payment-service and answers from the index.
payment-service creates subscriptions at a provider (LemonSqueezy or Razorpay) and learns of
payments by webhooks. Deletions go out as `file.deleted`, `collection.deleted`,
`user.deleted`; `user.created` gives a new user a free subscription.

**What is hard.** Every queue is at-least-once, and a consumer handles up to ten deliveries at
a time. Handlers read a row, decide, and write it unconditionally later. The workers ack an
event once a task is started, so a crash loses the task. A user may reprocess a file while
jobs of an earlier run are alive, or delete it while its scenes are being written. Row, S3 and
quota, or subscription and provider, are changed by separate calls with no transaction,
while other requests, webhooks and cron jobs act on the same rows. Idempotency keys expire.
Webhooks come late, twice, and in any order. `PROJECT.json` lists these hazards with their
lines and the properties on them.

**What makes each component correct.** *Processing*: a row claims an outcome only if a run
reached it; fresh decisions move forward; status and stage agree; files settle. *Workers*: scenes
are indexed after the transcript; nothing of a deleted file stays. *Event bus*: every accepted
message is handled, refused or dead-lettered, by exactly one owner at a time, with boundedly
many attempts. *Uploads*: a completed file has its object, storage is charged only for files
that are there and given back once, an abandoned upload ends. *Collections*: the forest stays a
forest, and every collection that goes is announced. *Usage*: each key is decided once.
*Subscriptions*: the provider charges for nothing unknown, who pays is served, and what ended is
not. *Conversations*: none is free, none is paid for after it is gone. *Messages*: the model
forgets nothing, a repeated request is answered once. *Live files*: once all is delivered a tab
shows the files as they are.

## 2. Modules

**`Processing`**: `nextProcessingState` as operators. The code reads a row, computes a partial
update, and writes it later, so the two halves are separate: `Ignored(seen, change)` says no
update is made, `Applied(row, change)` is the row after the update. Error messages, times and
enrichment are left out.

**`Pipeline`** extends it with everything that happens to one file from `file.uploaded` on.

| Variable | In the code |
|---|---|
| `present`, `row` | the file row and its processing columns |
| `run` | deliveries of `file.uploaded`: the upload, reprocess requests, redeliveries |
| `queue`, `handler` | `files.events`, and the deliveries in progress: `Deliver`, `ReadRow` (up to line 362 of `files.service.ts`), `WriteRow` (364), `Interrupt`, `Requeue` |
| `job[j][r]` | the task of run r: the detector's, the embedder's media task, its scene indexer |
| `transcription`, `awaits`, `late` | `_transcriptions`, the task `_index_scenes` took out of it, the indexers that timed out |

States of a job: `waiting` (before the existence check, or for a transcription), `ready` (an
attempt is about to start), `working`, `found` (detector: INDEXING reported, scenes not yet
announced), and the ends `announced`, `empty`, `done`, `failed`, `skipped`, `lost`.
`DetectorEnds` keeps the order of `scene_processor.py`: the report first, the announcement
after it. `Fail` keeps the difference between the two services: the detector reports its last
failure in any case with a retry count of 0, the embedder only for a file that exists.

**`AtLeastOnce`** is what the bus promises of a queue: a message that was taken is held until
it was handled, refused for good, or failed often enough. **`EventBus`** is one durable queue
with its replicas, their channels, prefetch, attempt counters in memory, crashes and lost
channels; an orphaned handler goes on after its channel is gone. `bus` says in
which language the consumer is written: in Python the ack of such a handler raises and counts as its
first failure (`AckRaises`), in TypeScript it does nothing. `Promise` is the refinement:
`ready` and `unacked` are *held*, and a message is *handled* once its handler took effect.

**`Uploads`**: one file is row, session, object, and charge; requests and the sweeper are
actors whose program counter names the next awaited call. `Interrupt` is a crash or a throwing
call before any step, `CallIgnored` a failing call the code only logs, `ExpireKey` the hourly
removal of idempotency keys older than a day.

**`Collections`**: `parent` is the tree, `op[a]` what a request has read and still has to do. A
move reads the descendants and writes later; a delete lists its tree, reads and erases the files
batch by batch, drops the root with a cascade, and announces what it listed. `Tree` is what the
recursive SQL query finds; on a cycle the query does not end (`QueryEnds`), and a request that runs it
is `hung`.

**`Indexing`**: one video, by the run that wrote each thing. `rows` are the scenes in the
detector's table, `index[c]` the chunks of each kind. Detector, media and indexer tasks are
cancelled where they await; `marks` is the in-memory tracker each write looks at; `purge[s]` is how
far a service is with a deletion (file-embedder purges twice, the second time deferred). The two
deletions differ: `file.deleted` cancels tasks, `user.deleted` in scene-detector does not.

**`IdempotentCalls`** is what payment-service promises of calls under a key, and **`Usage`** how
`consume` and `release` keep it: lookup, transaction, the unique key that makes one of two racing
calls fail, the second read of its loser, answers that are lost. `Calls` is the refinement: a call
is *asked* until it returned or failed, and *answered* when the answer is on its way out.

**`Conversations`** extends `Usage` with the clients of these calls. A handler's `step` names its
next await: find by request id, check of the file, charge, insertion, the loser's search for the
winner, the roll-back of its charge; erase and refund; and the consumer's count, release and
purge. `CutShort` ends a handler anywhere with its call's work done or not.

**`Messages`**: `messages` in the order of their timestamps, the `summary` with the messages it
stands for (`covers`, which the code cannot see) and `summarizedUntil` (which it can), and sends
that carry the conversation as read at their start (`row`) through every later await.

**`Subscriptions`**: `rows` are payment-service's subscriptions of one user, `provider` the
provider's view of them, `mail` the webhooks not yet acknowledged, `log` the dedupe keys. A handler
of the code reads rows at its start and then awaits writes and calls one by one; here it decides a
list of effects at its start (`job[a].todo`) and carries them out one per step, with the code's
reaction to a failing call (throw, log, take the schedule back). Every operation is such a list:
`CreateSubscription`, `ChangePlan`, `Cancel`, `Pause`, `Resume`, `CancelScheduled`, `PurgeUser`, one
per webhook of either provider, and the two cron jobs. `Outcome` and `News` are the provider: what
an operation does to a subscription there and which webhooks it sends. A purge cancels in the order
the database lists the rows, which is any.

**`LiveFiles`**: a row's versions, the update each write owes (`unsent`), the exclusive queue of the
gateway, its side of the stream (subscribe, read a snapshot, send it, then what arrived meanwhile),
the connection (`wire`), and the tab: its list, its request for the list, and whether its stream
was open before (a reopened stream refetches).

Some variables exist for the properties only and no guard reads them: `mishaps`, `stray`,
`uncounted`, `overflowed`, `unsaid`, `missed`, `orphaned`, `stale`, `late`, `replies`, `born`. They
record the event that a property names as the one exception the code allows.

**Composition.** `Pipeline` composes processing state, queue and the jobs of both workers;
`Conversations` composes chat-manager with `Usage`; `Indexing` both workers with the deletions of
upload-manager; `Subscriptions` payment-service with a provider; `LiveFiles` upload-manager,
gateway and tab.

`MCPipeline`, `MCEventBus`, `MCUploads`, `MCSubscriptions`, `MCIndexing`, `MCConversations`,
`MCMessages`, `MCCollections` give model values, symmetry and state constraints; `LiveFiles` runs as
it is. A definition preceded by the comment *Mutant* is not part of a specification: it is the
changed form of the one after it that `PROJECT.json` names, kept to show that a property can fail.

## 3. Runs

| Run | Shows | Bounds | Distinct states |
|---|---|---|---|
| `pipeline` | `TypeOK`, `StatusFitsStage`, `OutcomeWasReached`, `ScenesWaitForTranscript`, `FreshWritesMoveForward` | 2 runs, 2 handlers, every fault, queue 2, 1 interrupt or 1 crash; calm second run | 836 804 |
| `pipeline_serial` | `ForwardOnly`, `Settles` | 1 run, 1 handler, detector and indexer fail, 2 attempts, 1 interrupt | 69 791 |
| `pipeline_forward_only` | `ForwardOnly` is violated | 2 handlers | |
| `event_bus` | `TypeOK`, `OneOwner`, `PoisonIsBounded`, refinement of `AtLeastOnce`, `EveryMessageSettles` | both libraries, 2 replicas, 2 messages, prefetch 1, 2 attempts, 1 fault | 252 886 |
| `uploads` | `TypeOK`, `CompletedHasObject`, `ChargedHasRow`, `ReleasedAtMostOnce` | 2 requests, sweeper, 2 file ids of one request id, 1 cut | 850 372 |
| `uploads_end` | `UploadsEnd` | 2 requests, sweeper, 1 file, 2 cuts, 1 expired key | 105 782 |
| `billing` | `TypeOK`, `NoUnknownCharge`, `EndedIsNotServed`, `PaidIsServed` | both providers, 2 subscriptions, 2 handlers, 3 plans, 2 events, 1 period end | 894 102 |
| `indexing` | `TypeOK`, `DeletedLeavesNothing`, `DeletedHasNoScenes`, `IndexedScenesExist`, `DeletionEndsInNothing` | 2 runs, 2 attempts, file or user deleted, 1 restart | 516 376 |
| `chat` | `TypeOK`, `RepliesAreStored`, `NoFreeConversation`, `NoLostCharge`, refinement of `IdempotentCalls` | 2 clients and the consumer, 2 request ids, 3 conversations, limit 2, 1 cut | 976 572 |
| `messages` | `MessagesTypeOK`, `NothingForgotten`, `EachIsCounted`, `SecondReplyWasUnderWay` | 2 sends, 3 request ids, threshold 2, keep 1, history 4, 6 messages, 1 setback | 2 263 235 |
| `live_files` | `TypeOK`, `TabConverges` | 1 file, 3 versions, the last terminal, queue 2 | 847 735 |
| `collections` | `TypeOK`, `GoneAreAnnounced`, `OnlyStaleMovesCloseCycles` | 2 requests, 3 collections, 1 file, batch 1 | 361 695 |

**Why the bounds are enough.** The races are between two actors: two handlers give the stale
read, two runs give a report of an old run over a new row and the replacement in
`_transcriptions`, two requests plus the sweeper give every pair of operations on a file, two
replicas give uncoordinated counters, two sends give the summary that overwrites another.
- `pipeline`: a queue of two lets reports of two jobs be pending and be reordered by a requeue.
  `MaxInterrupts` stays below the bus's five attempts, so a report is never dead-lettered in
  `Pipeline`; `EventBus` has that case. `MaxAttempts` is 1 because the embedder's default is 1
  (`max_processing_retries`), and 2 in `pipeline_serial` for the retry path. `OneMishap` keeps an
  interrupt and a crash apart. `CalmSecondRun` is the price of overlapping runs in one instance: while a
  second run is there nothing is interrupted or crashes, and one report at a time is queued or in
  a handler; for a video no job failed either. Every stage of the first run still meets every
  stage of the second, and old reports still meet the new row; the first run alone meets every
  fault with two handlers. What the constraint leaves out is covered by the theorems of section 4,
  which have no bounds.
- `event_bus` checks with two attempts what the code does with five; `PoisonIsBounded` is stated
  for any number.
- `billing`: two subscriptions are the one that is replaced and the one that replaces it. Two events let
  a user act twice, or act once and meet a failing call. One period end reaches every scheduled
  change, since one is never scheduled further than the end of the period.
- `indexing`: two runs are the rows that are replaced and those that replace them; a third does
  what the second does. One restart of either service falls between any two steps.
- `chat`: two clients with one request id give the race for it, three ids leave one for a creation
  after a deletion; a limit of two is reached. `messages`: six messages are three
  questions with replies, so a summary is made twice and made twice at the same time; a history limit of four,
  just above what a summary leaves, is exceeded when a summary fails.
- `live_files`: versions 0 to 2 are one state that is overwritten and one that is terminal, which
  the snapshot leaves out; files do not interact, so one is enough. `collections`: the
  shortest cycle two moves can close has two collections, and the third is the one they move from.

Deadlock is not checked: all these systems stop when users have nothing left to ask and faults are
used up.

**Fairness.** In `Pipeline`: a handler that can take a step does (the broker keeps
delivering, promises resolve, the backoff timer fires), and the tasks of a run go on (each is
scheduled by asyncio; slots of the semaphore are released on every path). Progress reports,
timeouts, faults, crashes, users owe nothing. In `EventBus`: the broker hands out ready messages,
and a handler returns or raises. In `Uploads`: an accepted request goes on, and the
cron job meets a stale upload again and again. Clients owe nothing: an abandoned upload is the
case `UploadsEnd` is about. In `Indexing`: events of a deletion are delivered and a purge that
began goes on; indexing tasks owe nothing. The other modules state safety only and no fairness.

**What the violation shows.** *Forward only* (`files.service.ts:364`). Two deliveries read the row;
the one with the later stage writes first; the other, decided on the old row, moves it back, or
reopens a completed file. The documents say the consumer applies changes forward-only and ignores
late reports. With one delivery at a time it does (`pipeline_serial`).

**Where the code gives less than a reader may expect.** These showed up while the properties were
stated; each is the exception a property names, and has no run of its own.
- *Deduplication* (`bus.ts:143`). The contract says consumers dedupe on the id of an envelope
  (`events.proto:10`); none does. A crash between effect and ack handles the event twice.
- *Release* (`usage.service.ts:120`). Keys are removed after a day: the sweeper and a later delete
  both release. `ReleasedAtMostOnce` therefore allows one more release per expired key.
- *Abort* (`files.service.ts:270`). An abort that overtakes a completion removes the row and
  keeps the object, which nothing refers to any more.
- *Provider calls that are only logged* (`subscription.service.ts:183`, `:485`): the row forgets a
  subscription that goes on charging (`slipped` in `NoUnknownCharge`). A row made while the user's
  rows are being erased is left behind (`erased`).
- *Lower tier early*: `subscription.updated` writes the plan the provider reports, so a scheduled
  downgrade may lower the limits before the period ends.
- *A deleted user*: the character registry of a video may be written again after the purge, and
  scene-detector, which cancels nothing on `user.deleted`, stores scenes again (`DeletedLeavesNothing`,
  `DeletedHasNoScenes`).
- *Summaries that fail*: once more than `HISTORY_LIMIT` messages are not summarized the oldest are
  neither in the prompt nor in the summary (`overflowed` in `NothingForgotten`).
- *The deletion of a file's conversations* counts, releases and deletes in three steps: what is created
  or deleted in between is charged wrongly (`raced`). A
  creation served again under its request id after it was paid back is free (`reused`).
- *Two moves at a time* close a cycle, which the recursive queries then follow for ever (`stale`).
- *An update published behind a later one* leaves a tab with the older state until the next fetch (`unsaid`).

**What the passing runs leave out on purpose.** `Settles` holds in a world without media
faults, failing calls, crashes and overlapping runs, and the code does not give more: a failed
transcription is un-failed by a later report of the detector and the indexer, which skips
silently, leaves the file INDEXING; a failed `GetFile` ends the indexer's task unreported; a
crash after the early ack loses the task; a publication that fails after the reset of a
reprocess leaves a row in progress. No document promises otherwise; a user can reprocess the
file after 30 minutes. `UploadsEnd` says the row leaves UPLOADING, not that
it is consistent with a completion that raced the sweeper: the sweeper may overwrite a row just
completed, or a completion may follow the release of its storage.

## 4. Proofs

Everything below is checked by TLAPS for all values of the constants that the modules' named
assumptions allow. These say what the code gives, and hold in the runs, where TLC evaluates them:
`HandlersAssumption`, `ScopeAssumption`, `BoundsAssumption` (`Pipeline`: some handler, faults of the
listed kinds, natural bounds); `SetsAssumption`, `AttemptsAssumption`, `BoundsAssumption`
(`EventBus`: finitely many messages and replicas, at least one attempt); `FilesAssumption`,
`SweeperAssumption`, `RequestOfAssumption`, `BoundsAssumption` (`Uploads`: the cron job is not a client, a
file id belongs to one request id); `UsageAssumption`, `ConversationsAssumption` (amounts are naturals,
the keys are those the handlers build); `MessagesAssumption` (finitely many sends, and
0 < keep <= threshold < history limit, as in `chat-manager`'s settings); `CollectionsAssumption`
(the root and the absent parent are no collections, a batch is not empty); `IndexingAssumption`;
`LiveAssumption`; `PlansAssumption`, `GatewaysAssumption`, `SubsAssumption`, `BoundsAssumption`
(`Subscriptions`: the free plan 0 and the plan 1 that is paid for at first are among the plans, the providers are the
two there are, and `NoSub` is none of their subscriptions). A bound such as `MaxQueue` or `MaxFaults` is
an arbitrary number in the proofs,
while the runs fix it.

The proofs have one pattern. The invariant of a component is a conjunction of named parts, written
above its first lemma; a lemma for each action says that the action keeps all of them, a
`...Step` lemma collects the actions of `Next`, and the theorems follow from the invariant.
Each invariant was model-checked on the instance of a run before it was proved.

**`PipelineProofs`**
- `TypeCorrect`: `Spec => []TypeOK`. One lemma per group of actions: `HandlerTypes`, `UserTypes`,
  `TaskTypes`, `RunTypes`, `CrashTypes`, and facts on `Send`, `Move`, `Report` used by all.
- `StatusFits`: `Spec => []StatusFitsStage`. `RowSteps` shows that the row changes only to
  `FreshState`, or to `Applied(row, change)`; both keep status and stage in agreement,
  whatever row the decision was taken on, because `Applied` takes the status from the stage.
- `OutcomeReached`: `Spec => []OutcomeWasReached`. Not inductive: a row gets its outcome from
  a report written earlier. The inductive invariant is `OutcomeInv`: the property itself, and
  `QueueBacked` and `HandlersBacked`, every report in the queue and in the hands of a handler
  that would lead to an outcome is backed by a run that reached it. It is preserved because
  finished and failed jobs stay so (`FinalStays`, `OutcomeStays`): crashes and cancellations touch
  only tasks that are alive.
- `FreshWrites`: `Spec => FreshWritesMoveForward`. The invariant is `UpdateWanted`: a handler about
  to write has a change that is not ignored for the row it saw; `AppliedForward` turns that
  into a forward step when the row is still the one seen.
- `SerialIsForwardOnly`: with a single handler `Spec => ForwardOnly`, also when runs overlap. Between its read
  and its write only a reprocess can change the row (`SeenOrReset`), and what services report is never a stage
  before the one a reprocess resets to (`ReportsOnly`), so a late write over a reset row moves it forward.
- `ScenesWait`: `Spec => []ScenesWaitForTranscript` for any number of overlapping runs. The invariant
  `WaitInv` adds `StartedInOrder` (runs start in order), `RegisteredIsAlive` (the task in
  `_transcriptions` has not ended, which is what the guarded callback of `handlers.py:49` is for),
  `StartedIsKept` (a started transcription, or a later run's, is registered or over),
  `Roles`, and `WaitsForItsRun` (an indexer waits for the task of its run or a later one, or there
  was none to wait for).

**`EventBusProofs`**
- `EveryMessageHasOneOwner`: `Spec => []OneOwner`. `Ownership` in `BusInv` says why: a live dispatch
  is of an unacked message, an unacked message has one, and of two dispatches of one message at
  least one lost its channel, in different disconnects (`OneEach`). Without the last part two
  orphans could become one in the set of dispatches.
- `BusImplementsAtLeastOnce`: `Spec => AtLeastOnceHandling`, step by step (`PromiseStep`). A dispatch
  that acks after its handler took effect maps to the abstract handling (`HandledTookEffect`), a
  refusal or a dead-letter to giving up, which needs the counter in memory to be no more than the
  failures there were (`AttemptsFailed`); everything else stutters.
- `PoisonEnds`: `Spec => []PoisonIsBounded`. The counters are per replica and in memory, so the bound
  on the runs of a poisonous message is a count: `Explained(m)` says that the failures of m are at
  most what the crashes forgot, plus a full count for each lost channel whose orphans are done
  (`Over`: an orphan may drop a counter), plus what the counters remember now. Each step adds
  to the left no more than to the right, which is arithmetic on cardinalities (`CounterGrows`,
  `CounterForgets`, `OverGrows`).

**`UploadsProofs`**: `StorageReleasedOnce`, `StorageIsCharged`, `CompletedKeepsObject`. `UploadsInv` has
two halves. On the money: an id not drawn is untouched, a creation before its insertion is alone
with its file, and a charge lies between `Floor` and `Ceiling`, which depend on whether the key of
the release is still known; a charge with no row in use is about to get one or to be given back, or
a cut is to blame (`ChargeAccounted`). On the objects: only a completed session leads to a completed
row or to `file.uploaded`, and a completed session keeps its object until somebody is about to erase
the row.

**`ChatProofs`**: the calls of `Usage`, the conversations that make them, and the messages.
- `UsageTypeCorrect`: `UsageSpec => []UsageTypeOK`; among the types is that the quota never goes
  below zero, which rests on `Less` (`WorkDecides`).
- `CallsImplement`: `UsageSpec => CallsAreIdempotent`, that the keyed calls implement
  `IdempotentCalls`. Each step maps to a step of the abstract specification or to none: `Begin` to
  `Ask`, the transaction to `Decide` (`TransactStep`, with `DeniedChangesNothing`), `Lookup` of a
  decided key, `Reread` and `Reply` to `Answer` (`AnswerStep`), `Lose` and `Return` to `Leave`. The
  inductive invariant is `UsageInv`: `KnowsItsOutcome`, a caller about to be told a
  result holds the one its key was decided with, and a loser of the race for a key only rereads a key
  that is decided. Without it `Reply` could answer anything.
- `ConversationCallsImplement`: the same for the `Spec` of `Conversations`, where the handlers make the
  calls and a client or a restart abandons one at any step (`CutShort` maps to `Leave`).
- `RepliesStored`: what `ConvBase` says of each handler (`Roles`, `Calling`: the call in progress is the
  one the handler awaits, under its key), of ids (`IdsAreGiven`, `Fresh`) and of keys (`SpentKeys`).
- `NoConversationIsFree`, `NoChargeIsLost`: bounds of the counter from below and above in every state, of
  which the properties are the quiet case. `ChargesCover`: what was ever charged is in the counter,
  or was given back for a conversation that is gone, or is being given back by the event.
  `ChargesBounded`: what is in the counter is for a conversation, for one about to be stored
  (`Held`), or for a release under way (`Backs`). Each step changes the counter and these sets
  together (`ChargeDecides`, `BackDecides`, `EventDecides`), unless the property's exceptions happened.
- `NothingIsForgotten` rests on `Whole`: a summary, stored or carried by a send, stands
  for all messages up to its end. It is kept because a send folds what it read onto the row it read,
  both from one moment (`HistoryAndSummary`), however old it is when it is written.
- `MessagesAreCounted` says how far `count` is behind: `Counted` relates it to the
  number of sends between a message and its count, by the cardinality of their set.
- `RepliedOnceUnlessUnderWay` needs `looked`, in `SendOK`: replies a send did not see came after it looked.

**`CollectionsProofs`**: `DeletionsAreAnnounced` and `OnlyStaleMovesCycle`, on trees of any depth.
`Tree(c)` is the least set that has c and is closed under children, so facts about it need no induction: a
set with both properties contains it, and a step is followed by naming that set. `Listed` says
that whatever is below a listed collection is listed or joined late; `Moving` that the check of a
move still holds unless another was written since.

**`IndexingProofs`**: `DeletedLeavesTheIndex`, `DeletedLeavesTheTable`, `IndexFollowsTheTable`. `Base` is
the types, `OneRunAtATime` and `DeletionIsKnown`. `EmbedderStops` says which tasks are left once a service
knows of the deletion, and why none of them writes: the tracker is marked, or the file is not
found; `DetectorStops` the same of scene-detector, but for the stray tasks.
`OneAfterTheOther` orders the stages of a run, so that nobody replaces the rows while
the index is written (`ScenesOfTheList`).

**`LiveFilesProofs`**: `TabsConverge`, for any number of files that share one queue and one
stream. `LiveInv` reads what is on its way from its far end: queue, updates held back, connection, and the
snapshot before them. `LastIsRight` says that the last of these that speaks of a file has its
latest version, unless it was never told; `WillKnow` that something still brings the tab that
version, or that it shows it. `SnapshotFirst` (a stream opens, brings one snapshot, then updates) is
what keeps a snapshot from undoing an update.

**`SubscriptionsProofs`**: `BillingTypeCorrect`, `NothingIsChargedUnknown`, `EndedIsOver`, `WhoPaysIsServed`,
for any number of handlers, subscriptions, plans and billing periods. None of the properties is
inductive, because a handler decided what it does on rows that others have changed since; `BillingInv`
says what its remaining effects may still do wrong.
- `Sound` is about the effects a handler has left, against the rows and the provider as they are now.
  `Careful`: it takes a subscription that goes on being charged off its row only if cancelling it is its
  next effect, and ends a row only after the provider agreed. `Told`: it writes CANCELLED if the provider
  agreed or said so. `Purging`: before it erases rows it cancels what they name. `OfBorn`: it makes a row only
  of what was paid. `InPlace`: the acknowledgement and the erasure come last.
- `Covered`: what is paid for has a row, or is about to be cancelled, or its first webhook is still to
  be processed and every handler of it still makes the row, or an exception the property names happened.
  `EndIsNews`: a row of what is over has its last webhook still to be processed, and every handler of it
  still clears the row.
- These hold because of what webhooks say (`SaysSo`) and because the dedupe log swallows none that matters
  (`DedupeIsSafe`: the key of a first or last webhook is used once). `RowsAreUnique`, `EndedIsCleared` and
  `Unborn` relate rows to subscriptions; `RowStands` says that a row of what goes on
  being charged is neither cancelled nor scheduled to end.
- What a handler decides is put together from pieces, each sound by itself (`Piece`, `StartKeeps`), so an
  operation is proved by naming its pieces; what the provider does is one relation on its view
  (`Evolves`), so that a lemma on it serves calls, customers and the end of a period. That a purge
  misses no row (`ListedAll`) is a count: a list as long as a finite set, without repetition, has all of it.

**Only model-checked.** Liveness (`Settles`, `EveryMessageSettles`, `UploadsEnd`,
`DeletionEndsInNothing`): liveness under fairness and ENABLED are beyond the installed provers.
Every other property of the passing runs is a theorem.

## 5. Not modelled, and abstractions

- `Pipeline`: a publication either happens or fails; one that times out and reaches the queue all the
  same, after which the job reports again, is modelled only in `EventBus`. A failed progress report is left out as if never
  sent, a failing report of an attempt's result is a failing attempt, and a report of a failure that cannot be
  published ends the task in silence. Reports without a stage (thumbnail, enrichment), which do not write the modelled columns; the
  merge of the metadata column; error text; `Redeliver` gives `file.uploaded` to both services
  at once, not to one; the table of tasks of scene-detector is per process, with one process per
  service.
- `EventBus`: the order of a queue (any ready message may be handed out: prefetch, requeueing and
  several replicas allow it); a replica may hold `Prefetch` live deliveries. The TypeScript bus acks through the channel
  wrapper of `amqp-connection-manager`, external code: an ack of a delivery whose channel was
  lost is taken to have no effect. The exclusive queue of the gateway is in
  `LiveFiles`; the heartbeat file of the Python services is left out.
- `Uploads`: the contents of parts, sizes (one unit per upload), plan limits (a nondeterministic
  answer), importFile, purgeUser. Keys do not expire while a request of that file is in progress.
- `Collections`: names, colours, order and listings; the foreign key's check is one step with the
  insertion; a request may be cut anywhere, also where the code has no await.
- `Indexing`: one video. The index of images and audio files, one upsert after the same check, is
  left out; so is a second run started when the first has been silent for half an hour but is
  still alive: a run here starts when the tasks of the earlier one ended (`Pipeline` has the overlap).
- `Usage`: one quota row. The switch of a user's rows by a plan change during a charge would need it
  composed with `Subscriptions`. Keys are kept (their expiry is in `Uploads`).
- `Subscriptions`: money, the payment history and refunds; TRIALING counts as ACTIVE; the replay of
  `ChangePlan` by its key; names of variants and stores.
- `Conversations`: one file; `collection.deleted` has the same handler, and `user.deleted` is one
  statement. `Messages`: titles and previews; timestamps in the order of commits; limits scaled down;
  no deletion of the conversation; the graph, whose only result is a reply.
- `LiveFiles`: one tab and one instance of the gateway; a state of a file is a version number;
  the query cache of the frontend is a library, modelled from the options the hook gives it.
- The session cache of api-gateway and its rate windows (entries live for seconds and are per
  instance), auth-service (one step and a publication), the LLM graph and search
  (read-only), REST mapping and gRPC client (stateless), and the pages of the frontend (presentation),
  which are most of the lines of this repository.

## 6. Plan

In place: `Processing` and `Pipeline`, `EventBus` refining `AtLeastOnce`, `Usage` refining
`IdempotentCalls`, `Uploads`, `Subscriptions`, `Conversations`, `Messages`, `Collections`, `Indexing`,
`LiveFiles`, each with proofs of its type invariant, of its safety and action properties and of the
refinements. Next, in order of importance:

1. `importFile` and `purgeUser` in `Uploads`.
2. The session cache of the gateway: a validation in flight during a sign-out.
3. A plan change between the read and the transaction of a charge (`Usage` with `Subscriptions`).
