------------------------------- MODULE Pipeline -------------------------------
(* The processing of one uploaded file, from file.uploaded to COMPLETED or    *)
(* FAILED. Three kinds of job run at the same time: the scene-detector's task,*)
(* the file-embedder's transcription (or image, or text) task, and its scene  *)
(* indexing task. Each publishes file.stage_changed; upload-manager consumes  *)
(* them, several deliveries at a time, and is the only writer of the row.     *)
(*                                                                            *)
(* A run is one delivery of file.uploaded: the upload itself, one per         *)
(* reprocess request, and redeliveries. Jobs of an earlier run may be alive.  *)
EXTENDS Processing, Sequences

CONSTANTS
  Handlers,       \* deliveries of file.stage_changed in progress at once (prefetch)
  Kinds,          \* file kinds to start from, a subset of {"VIDEO", "OTHER"}
  Faults,         \* what may go wrong: a job raises, or a call to GetFile ("rpc") or
                  \* the publication of a new run or a failure ("publish") fails
  MaxRuns,        \* bound: 1 upload + MaxRuns - 1 reprocess requests or redeliveries
  MaxAttempts,    \* max_processing_retries of both services
  MaxQueue,       \* bound: a job does not report while this many reports are queued
  MaxInterrupts,  \* bound: handler runs cut short by an error or a crash
  MaxCrashes      \* bound: crashes of the worker services

Jobs  == {"detector", "media", "indexer"}
Runs  == 1..MaxRuns

\* The jobs that live in one process: the scene-detector, the file-embedder.
Services == {{"detector"}, {"media", "indexer"}}

ASSUME HandlersAssumption == Handlers # {}
ASSUME ScopeAssumption    == Kinds \subseteq {"VIDEO", "OTHER"} /\ Faults \subseteq Jobs \union {"rpc", "publish"}
ASSUME BoundsAssumption   == /\ MaxRuns \in Nat \ {0} /\ MaxAttempts \in Nat \ {0}
                             /\ MaxQueue \in Nat /\ MaxInterrupts \in Nat /\ MaxCrashes \in Nat

VARIABLES
  kind,           \* what was uploaded
  present,        \* the row exists
  row,            \* its processing columns
  run,            \* runs so far
  queue,          \* files.events, oldest first
  handler,        \* what each delivery is doing
  job,            \* job[j][r]: the state of the job of run r
  attempt,        \* attempt[j][r]: attempts already failed
  transcription,  \* the run of the task in _transcriptions, 0 if none
  awaits,         \* awaits[r]: the task the indexer of run r picked up to wait for
  late,           \* runs whose indexer stopped waiting by timeout
  interrupts, crashes

fileVars   == <<kind, present, row, run>>
jobVars    == <<job, attempt, transcription, awaits, late>>
boundVars  == <<interrupts, crashes>>
vars == <<fileVars, queue, handler, jobVars, boundVars>>

HandlerStates == {"idle", "reading", "writing", "backoff"}
JobStates == {"idle", "waiting", "ready", "working",
              "found", "announced", "empty", "done", "failed", "skipped", "lost"}
Running   == {"ready", "working"}
Alive     == {"waiting", "ready", "working", "found"}

Delivery == [pc : HandlerStates, msg : StageChange, seen : ProcessingState]

Idle == [pc |-> "idle", msg |-> FreshState, seen |-> FreshState]

StageOf(j) == CASE j = "detector" -> "SCENE_DETECTION"
                [] j = "media"    -> "EMBEDDING"
                [] j = "indexer"  -> "INDEXING"

TypeOK ==
  /\ kind \in {"VIDEO", "OTHER"}
  /\ present \in BOOLEAN
  /\ row \in ProcessingState
  /\ run \in Runs
  /\ queue \in Seq(StageChange)
  /\ handler \in [Handlers -> Delivery]
  /\ job \in [Jobs -> [Runs -> JobStates]]
  /\ attempt \in [Jobs -> [Runs -> Nat]]
  /\ transcription \in 0..MaxRuns
  /\ awaits \in [Runs -> 0..MaxRuns]
  /\ late \subseteq Runs
  /\ interrupts \in Nat
  /\ crashes \in Nat

\* The row as completeUpload or importFile left it, file.uploaded published.
Init ==
  /\ kind \in Kinds
  /\ present = TRUE
  /\ row = FreshState
  /\ run = 1
  /\ queue = <<>>
  /\ handler = [h \in Handlers |-> Idle]
  /\ job = [j \in Jobs |-> [r \in Runs |-> "idle"]]
  /\ attempt = [j \in Jobs |-> [r \in Runs |-> 0]]
  /\ transcription = 0
  /\ awaits = [r \in Runs |-> 0]
  /\ late = {}
  /\ interrupts = 0
  /\ crashes = 0

-------------------------------------------------------------------------------
(* upload-manager: one delivery of file.stage_changed.                        *)

Deliver(h) ==
  /\ handler[h].pc = "idle"
  /\ queue # <<>>
  /\ handler' = [handler EXCEPT ![h] = [pc |-> "reading", msg |-> Head(queue), seen |-> FreshState]]
  /\ queue' = Tail(queue)
  /\ UNCHANGED <<fileVars, jobVars, boundVars>>

\* The row is read; an unknown file or a change that is not an update is acked.
ReadRow(h) ==
  /\ handler[h].pc = "reading"
  /\ handler' = [handler EXCEPT ![h] =
       IF present /\ ~Ignored(row, handler[h].msg)
       THEN [handler[h] EXCEPT !.pc = "writing", !.seen = row]
       ELSE Idle]
  /\ UNCHANGED <<fileVars, queue, jobVars, boundVars>>

\* The update is written by id, unconditionally; it throws if the row is gone.
WriteRow(h) ==
  /\ handler[h].pc = "writing"
  /\ IF present
     THEN /\ row' = Applied(row, handler[h].msg)
          /\ handler' = [handler EXCEPT ![h] = Idle]
     ELSE /\ handler' = [handler EXCEPT ![h].pc = "backoff"]
          /\ UNCHANGED row
  /\ UNCHANGED <<kind, present, run, queue, jobVars, boundVars>>

\* The handler throws or the process dies before its write, or after it but
\* before the ack: the message stays unacked either way.
Interrupt(h) ==
  /\ interrupts < MaxInterrupts
  /\ handler[h].pc \in {"reading", "writing"}
  /\ \/ UNCHANGED row
     \/ /\ handler[h].pc = "writing"
        /\ present
        /\ row' = Applied(row, handler[h].msg)
  /\ handler' = [handler EXCEPT ![h].pc = "backoff"]
  /\ interrupts' = interrupts + 1
  /\ UNCHANGED <<kind, present, run, queue, jobVars, crashes>>

\* An unacked message goes back to the front of the queue.
Requeue(h) ==
  /\ handler[h].pc = "backoff"
  /\ queue' = <<handler[h].msg>> \o queue
  /\ handler' = [handler EXCEPT ![h] = Idle]
  /\ UNCHANGED <<fileVars, jobVars, boundVars>>

-------------------------------------------------------------------------------
(* The user.                                                                  *)

\* A file in progress may be reprocessed once its row was not written for 30
\* minutes; progress reports do not write it, so its jobs may still be running.
\* Publishing the new run may fail after the row was reset.
Reprocess ==
  /\ present
  /\ row' = FreshState
  /\ \/ run < MaxRuns /\ run' = run + 1
     \/ "publish" \in Faults /\ UNCHANGED run
  /\ UNCHANGED <<kind, present, queue, handler, jobVars, boundVars>>

\* file.uploaded is delivered once more to both services.
Redeliver ==
  /\ run < MaxRuns
  /\ run' = run + 1
  /\ UNCHANGED <<kind, present, row, queue, handler, jobVars, boundVars>>

DeleteRow ==
  /\ present
  /\ present' = FALSE
  /\ UNCHANGED <<kind, row, run, queue, handler, jobVars, boundVars>>

-------------------------------------------------------------------------------
(* The jobs.                                                                  *)

Move(j, r, from, to) ==
  /\ job[j][r] \in from
  /\ job' = [job EXCEPT ![j][r] = to]

Send(change) == Len(queue) < MaxQueue /\ queue' = Append(queue, change)

\* Mutant: the finished task removes whatever task is registered.
LeaveTranscriptionsAnyway(j, r) ==
  transcription' = IF j = "media" THEN 0 ELSE transcription

\* The media task leaves _transcriptions when it ends, unless a later run's
\* task has taken its place.
LeaveTranscriptions(j, r) ==
  transcription' = IF j = "media" /\ transcription = r THEN 0 ELSE transcription

\* file.uploaded reaches the service, in the order of its queue; the service
\* registers a task and acks.
StartUpload(j, r) ==
  /\ j \in {"detector", "media"}
  /\ r <= run
  /\ \A q \in 1..(r - 1) : job[j][q] # "idle"
  /\ Move(j, r, {"idle"}, "waiting")
  /\ transcription' = IF j = "media" /\ kind = "VIDEO" THEN r ELSE transcription
  /\ UNCHANGED <<fileVars, queue, handler, attempt, awaits, late, boundVars>>

\* file_exists, which takes a failed call for a yes; then a processing slot.
CheckFile(j, r) ==
  /\ j \in {"detector", "media"}
  /\ \/ /\ present \/ "rpc" \in Faults
        /\ Move(j, r, {"waiting"}, "ready")
        /\ UNCHANGED transcription
     \/ /\ ~present
        /\ Move(j, r, {"waiting"}, "skipped")
        /\ LeaveTranscriptions(j, r)
  /\ UNCHANGED <<fileVars, queue, handler, attempt, awaits, late, boundVars>>

\* An attempt starts. The detector reports its stage for a video and for no other
\* file. The embedder's first report is one of progress: there is none if there is
\* nothing to index, and one that fails is only logged.
Begin(j, r) ==
  /\ Move(j, r, {"ready"}, "working")
  /\ \/ (j = "detector" => kind = "VIDEO") /\ Send(Report(StageOf(j), "IN_PROGRESS", 0))
     \/ (j = "detector" => kind # "VIDEO") /\ UNCHANGED queue
  /\ UNCHANGED <<fileVars, handler, attempt, transcription, awaits, late, boundVars>>

\* Progress leaves room in the bounded queue for the other reports.
Progress(j, r) ==
  /\ job[j][r] = "working"
  /\ j = "detector" => kind = "VIDEO"
  /\ Len(queue) + 1 < MaxQueue
  /\ Send(Report(StageOf(j), "IN_PROGRESS", 0))
  /\ UNCHANGED <<fileVars, handler, jobVars, boundVars>>

\* No scenes: the file is complete. Scenes: the stage is reported first, and
\* then they are announced to the indexer.
DetectorEnds(r) ==
  /\ \/ /\ kind = "VIDEO"
        /\ Move("detector", r, {"working"}, "empty")
        /\ Send(Report("COMPLETED", "COMPLETED", 0))
     \/ /\ kind = "VIDEO"
        /\ Move("detector", r, {"working"}, "found")
        /\ Send(Report("INDEXING", "IN_PROGRESS", 0))
     \/ /\ kind # "VIDEO"
        /\ Move("detector", r, {"working"}, "done")
        /\ UNCHANGED queue
  /\ UNCHANGED <<fileVars, handler, attempt, transcription, awaits, late, boundVars>>

DetectorAnnounces(r) ==
  /\ Move("detector", r, {"found"}, "announced")
  /\ UNCHANGED <<fileVars, queue, handler, attempt, transcription, awaits, late, boundVars>>

\* Mutant: a transcribed video is complete, as any other file is.
MediaEndsTheRun(r) ==
  /\ Move("media", r, {"working"}, "done")
  /\ Send(Report("COMPLETED", "COMPLETED", 0))
  /\ LeaveTranscriptions("media", r)
  /\ UNCHANGED <<fileVars, handler, attempt, awaits, late, boundVars>>

\* A transcribed video waits for its scenes; any other file is complete.
MediaEnds(r) ==
  /\ Move("media", r, {"working"}, "done")
  /\ IF kind = "VIDEO" THEN UNCHANGED queue ELSE Send(Report("COMPLETED", "COMPLETED", 0))
  /\ LeaveTranscriptions("media", r)
  /\ UNCHANGED <<fileVars, handler, attempt, awaits, late, boundVars>>

\* file.scenes_detected, which search.events delivers after file.uploaded: the
\* indexer picks up the transcription registered for the file, if any.
IndexerArrives(r) ==
  /\ job["detector"][r] = "announced"
  /\ job["media"][r] # "idle"
  /\ Move("indexer", r, {"idle"}, "waiting")
  /\ awaits' = [awaits EXCEPT ![r] = transcription]
  /\ UNCHANGED <<fileVars, queue, handler, attempt, transcription, late, boundVars>>

\* The row as GetFile shows it to the indexer.
WorthIndexing == present /\ row.status # "FAILED"

\* The awaited task, if there is one, has ended by itself or with its process.
Ended(r) == r \notin {q \in Runs : job["media"][q] \in Alive}

FailedTranscriptions == {r \in Runs : job["media"][r] \in {"failed", "skipped"}}

\* The transcription ended: nothing is indexed if it failed or was skipped.
IndexerStarts(r) ==
  /\ Ended(awaits[r])
  /\ Move("indexer", r, {"waiting"},
          IF awaits[r] \notin FailedTranscriptions /\ WorthIndexing THEN "ready" ELSE "skipped")
  /\ UNCHANGED <<fileVars, queue, handler, attempt, transcription, awaits, late, boundVars>>

\* transcription_wait_seconds passed first.
IndexerGivesUpWaiting(r) ==
  /\ ~Ended(awaits[r])
  /\ Move("indexer", r, {"waiting"}, IF WorthIndexing THEN "ready" ELSE "skipped")
  /\ late' = late \union {r}
  /\ UNCHANGED <<fileVars, queue, handler, attempt, transcription, awaits, boundVars>>

\* The wait ended or timed out, and GetFile or ListScenes fails: the task ends with
\* an exception nobody reports.
IndexerLosesCall(r) ==
  /\ "rpc" \in Faults
  /\ Move("indexer", r, {"waiting"}, "lost")
  /\ UNCHANGED <<fileVars, queue, handler, attempt, transcription, awaits, late, boundVars>>

IndexerEnds(r) ==
  /\ Move("indexer", r, {"working"}, "done")
  /\ Send(Report("COMPLETED", "COMPLETED", 0))
  /\ UNCHANGED <<fileVars, handler, attempt, transcription, awaits, late, boundVars>>

\* An attempt raised and another is left: reported as a retry, if the file is
\* still there.
Retry(j, r) ==
  /\ j \in Faults
  /\ attempt[j][r] + 1 < MaxAttempts
  /\ Move(j, r, {"working", "found"}, IF present THEN "ready" ELSE "skipped")
  /\ attempt' = [attempt EXCEPT ![j][r] = @ + 1]
  /\ IF present
     THEN /\ Send(Report(StageOf(j), "IN_PROGRESS", attempt[j][r] + 1))
          /\ UNCHANGED transcription
     ELSE UNCHANGED queue /\ LeaveTranscriptions(j, r)
  /\ UNCHANGED <<fileVars, handler, awaits, late, boundVars>>

\* Mutant: the last attempt is not reported.
FailUnreported(j, r) ==
  /\ j \in Faults
  /\ attempt[j][r] + 1 = MaxAttempts
  /\ Move(j, r, {"working", "found"}, "failed")
  /\ LeaveTranscriptions(j, r)
  /\ UNCHANGED <<fileVars, queue, handler, attempt, awaits, late, boundVars>>

\* The last attempt raised. The embedder reports only a file that still exists;
\* the detector reports always, with a retry count of 0. On any attempt, a report
\* that cannot be published ends the task in silence.
Fail(j, r) ==
  /\ j \in Faults
  /\ Move(j, r, {"working", "found"}, "failed")
  /\ \/ /\ attempt[j][r] + 1 = MaxAttempts
        /\ j = "detector" \/ present
        /\ Send(Report(StageOf(j), "FAILED", IF j = "detector" THEN 0 ELSE attempt[j][r]))
     \/ /\ \/ "publish" \in Faults
           \/ attempt[j][r] + 1 = MaxAttempts /\ j # "detector" /\ ~present
        /\ UNCHANGED queue
  /\ LeaveTranscriptions(j, r)
  /\ UNCHANGED <<fileVars, handler, attempt, awaits, late, boundVars>>

\* The tasks of the services S end without a report.
LoseTasks(S) ==
  /\ job' = [j \in Jobs |-> [r \in Runs |->
       IF j \in S /\ job[j][r] \in Alive THEN "lost" ELSE job[j][r]]]
  /\ transcription' = IF "media" \in S THEN 0 ELSE transcription
  /\ UNCHANGED <<fileVars, queue, handler, attempt, awaits, late, interrupts>>

\* A service dies: its tasks, whose events were acked when they started, and the
\* table of transcriptions die with it.
Crash(S) ==
  /\ crashes < MaxCrashes
  /\ crashes' = crashes + 1
  /\ LoseTasks(S)

\* file.deleted reaches a service, which cancels the tasks of the file.
CancelTasks(S) ==
  /\ ~present
  /\ LoseTasks(S)
  /\ UNCHANGED crashes

-------------------------------------------------------------------------------
HandlerStep(h) == Deliver(h) \/ ReadRow(h) \/ WriteRow(h) \/ Requeue(h)

JobStep(r) ==
  \/ \E j \in Jobs : StartUpload(j, r) \/ CheckFile(j, r) \/ Begin(j, r)
  \/ DetectorEnds(r) \/ DetectorAnnounces(r) \/ MediaEnds(r)
  \/ IndexerArrives(r) \/ IndexerStarts(r) \/ IndexerLosesCall(r) \/ IndexerEnds(r)
  \/ \E j \in Jobs : Retry(j, r) \/ Fail(j, r)

Next ==
  \/ \E h \in Handlers : HandlerStep(h) \/ Interrupt(h)
  \/ \E r \in Runs : JobStep(r) \/ IndexerGivesUpWaiting(r)
  \/ \E r \in Runs, j \in Jobs : Progress(j, r)
  \/ Reprocess
  \/ Redeliver
  \/ DeleteRow
  \/ \E S \in Services : Crash(S) \/ CancelTasks(S)

Spec == Init /\ [][Next]_vars

\* The broker keeps delivering, a backoff ends, and a task that can go on does.
\* Users, faults, crashes and the 30 minute wait owe nothing.
Fairness ==
  /\ \A h \in Handlers : WF_vars(HandlerStep(h))
  /\ \A r \in Runs : WF_vars(JobStep(r))

FairSpec == Spec /\ Fairness

-------------------------------------------------------------------------------
(* Properties.                                                                *)

\* A finished file sits at the COMPLETED stage and a file in progress never
\* does, although failures keep the stage and writes use what was read earlier.
StatusFitsStage ==
  /\ row.status = "COMPLETED" => row.stage = "COMPLETED"
  /\ row.status = "IN_PROGRESS" => row.stage # "COMPLETED"

\* The pipeline of a run came to its end: the scenes were indexed, there were
\* none, or the file is not a video and its media was indexed.
RunFinished(r) ==
  \/ job["indexer"][r] = "done"
  \/ job["detector"][r] = "empty"
  \/ kind # "VIDEO" /\ job["media"][r] = "done"

RunFailed(r) == \E j \in Jobs : job[j][r] = "failed"

\* The row claims an outcome only if some run reached it, whatever was lost,
\* repeated or reordered on the way to the row.
OutcomeWasReached ==
  /\ row.status = "COMPLETED" => \E r \in Runs : RunFinished(r)
  /\ row.status = "FAILED" => \E r \in Runs : RunFailed(r)

\* The transcription of run r was started and came to an end.
Over(r) == job["media"][r] \in {"done", "failed", "skipped", "lost"}

\* Scenes are indexed only after the transcription of their run, or of a later run
\* that took its place, is over, unless the wait timed out.
ScenesWaitForTranscript ==
  \A r \in Runs :
    job["indexer"][r] \in Running /\ r \notin late => \E q \in r..MaxRuns : Over(q)

\* A handler whose row did not change between its read and its write never moves
\* the file to an earlier stage and never reopens a completed one.
FreshWritesMoveForward ==
  [][\A h \in Handlers :
       handler[h].pc = "writing" /\ handler[h].seen = row /\ handler'[h] # handler[h]
         => Rank(row'.stage) >= Rank(row.stage) /\ (row.status = "COMPLETED" => row' = row)]_vars

\* Stage changes are applied forward-only, and late reports are ignored once
\* processing has completed: no delivery moves the stage back or reopens a file.
ForwardOnly ==
  [][handler' # handler
       => Rank(row'.stage) >= Rank(row.stage) /\ (row.status = "COMPLETED" => row' = row)]_vars

\* A file in progress is eventually completed, failed or deleted.
Settles == (present /\ row.status = "IN_PROGRESS") ~> (row.status # "IN_PROGRESS" \/ ~present)
===============================================================================
