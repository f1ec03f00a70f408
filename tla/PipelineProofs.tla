---------------------------- MODULE PipelineProofs ----------------------------
(* Theorems about Pipeline, for every number of handlers, runs, attempts and    *)
(* faults.                                                                      *)
EXTENDS Pipeline, TLAPS

-------------------------------------------------------------------------------
(* The operators of Processing.                                                *)

LEMMA ReportType ==
  ASSUME NEW stage \in Stages, NEW status \in Statuses, NEW retry \in Nat
  PROVE  Report(stage, status, retry) \in StageChange
BY DEF Report, StageChange

LEMMA FreshType == FreshState \in ProcessingState /\ FreshState \in StageChange
BY DEF FreshState, Report, ProcessingState, StageChange, Stages, Statuses

LEMMA AppliedType ==
  ASSUME NEW seen \in ProcessingState, NEW change \in StageChange
  PROVE  Applied(seen, change) \in ProcessingState
BY DEF Applied, ProcessingState, StageChange, Statuses

LEMMA StageType == \A j \in Jobs : StageOf(j) \in Stages
BY DEF StageOf, Jobs, Stages

\* A report that is sent keeps the queue a sequence of stage changes.
LEMMA SendType ==
  ASSUME TypeOK, NEW change \in StageChange, Send(change)
  PROVE  queue' \in Seq(StageChange)
BY DEF Send, TypeOK

\* A job that moves to a job state keeps the type of job.
LEMMA MoveType ==
  ASSUME TypeOK, NEW j \in Jobs, NEW r \in Runs, NEW from, NEW to \in JobStates, Move(j, r, from, to)
  PROVE  job' \in [Jobs -> [Runs -> JobStates]]
BY DEF Move, TypeOK

LEMMA LeaveType ==
  ASSUME TypeOK, NEW j, NEW r, LeaveTranscriptions(j, r)
  PROVE  transcription' \in 0..MaxRuns
BY BoundsAssumption DEF LeaveTranscriptions, TypeOK

-------------------------------------------------------------------------------
LEMMA IdleType == Idle \in Delivery
BY FreshType DEF Idle, Delivery, HandlerStates

\* A delivery that goes to another state keeps its type.
LEMMA StateType ==
  ASSUME NEW d \in Delivery, NEW pc \in HandlerStates
  PROVE  [d EXCEPT !.pc = pc] \in Delivery
BY DEF Delivery

LEMMA InitType == Init => TypeOK
BY FreshType, IdleType, BoundsAssumption, ScopeAssumption
   DEF Init, TypeOK, JobStates, Runs, Jobs

LEMMA HandlerTypes ==
  ASSUME TypeOK, NEW h \in Handlers
  PROVE  /\ Deliver(h) => TypeOK'
         /\ ReadRow(h) => TypeOK'
         /\ WriteRow(h) => TypeOK'
         /\ Interrupt(h) => TypeOK'
         /\ Requeue(h) => TypeOK'
<1>. /\ handler \in [Handlers -> Delivery]
     /\ handler[h] \in Delivery
     /\ handler[h].msg \in StageChange
     /\ queue \in Seq(StageChange)
     /\ row \in ProcessingState
  BY DEF TypeOK, Delivery
<1>1. ASSUME Deliver(h) PROVE TypeOK'
  <2>1. Head(queue) \in StageChange /\ Tail(queue) \in Seq(StageChange)
    BY <1>1 DEF Deliver
  <2>2. [pc |-> "reading", msg |-> Head(queue), seen |-> FreshState] \in Delivery
    BY <2>1, FreshType DEF Delivery, HandlerStates
  <2>3. handler' \in [Handlers -> Delivery]
    BY <1>1, <2>2 DEF Deliver
  <2>. QED BY <1>1, <2>1, <2>3 DEF Deliver, TypeOK, fileVars, jobVars, boundVars
<1>2. ASSUME ReadRow(h) PROVE TypeOK'
  <2>1. [handler[h] EXCEPT !.pc = "writing", !.seen = row] \in Delivery
    BY DEF Delivery, HandlerStates
  <2>2. handler' \in [Handlers -> Delivery]
    BY <1>2, <2>1, IdleType DEF ReadRow
  <2>. QED BY <1>2, <2>2 DEF ReadRow, TypeOK, fileVars, jobVars, boundVars
<1>3. ASSUME WriteRow(h) PROVE TypeOK'
  <2>1. row' \in ProcessingState
    BY <1>3, AppliedType DEF WriteRow
  <2>2. [handler[h] EXCEPT !.pc = "backoff"] \in Delivery
    BY StateType DEF HandlerStates
  <2>3. handler' \in [Handlers -> Delivery]
    BY <1>3, <2>2, IdleType DEF WriteRow
  <2>. QED BY <1>3, <2>1, <2>3 DEF WriteRow, TypeOK, jobVars, boundVars
<1>4. ASSUME Interrupt(h) PROVE TypeOK'
  <2>1. row' \in ProcessingState
    BY <1>4, AppliedType DEF Interrupt
  <2>2. [handler[h] EXCEPT !.pc = "backoff"] \in Delivery
    BY StateType DEF HandlerStates
  <2>3. handler' \in [Handlers -> Delivery]
    BY <1>4, <2>2 DEF Interrupt
  <2>. QED BY <1>4, <2>1, <2>3 DEF Interrupt, TypeOK, jobVars
<1>5. ASSUME Requeue(h) PROVE TypeOK'
  <2>1. handler' \in [Handlers -> Delivery]
    BY <1>5, IdleType DEF Requeue
  <2>2. queue' \in Seq(StageChange)
    BY <1>5 DEF Requeue
  <2>. QED BY <1>5, <2>1, <2>2 DEF Requeue, TypeOK, fileVars, jobVars, boundVars
<1>. QED BY <1>1, <1>2, <1>3, <1>4, <1>5

LEMMA UserTypes ==
  ASSUME TypeOK
  PROVE  /\ Reprocess => TypeOK'
         /\ Redeliver => TypeOK'
         /\ DeleteRow => TypeOK'
<1>. run < MaxRuns => run + 1 \in Runs
  BY BoundsAssumption DEF TypeOK, Runs
<1>1. Reprocess => TypeOK'
  BY FreshType DEF Reprocess, TypeOK, jobVars, boundVars
<1>2. Redeliver => TypeOK'
  BY DEF Redeliver, TypeOK, jobVars, boundVars
<1>3. DeleteRow => TypeOK'
  BY DEF DeleteRow, TypeOK, jobVars, boundVars
<1>. QED BY <1>1, <1>2, <1>3

\* The reports the jobs send.
LEMMA JobReports ==
  ASSUME NEW j \in Jobs, NEW status \in Statuses, NEW n \in Nat
  PROVE  /\ Report(StageOf(j), status, n) \in StageChange
         /\ Report("COMPLETED", "COMPLETED", 0) \in StageChange
         /\ Report("INDEXING", "IN_PROGRESS", 0) \in StageChange
         /\ Report(StageOf(j), "IN_PROGRESS", 0) \in StageChange
BY ReportType, StageType DEF Stages, Statuses

\* An action of a job that leaves the file, the handlers and the counters of
\* attempts alone keeps the types if it keeps those of what it changes.
LEMMA JobFrame ==
  ASSUME TypeOK,
         UNCHANGED <<fileVars, handler, boundVars>>,
         queue' \in Seq(StageChange),
         job' \in [Jobs -> [Runs -> JobStates]],
         attempt' \in [Jobs -> [Runs -> Nat]],
         transcription' \in 0..MaxRuns,
         awaits' \in [Runs -> 0..MaxRuns],
         late' \subseteq Runs
  PROVE  TypeOK'
BY DEF TypeOK, fileVars, boundVars

LEMMA TaskTypes ==
  ASSUME TypeOK, NEW j \in Jobs, NEW r \in Runs
  PROVE  /\ StartUpload(j, r) => TypeOK'
         /\ CheckFile(j, r) => TypeOK'
         /\ Begin(j, r) => TypeOK'
         /\ Progress(j, r) => TypeOK'
         /\ Retry(j, r) => TypeOK'
         /\ Fail(j, r) => TypeOK'
<1>. /\ queue \in Seq(StageChange)
     /\ job \in [Jobs -> [Runs -> JobStates]]
     /\ attempt \in [Jobs -> [Runs -> Nat]]
     /\ transcription \in 0..MaxRuns
     /\ awaits \in [Runs -> 0..MaxRuns]
     /\ late \subseteq Runs
     /\ r \in 0..MaxRuns
     /\ attempt[j][r] \in Nat
  BY BoundsAssumption DEF TypeOK, Runs
<1>a. {"waiting", "ready", "working", "skipped", "failed"} \subseteq JobStates
  BY DEF JobStates
<1>b. Report(StageOf(j), "IN_PROGRESS", 0) \in StageChange
  BY JobReports DEF Statuses
<1>1. ASSUME StartUpload(j, r) PROVE TypeOK'
  <2>1. job' \in [Jobs -> [Runs -> JobStates]]
    BY <1>1, <1>a, MoveType DEF StartUpload
  <2>2. transcription' \in 0..MaxRuns
    BY <1>1 DEF StartUpload
  <2>. QED BY <1>1, <2>1, <2>2, JobFrame DEF StartUpload, fileVars, boundVars
<1>2. ASSUME CheckFile(j, r) PROVE TypeOK'
  <2>1. job' \in [Jobs -> [Runs -> JobStates]]
    BY <1>2, <1>a, MoveType DEF CheckFile
  <2>2. transcription' \in 0..MaxRuns
    BY <1>2, LeaveType DEF CheckFile
  <2>. QED BY <1>2, <2>1, <2>2, JobFrame DEF CheckFile, fileVars, boundVars
<1>3. ASSUME Begin(j, r) PROVE TypeOK'
  <2>1. job' \in [Jobs -> [Runs -> JobStates]]
    BY <1>3, <1>a, MoveType DEF Begin
  <2>2. queue' \in Seq(StageChange)
    BY <1>3, <1>b, SendType DEF Begin
  <2>. QED BY <1>3, <2>1, <2>2, JobFrame DEF Begin, fileVars, boundVars
<1>4. ASSUME Progress(j, r) PROVE TypeOK'
  <2>1. queue' \in Seq(StageChange)
    BY <1>4, <1>b, SendType DEF Progress
  <2>. QED BY <1>4, <2>1, JobFrame DEF Progress, fileVars, jobVars, boundVars
<1>5. ASSUME Retry(j, r) PROVE TypeOK'
  <2>1. job' \in [Jobs -> [Runs -> JobStates]]
    BY <1>5, <1>a, MoveType DEF Retry
  <2>2. Report(StageOf(j), "IN_PROGRESS", attempt[j][r] + 1) \in StageChange
    BY JobReports DEF Statuses
  <2>3. queue' \in Seq(StageChange)
    BY <1>5, <2>2, SendType DEF Retry
  <2>4. attempt' \in [Jobs -> [Runs -> Nat]]
    BY <1>5 DEF Retry
  <2>5. transcription' \in 0..MaxRuns
    BY <1>5, LeaveType DEF Retry
  <2>. QED BY <1>5, <2>1, <2>3, <2>4, <2>5, JobFrame DEF Retry, fileVars, boundVars
<1>6. ASSUME Fail(j, r) PROVE TypeOK'
  <2>1. job' \in [Jobs -> [Runs -> JobStates]]
    BY <1>6, <1>a, MoveType DEF Fail
  <2>2. \A n \in Nat : Report(StageOf(j), "FAILED", n) \in StageChange
    BY JobReports DEF Statuses
  <2>3. queue' \in Seq(StageChange)
    BY <1>6, <2>2, SendType DEF Fail
  <2>4. transcription' \in 0..MaxRuns
    BY <1>6, LeaveType DEF Fail
  <2>. QED BY <1>6, <2>1, <2>3, <2>4, JobFrame DEF Fail, fileVars, boundVars
<1>. QED BY <1>1, <1>2, <1>3, <1>4, <1>5, <1>6

LEMMA RunTypes ==
  ASSUME TypeOK, NEW r \in Runs
  PROVE  /\ DetectorEnds(r) => TypeOK'
         /\ DetectorAnnounces(r) => TypeOK'
         /\ MediaEnds(r) => TypeOK'
         /\ IndexerArrives(r) => TypeOK'
         /\ IndexerStarts(r) => TypeOK'
         /\ IndexerGivesUpWaiting(r) => TypeOK'
         /\ IndexerLosesCall(r) => TypeOK'
         /\ IndexerEnds(r) => TypeOK'
<1>. /\ queue \in Seq(StageChange)
     /\ job \in [Jobs -> [Runs -> JobStates]]
     /\ attempt \in [Jobs -> [Runs -> Nat]]
     /\ transcription \in 0..MaxRuns
     /\ awaits \in [Runs -> 0..MaxRuns]
     /\ late \subseteq Runs
  BY DEF TypeOK
<1>a. JobStates = {"idle", "waiting", "ready", "working",
                   "found", "announced", "empty", "done", "failed", "skipped", "lost"}
  BY DEF JobStates
<1>b. {"detector", "media", "indexer"} = Jobs
  BY DEF Jobs
<1>c. /\ Report("COMPLETED", "COMPLETED", 0) \in StageChange
      /\ Report("INDEXING", "IN_PROGRESS", 0) \in StageChange
  BY ReportType DEF Stages, Statuses
<1>1. ASSUME DetectorEnds(r) PROVE TypeOK'
  <2>1. job' \in [Jobs -> [Runs -> JobStates]]
    BY <1>1, <1>a, <1>b, MoveType DEF DetectorEnds
  <2>2. queue' \in Seq(StageChange)
    BY <1>1, <1>c, SendType DEF DetectorEnds
  <2>. QED BY <1>1, <2>1, <2>2, JobFrame DEF DetectorEnds, fileVars, boundVars
<1>2. ASSUME DetectorAnnounces(r) PROVE TypeOK'
  <2>1. job' \in [Jobs -> [Runs -> JobStates]]
    BY <1>2, <1>a, <1>b, MoveType DEF DetectorAnnounces
  <2>. QED BY <1>2, <2>1, JobFrame DEF DetectorAnnounces, fileVars, boundVars
<1>3. ASSUME MediaEnds(r) PROVE TypeOK'
  <2>1. job' \in [Jobs -> [Runs -> JobStates]]
    BY <1>3, <1>a, <1>b, MoveType DEF MediaEnds
  <2>2. queue' \in Seq(StageChange)
    BY <1>3, <1>c, SendType DEF MediaEnds
  <2>3. transcription' \in 0..MaxRuns
    BY <1>3, LeaveType DEF MediaEnds
  <2>. QED BY <1>3, <2>1, <2>2, <2>3, JobFrame DEF MediaEnds, fileVars, boundVars
<1>4. ASSUME IndexerArrives(r) PROVE TypeOK'
  <2>1. job' \in [Jobs -> [Runs -> JobStates]]
    BY <1>4, <1>a, <1>b, MoveType DEF IndexerArrives
  <2>2. awaits' \in [Runs -> 0..MaxRuns]
    BY <1>4 DEF IndexerArrives
  <2>. QED BY <1>4, <2>1, <2>2, JobFrame DEF IndexerArrives, fileVars, boundVars
<1>5. ASSUME IndexerStarts(r) PROVE TypeOK'
  <2>1. job' \in [Jobs -> [Runs -> JobStates]]
    BY <1>5, <1>a, <1>b, MoveType DEF IndexerStarts
  <2>. QED BY <1>5, <2>1, JobFrame DEF IndexerStarts, fileVars, boundVars
<1>6. ASSUME IndexerGivesUpWaiting(r) PROVE TypeOK'
  <2>1. job' \in [Jobs -> [Runs -> JobStates]]
    BY <1>6, <1>a, <1>b, MoveType DEF IndexerGivesUpWaiting
  <2>2. late' \subseteq Runs
    BY <1>6 DEF IndexerGivesUpWaiting
  <2>. QED BY <1>6, <2>1, <2>2, JobFrame DEF IndexerGivesUpWaiting, fileVars, boundVars
<1>7. ASSUME IndexerLosesCall(r) PROVE TypeOK'
  <2>1. job' \in [Jobs -> [Runs -> JobStates]]
    BY <1>7, <1>a, <1>b, MoveType DEF IndexerLosesCall
  <2>. QED BY <1>7, <2>1, JobFrame DEF IndexerLosesCall, fileVars, boundVars
<1>8. ASSUME IndexerEnds(r) PROVE TypeOK'
  <2>1. job' \in [Jobs -> [Runs -> JobStates]]
    BY <1>8, <1>a, <1>b, MoveType DEF IndexerEnds
  <2>2. queue' \in Seq(StageChange)
    BY <1>8, <1>c, SendType DEF IndexerEnds
  <2>. QED BY <1>8, <2>1, <2>2, JobFrame DEF IndexerEnds, fileVars, boundVars
<1>. QED BY <1>1, <1>2, <1>3, <1>4, <1>5, <1>6, <1>7, <1>8

LEMMA CrashTypes ==
  ASSUME TypeOK, NEW S \in Services
  PROVE  /\ Crash(S) => TypeOK'
         /\ CancelTasks(S) => TypeOK'
<1>1. LoseTasks(S) => /\ job' \in [Jobs -> [Runs -> JobStates]]
                      /\ transcription' \in 0..MaxRuns
  BY BoundsAssumption DEF LoseTasks, TypeOK, JobStates
<1>2. Crash(S) => TypeOK'
  BY <1>1 DEF Crash, LoseTasks, TypeOK, fileVars
<1>3. CancelTasks(S) => TypeOK'
  BY <1>1 DEF CancelTasks, LoseTasks, TypeOK, fileVars
<1>. QED BY <1>2, <1>3

\* Every variable of the pipeline keeps its type, whatever runs, faults and
\* interleavings there are.
THEOREM TypeCorrect == Spec => []TypeOK
<1>1. TypeOK /\ [Next]_vars => TypeOK'
  <2>. SUFFICES ASSUME TypeOK, [Next]_vars PROVE TypeOK'
    OBVIOUS
  <2>1. CASE UNCHANGED vars
    BY <2>1 DEF TypeOK, vars, fileVars, jobVars, boundVars
  <2>2. CASE \E h \in Handlers : HandlerStep(h) \/ Interrupt(h)
    BY <2>2, HandlerTypes DEF HandlerStep
  <2>3. CASE \E r \in Runs : JobStep(r) \/ IndexerGivesUpWaiting(r)
    BY <2>3, TaskTypes, RunTypes DEF JobStep
  <2>4. CASE \E r \in Runs, j \in Jobs : Progress(j, r)
    BY <2>4, TaskTypes
  <2>5. CASE Reprocess \/ Redeliver \/ DeleteRow
    BY <2>5, UserTypes
  <2>6. CASE \E S \in Services : Crash(S) \/ CancelTasks(S)
    BY <2>6, CrashTypes
  <2>. QED BY <2>1, <2>2, <2>3, <2>4, <2>5, <2>6 DEF Next
<1>. QED BY InitType, <1>1, PTL DEF Spec

-------------------------------------------------------------------------------
(* The row: what may be written to it.                                         *)

\* A step leaves the row, resets it, or writes the change of some delivery.
LEMMA RowSteps ==
  ASSUME [Next]_vars
  PROVE  \/ row' = row
         \/ row' = FreshState
         \/ \E h \in Handlers : row' = Applied(row, handler[h].msg)
<1>1. CASE UNCHANGED vars
  BY <1>1 DEF vars, fileVars
<1>2. CASE \E h \in Handlers : HandlerStep(h) \/ Interrupt(h)
  BY <1>2 DEF HandlerStep, Deliver, ReadRow, WriteRow, Requeue, Interrupt, fileVars
<1>3. CASE \E r \in Runs : JobStep(r) \/ IndexerGivesUpWaiting(r)
  BY <1>3 DEF JobStep, StartUpload, CheckFile, Begin, DetectorEnds, DetectorAnnounces, MediaEnds,
              IndexerArrives, IndexerStarts, IndexerLosesCall, IndexerEnds, IndexerGivesUpWaiting,
              Retry, Fail, fileVars
<1>4. CASE \E r \in Runs, j \in Jobs : Progress(j, r)
  BY <1>4 DEF Progress, fileVars
<1>5. CASE Reprocess \/ Redeliver \/ DeleteRow
  BY <1>5 DEF Reprocess, Redeliver, DeleteRow
<1>6. CASE \E S \in Services : Crash(S) \/ CancelTasks(S)
  BY <1>6 DEF Crash, CancelTasks, LoseTasks, fileVars
<1>. QED BY <1>1, <1>2, <1>3, <1>4, <1>5, <1>6 DEF Next

\* The status of the row always fits its stage: a stale write, an interrupted one
\* or a failure that keeps the stage never leaves a completed file elsewhere.
THEOREM StatusFits == Spec => []StatusFitsStage
<1>1. Init => StatusFitsStage
  BY DEF Init, StatusFitsStage, FreshState, Report
<1>2. TypeOK /\ StatusFitsStage /\ [Next]_vars => StatusFitsStage'
  <2>. SUFFICES ASSUME TypeOK, StatusFitsStage, [Next]_vars PROVE StatusFitsStage'
    OBVIOUS
  <2>1. CASE row' = row
    BY <2>1 DEF StatusFitsStage
  <2>2. CASE row' = FreshState
    BY <2>2 DEF StatusFitsStage, FreshState, Report
  <2>3. ASSUME NEW h \in Handlers, row' = Applied(row, handler[h].msg) PROVE StatusFitsStage'
    <3>1. row \in ProcessingState
      BY DEF TypeOK
    <3>. QED BY <2>3, <3>1 DEF StatusFitsStage, Applied, ProcessingState
  <2>. QED BY <2>1, <2>2, <2>3, RowSteps
<1>. QED BY <1>1, <1>2, TypeCorrect, PTL DEF Spec

-------------------------------------------------------------------------------
(* The jobs: an outcome that was reached stays reached.                        *)

\* What one move of one job does to all of them.
LEMMA MoveEffect ==
  ASSUME TypeOK, NEW j \in Jobs, NEW r \in Runs, NEW from, NEW to, Move(j, r, from, to)
  PROVE  /\ job[j][r] \in from
         /\ job'[j][r] = to
         /\ \A i \in Jobs, q \in Runs : i # j \/ q # r => job'[i][q] = job[i][q]
BY DEF Move, TypeOK

\* No step leaves one of these states, and no step changes the kind of the file.
Final == {"done", "empty", "failed"}

LEMMA FinalStays ==
  ASSUME TypeOK, [Next]_vars
  PROVE  /\ kind' = kind
         /\ \A j \in Jobs, r \in Runs : job[j][r] \in Final => job'[j][r] = job[j][r]
<1>. DEFINE Goal == /\ kind' = kind
                    /\ \A j \in Jobs, r \in Runs : job[j][r] \in Final => job'[j][r] = job[j][r]
<1>. {"detector", "media", "indexer"} = Jobs
  BY DEF Jobs
<1>1. ASSUME NEW j \in Jobs, NEW r \in Runs, NEW from, NEW to,
             Move(j, r, from, to), from \cap Final = {}, kind' = kind
      PROVE  Goal
  BY <1>1, MoveEffect
<1>2. ASSUME UNCHANGED <<kind, job>> PROVE Goal
  BY <1>2
<1>3. CASE UNCHANGED vars
  BY <1>2, <1>3 DEF vars, fileVars, jobVars
<1>4. CASE \E h \in Handlers : HandlerStep(h) \/ Interrupt(h)
  BY <1>2, <1>4 DEF HandlerStep, Deliver, ReadRow, WriteRow, Requeue, Interrupt, fileVars, jobVars
<1>5. ASSUME NEW r \in Runs, JobStep(r) \/ IndexerGivesUpWaiting(r) PROVE Goal
  <2>1. ASSUME NEW j \in Jobs, StartUpload(j, r) \/ CheckFile(j, r) \/ Begin(j, r) PROVE Goal
    <3>1. PICK from, to : Move(j, r, from, to) /\ from \in {{"idle"}, {"waiting"}, {"ready"}}
      BY <2>1 DEF StartUpload, CheckFile, Begin
    <3>2. from \cap Final = {}
      BY <3>1 DEF Final
    <3>. QED BY <1>1, <2>1, <3>1, <3>2 DEF StartUpload, CheckFile, Begin, fileVars
  <2>2. ASSUME NEW j \in Jobs, Retry(j, r) \/ Fail(j, r) PROVE Goal
    <3>1. {"working", "found"} \cap Final = {}
      BY DEF Final
    <3>. QED BY <1>1, <2>2, <3>1 DEF Retry, Fail, fileVars
  <2>3. CASE DetectorEnds(r) \/ DetectorAnnounces(r) \/ MediaEnds(r)
    <3>1. {"working"} \cap Final = {} /\ {"found"} \cap Final = {}
      BY DEF Final
    <3>. QED BY <1>1, <2>3, <3>1 DEF DetectorEnds, DetectorAnnounces, MediaEnds, fileVars
  <2>4. CASE IndexerArrives(r) \/ IndexerStarts(r) \/ IndexerGivesUpWaiting(r)
             \/ IndexerLosesCall(r) \/ IndexerEnds(r)
    <3>1. {"idle"} \cap Final = {} /\ {"waiting"} \cap Final = {} /\ {"working"} \cap Final = {}
      BY DEF Final
    <3>. QED BY <1>1, <2>4, <3>1 DEF IndexerArrives, IndexerStarts, IndexerGivesUpWaiting,
                                     IndexerLosesCall, IndexerEnds, fileVars
  <2>. QED BY <1>5, <2>1, <2>2, <2>3, <2>4 DEF JobStep
<1>6. CASE \E r \in Runs, j \in Jobs : Progress(j, r)
  BY <1>2, <1>6 DEF Progress, fileVars, jobVars
<1>7. CASE Reprocess \/ Redeliver \/ DeleteRow
  BY <1>2, <1>7 DEF Reprocess, Redeliver, DeleteRow, jobVars, fileVars
<1>8. CASE \E S \in Services : Crash(S) \/ CancelTasks(S)
  BY <1>8 DEF Crash, CancelTasks, LoseTasks, Alive, Final, fileVars
<1>. QED BY <1>3, <1>4, <1>5, <1>6, <1>7, <1>8 DEF Next

Finished == \E r \in Runs : RunFinished(r)
Failed   == \E r \in Runs : RunFailed(r)

\* A run that finished, or failed, has done so for good.
LEMMA OutcomeStays ==
  ASSUME TypeOK, [Next]_vars
  PROVE  (Finished => Finished') /\ (Failed => Failed')
<1>. "detector" \in Jobs /\ "media" \in Jobs /\ "indexer" \in Jobs
  BY DEF Jobs
<1>1. ASSUME NEW r \in Runs, RunFinished(r) PROVE RunFinished(r)'
  BY <1>1, FinalStays DEF RunFinished, Final
<1>2. ASSUME NEW r \in Runs, RunFailed(r) PROVE RunFailed(r)'
  BY <1>2, FinalStays DEF RunFailed, Final
<1>. QED BY <1>1, <1>2 DEF Finished, Failed

-------------------------------------------------------------------------------
(* The reports in flight claim no outcome that no run reached.                 *)

ClaimsFinished(m) == m.stage = "COMPLETED" /\ m.status # "FAILED"
ClaimsFailed(m)   == m.status = "FAILED"

\* What a report claims is true now, or in the next state.
Backed(m)     == (ClaimsFinished(m) => Finished) /\ (ClaimsFailed(m) => Failed)
BackedNext(m) == (ClaimsFinished(m) => Finished') /\ (ClaimsFailed(m) => Failed')

QueueBacked    == \A i \in 1..Len(queue) : Backed(queue[i])
HandlersBacked == \A h \in Handlers : Backed(handler[h].msg)

LEMMA BackedStays ==
  ASSUME TypeOK, [Next]_vars
  PROVE  \A m : Backed(m) => BackedNext(m)
BY OutcomeStays DEF Backed, BackedNext

\* QueueBacked and HandlersBacked of the next state.
LEMMA BackedPrimed ==
  /\ (\A i \in 1..Len(queue') : BackedNext(queue'[i])) => QueueBacked'
  /\ (\A h \in Handlers : BackedNext(handler'[h].msg)) => HandlersBacked'
BY DEF QueueBacked, HandlersBacked, Backed, BackedNext

LEMMA SendBacked ==
  ASSUME TypeOK, [Next]_vars, QueueBacked, NEW change \in StageChange, Send(change), BackedNext(change)
  PROVE  QueueBacked'
<1>1. /\ queue \in Seq(StageChange)
      /\ queue' = Append(queue, change)
  BY DEF TypeOK, Send
<1>2. ASSUME NEW i \in 1..Len(queue') PROVE BackedNext(queue'[i])
  <2>1. CASE i = Len(queue) + 1
    <3>1. queue'[i] = change
      BY <1>1, <2>1
    <3>. QED BY <3>1
  <2>2. CASE i \in 1..Len(queue)
    <3>1. queue'[i] = queue[i] /\ Backed(queue[i])
      BY <1>1, <2>2 DEF QueueBacked
    <3>. QED BY <3>1, BackedStays
  <2>3. i = Len(queue) + 1 \/ i \in 1..Len(queue)
    BY <1>1
  <2>. QED BY <2>1, <2>2, <2>3
<1>. QED BY <1>2, BackedPrimed

LEMMA SameQueueBacked ==
  ASSUME TypeOK, [Next]_vars, QueueBacked, queue' = queue
  PROVE  QueueBacked'
BY BackedStays, BackedPrimed DEF QueueBacked

LEMMA SameHandlersBacked ==
  ASSUME TypeOK, [Next]_vars, HandlersBacked, handler' = handler
  PROVE  HandlersBacked'
BY BackedStays, BackedPrimed DEF HandlersBacked

\* The deliveries pass messages between the queue and the handlers.
LEMMA DeliveriesBacked ==
  ASSUME TypeOK, [Next]_vars, QueueBacked, HandlersBacked,
         NEW h \in Handlers, HandlerStep(h) \/ Interrupt(h)
  PROVE  QueueBacked' /\ HandlersBacked'
<1>. /\ queue \in Seq(StageChange)
     /\ handler \in [Handlers -> Delivery]
     /\ handler[h] \in Delivery
     /\ handler[h].msg \in StageChange
  BY DEF TypeOK, Delivery
<1>a. BackedNext(handler[h].msg)
  BY BackedStays DEF HandlersBacked
<1>b. ASSUME handler' = [handler EXCEPT ![h] = handler'[h]], BackedNext(handler'[h].msg)
      PROVE HandlersBacked'
  <2>1. ASSUME NEW g \in Handlers, g # h PROVE BackedNext(handler'[g].msg)
    <3>1. handler'[g] = handler[g]
      BY <1>b, <2>1
    <3>2. Backed(handler[g].msg)
      BY DEF HandlersBacked
    <3>. QED BY <3>1, <3>2, BackedStays
  <2>. QED BY <1>b, <2>1, BackedPrimed
<1>c. BackedNext(Idle.msg)
  BY DEF Idle, BackedNext, ClaimsFinished, ClaimsFailed, FreshState, Report
<1>1. CASE Deliver(h)
  <2>1. BackedNext(Head(queue))
    <3>1. Head(queue) = queue[1] /\ 1 \in 1..Len(queue)
      BY <1>1 DEF Deliver
    <3>. QED BY <3>1, BackedStays DEF QueueBacked
  <2>2. ASSUME NEW i \in 1..Len(queue') PROVE BackedNext(queue'[i])
    <3>1. queue'[i] = queue[i + 1] /\ i + 1 \in 1..Len(queue)
      BY <1>1 DEF Deliver
    <3>. QED BY <3>1, BackedStays DEF QueueBacked
  <2>3. handler' = [handler EXCEPT ![h] = handler'[h]] /\ handler'[h].msg = Head(queue)
    BY <1>1 DEF Deliver
  <2>. QED BY <1>b, <2>1, <2>2, <2>3, BackedPrimed
<1>2. CASE ReadRow(h)
  <2>1. handler' = [handler EXCEPT ![h] = handler'[h]] /\ queue' = queue
    BY <1>2 DEF ReadRow
  <2>2. handler'[h].msg = handler[h].msg \/ handler'[h].msg = Idle.msg
    BY <1>2 DEF ReadRow, Delivery
  <2>. QED BY <1>a, <1>b, <1>c, <2>1, <2>2, SameQueueBacked
<1>3. CASE WriteRow(h)
  <2>1. handler' = [handler EXCEPT ![h] = handler'[h]] /\ queue' = queue
    BY <1>3 DEF WriteRow
  <2>2. handler'[h].msg = handler[h].msg \/ handler'[h].msg = Idle.msg
    BY <1>3 DEF WriteRow, Delivery
  <2>. QED BY <1>a, <1>b, <1>c, <2>1, <2>2, SameQueueBacked
<1>4. CASE Interrupt(h)
  <2>1. /\ handler' = [handler EXCEPT ![h] = handler'[h]]
        /\ handler'[h].msg = handler[h].msg
        /\ queue' = queue
    BY <1>4 DEF Interrupt, Delivery
  <2>. QED BY <1>a, <1>b, <2>1, SameQueueBacked
<1>5. CASE Requeue(h)
  <2>1. ASSUME NEW i \in 1..Len(queue') PROVE BackedNext(queue'[i])
    <3>1. CASE i = 1
      <4>1. queue'[i] = handler[h].msg
        BY <1>5, <3>1 DEF Requeue
      <4>. QED BY <4>1, <1>a
    <3>2. CASE i # 1
      <4>1. queue'[i] = queue[i - 1] /\ i - 1 \in 1..Len(queue)
        BY <1>5, <3>2 DEF Requeue
      <4>. QED BY <4>1, BackedStays DEF QueueBacked
    <3>. QED BY <3>1, <3>2
  <2>2. handler' = [handler EXCEPT ![h] = handler'[h]] /\ handler'[h].msg = Idle.msg
    BY <1>5 DEF Requeue
  <2>. QED BY <1>b, <1>c, <2>1, <2>2, BackedPrimed
<1>. QED BY <1>1, <1>2, <1>3, <1>4, <1>5 DEF HandlerStep

\* A report that a stage other than the last is in progress claims nothing.
LEMMA ProgressBacked ==
  ASSUME NEW stage \in Stages, stage # "COMPLETED", NEW n
  PROVE  BackedNext(Report(stage, "IN_PROGRESS", n))
BY DEF BackedNext, ClaimsFinished, ClaimsFailed, Report

\* The jobs send a report of COMPLETED only as the run finishes, and a report of
\* a failure only as the job fails.
LEMMA JobsBacked ==
  ASSUME TypeOK, [Next]_vars, QueueBacked, NEW r \in Runs,
         JobStep(r) \/ IndexerGivesUpWaiting(r) \/ \E j \in Jobs : Progress(j, r)
  PROVE  QueueBacked'
<1>. /\ "detector" \in Jobs /\ "media" \in Jobs /\ "indexer" \in Jobs
     /\ attempt \in [Jobs -> [Runs -> Nat]]
  BY DEF Jobs, TypeOK
<1>a. ASSUME NEW j \in Jobs, NEW n \in Nat
      PROVE /\ BackedNext(Report(StageOf(j), "IN_PROGRESS", n))
            /\ Report(StageOf(j), "IN_PROGRESS", n) \in StageChange
  <2>1. StageOf(j) \in Stages /\ StageOf(j) # "COMPLETED"
    BY DEF StageOf, Jobs, Stages
  <2>. QED BY <2>1, ProgressBacked, ReportType DEF Statuses
<1>b. Report("COMPLETED", "COMPLETED", 0) \in StageChange
  BY ReportType DEF Stages, Statuses
<1>c. ASSUME Finished' PROVE BackedNext(Report("COMPLETED", "COMPLETED", 0))
  BY <1>c DEF BackedNext, ClaimsFailed, Report
<1>1. ASSUME NEW j \in Jobs, StartUpload(j, r) \/ CheckFile(j, r) PROVE QueueBacked'
  BY <1>1, SameQueueBacked DEF StartUpload, CheckFile
<1>2. ASSUME NEW j \in Jobs, Begin(j, r) \/ Progress(j, r) PROVE QueueBacked'
  BY <1>2, <1>a, SendBacked, SameQueueBacked DEF Begin, Progress
<1>3. CASE DetectorEnds(r)
  <2>1. CASE Move("detector", r, {"working"}, "empty") /\ Send(Report("COMPLETED", "COMPLETED", 0))
    <3>1. job'["detector"][r] = "empty"
      BY <2>1, MoveEffect
    <3>2. Finished'
      BY <3>1 DEF Finished, RunFinished
    <3>. QED BY <2>1, <3>2, <1>b, <1>c, SendBacked
  <2>2. CASE Send(Report("INDEXING", "IN_PROGRESS", 0))
    <3>1. "INDEXING" \in Stages /\ Report("INDEXING", "IN_PROGRESS", 0) \in StageChange
      BY ReportType DEF Stages, Statuses
    <3>. QED BY <2>2, <3>1, ProgressBacked, SendBacked
  <2>3. CASE queue' = queue
    BY <2>3, SameQueueBacked
  <2>. QED BY <1>3, <2>1, <2>2, <2>3 DEF DetectorEnds
<1>4. CASE DetectorAnnounces(r)
  BY <1>4, SameQueueBacked DEF DetectorAnnounces
<1>5. CASE MediaEnds(r)
  <2>1. CASE queue' = queue
    BY <2>1, SameQueueBacked
  <2>2. CASE queue' # queue
    <3>1. /\ Move("media", r, {"working"}, "done")
          /\ kind # "VIDEO" /\ kind' = kind
          /\ Send(Report("COMPLETED", "COMPLETED", 0))
      BY <1>5, <2>2 DEF MediaEnds, fileVars
    <3>2. job'["media"][r] = "done"
      BY <3>1, MoveEffect
    <3>3. Finished'
      BY <3>1, <3>2 DEF Finished, RunFinished
    <3>. QED BY <3>1, <3>3, <1>b, <1>c, SendBacked
  <2>. QED BY <2>1, <2>2
<1>6. CASE IndexerArrives(r) \/ IndexerStarts(r) \/ IndexerGivesUpWaiting(r) \/ IndexerLosesCall(r)
  BY <1>6, SameQueueBacked DEF IndexerArrives, IndexerStarts, IndexerGivesUpWaiting, IndexerLosesCall
<1>7. CASE IndexerEnds(r)
  <2>1. job'["indexer"][r] = "done"
    BY <1>7, MoveEffect DEF IndexerEnds
  <2>2. Finished'
    BY <2>1 DEF Finished, RunFinished
  <2>. QED BY <1>7, <2>2, <1>b, <1>c, SendBacked DEF IndexerEnds
<1>8. ASSUME NEW j \in Jobs, Retry(j, r) PROVE QueueBacked'
  <2>1. attempt[j][r] + 1 \in Nat
    OBVIOUS
  <2>. QED BY <1>8, <1>a, <2>1, SendBacked, SameQueueBacked DEF Retry
<1>9. ASSUME NEW j \in Jobs, Fail(j, r) PROVE QueueBacked'
  <2>1. job'[j][r] = "failed"
    BY <1>9, MoveEffect DEF Fail
  <2>2. Failed'
    BY <2>1 DEF Failed, RunFailed
  <2>3. ASSUME NEW n \in Nat
        PROVE /\ BackedNext(Report(StageOf(j), "FAILED", n))
              /\ Report(StageOf(j), "FAILED", n) \in StageChange
    BY <2>2, StageType, ReportType DEF BackedNext, ClaimsFinished, ClaimsFailed, Report, Statuses
  <2>. QED BY <1>9, <2>3, SendBacked, SameQueueBacked DEF Fail
<1>. QED BY <1>1, <1>2, <1>3, <1>4, <1>5, <1>6, <1>7, <1>8, <1>9 DEF JobStep

\* The invariant behind OutcomeWasReached: not the row alone but every report on
\* its way to it, queued or held by a delivery, claims only what was reached.
OutcomeInv == OutcomeWasReached /\ QueueBacked /\ HandlersBacked

LEMMA OutcomeInit == Init => OutcomeInv
<1>. SUFFICES ASSUME Init PROVE OutcomeInv
  OBVIOUS
<1>1. OutcomeWasReached
  BY DEF Init, OutcomeWasReached, FreshState, Report
<1>2. QueueBacked
  BY DEF Init, QueueBacked
<1>3. HandlersBacked
  BY DEF Init, HandlersBacked, Backed, ClaimsFinished, ClaimsFailed, Idle, FreshState, Report
<1>. QED BY <1>1, <1>2, <1>3 DEF OutcomeInv

\* What is written to the row was backed by what reached the handler.
LEMMA RowBacked ==
  ASSUME TypeOK, [Next]_vars, OutcomeInv
  PROVE  OutcomeWasReached'
<1>. row \in ProcessingState
  BY DEF TypeOK
<1>1. CASE row' = row
  BY <1>1, OutcomeStays DEF OutcomeInv, OutcomeWasReached, Finished, Failed
<1>2. CASE row' = FreshState
  BY <1>2 DEF OutcomeWasReached, FreshState, Report
<1>3. ASSUME NEW h \in Handlers, row' = Applied(row, handler[h].msg) PROVE OutcomeWasReached'
  <2>1. BackedNext(handler[h].msg)
    BY BackedStays DEF OutcomeInv, HandlersBacked
  <2>2. (row'.status = "COMPLETED" => Finished') /\ (row'.status = "FAILED" => Failed')
    BY <1>3, <2>1 DEF Applied, BackedNext, ClaimsFinished, ClaimsFailed, ProcessingState
  <2>. QED BY <2>2 DEF OutcomeWasReached, Finished, Failed
<1>. QED BY <1>1, <1>2, <1>3, RowSteps

\* A row that says COMPLETED, or FAILED, does so because some run of the file
\* finished, or failed: no loss, repetition or reordering makes an outcome up.
THEOREM OutcomeReached == Spec => []OutcomeWasReached
<1>1. TypeOK /\ OutcomeInv /\ [Next]_vars => OutcomeInv'
  <2>. SUFFICES ASSUME TypeOK, OutcomeInv, [Next]_vars PROVE QueueBacked' /\ HandlersBacked'
    BY RowBacked DEF OutcomeInv
  <2>. QueueBacked /\ HandlersBacked
    BY DEF OutcomeInv
  <2>1. CASE UNCHANGED vars
    BY <2>1, SameQueueBacked, SameHandlersBacked DEF vars
  <2>2. CASE \E h \in Handlers : HandlerStep(h) \/ Interrupt(h)
    BY <2>2, DeliveriesBacked
  <2>3. ASSUME NEW r \in Runs, JobStep(r) \/ IndexerGivesUpWaiting(r) \/ \E j \in Jobs : Progress(j, r)
        PROVE  QueueBacked' /\ HandlersBacked'
    <3>1. handler' = handler
      BY <2>3 DEF JobStep, StartUpload, CheckFile, Begin, DetectorEnds, DetectorAnnounces, MediaEnds,
                  IndexerArrives, IndexerStarts, IndexerLosesCall, IndexerEnds,
                  IndexerGivesUpWaiting, Retry, Fail, Progress
    <3>. QED BY <2>3, <3>1, JobsBacked, SameHandlersBacked
  <2>4. CASE Reprocess \/ Redeliver \/ DeleteRow
    BY <2>4, SameQueueBacked, SameHandlersBacked DEF Reprocess, Redeliver, DeleteRow
  <2>5. CASE \E S \in Services : Crash(S) \/ CancelTasks(S)
    BY <2>5, SameQueueBacked, SameHandlersBacked DEF Crash, CancelTasks, LoseTasks
  <2>. QED BY <2>1, <2>2, <2>3, <2>4, <2>5 DEF Next
<1>2. OutcomeInv => OutcomeWasReached
  BY DEF OutcomeInv
<1>. QED BY OutcomeInit, <1>1, <1>2, TypeCorrect, PTL DEF Spec

-------------------------------------------------------------------------------
(* The writes of a handler that read the current row.                          *)

\* A handler that is about to write decided to do so on the row it read.
UpdateWanted ==
  \A h \in Handlers : handler[h].pc = "writing" => ~Ignored(handler[h].seen, handler[h].msg)

LEMMA UpdateStays ==
  ASSUME TypeOK, UpdateWanted, [Next]_vars
  PROVE  UpdateWanted'
<1>. handler \in [Handlers -> Delivery]
  BY DEF TypeOK
<1>1. CASE handler' = handler
  BY <1>1 DEF UpdateWanted
<1>2. ASSUME NEW h \in Handlers, HandlerStep(h) \/ Interrupt(h) PROVE UpdateWanted'
  <2>1. handler' = [handler EXCEPT ![h] = handler'[h]]
    BY <1>2 DEF HandlerStep, Deliver, ReadRow, WriteRow, Requeue, Interrupt
  <2>2. handler'[h].pc = "writing" => ~Ignored(handler'[h].seen, handler'[h].msg)
    <3>1. CASE ReadRow(h)
      <4>1. CASE present /\ ~Ignored(row, handler[h].msg)
        <5>1. handler'[h] = [handler[h] EXCEPT !.pc = "writing", !.seen = row]
          BY <3>1, <4>1 DEF ReadRow
        <5>2. handler'[h].seen = row /\ handler'[h].msg = handler[h].msg
          BY <5>1 DEF Delivery
        <5>. QED BY <4>1, <5>2
      <4>2. CASE ~(present /\ ~Ignored(row, handler[h].msg))
        BY <3>1, <4>2 DEF ReadRow, Idle
      <4>. QED BY <4>1, <4>2
    <3>2. CASE Deliver(h) \/ WriteRow(h) \/ Requeue(h) \/ Interrupt(h)
      <4>1. handler'[h].pc # "writing"
        BY <3>2 DEF Deliver, WriteRow, Requeue, Interrupt, Idle, Delivery
      <4>. QED BY <4>1
    <3>. QED BY <1>2, <3>1, <3>2 DEF HandlerStep
  <2>3. ASSUME NEW g \in Handlers, g # h PROVE handler'[g] = handler[g]
    BY <2>1, <2>3
  <2>. QED BY <2>2, <2>3 DEF UpdateWanted
<1>3. handler' = handler \/ \E h \in Handlers : HandlerStep(h) \/ Interrupt(h)
  BY DEF Next, vars, JobStep, StartUpload, CheckFile, Begin, DetectorEnds, DetectorAnnounces,
         MediaEnds, IndexerArrives, IndexerStarts, IndexerLosesCall, IndexerEnds,
         IndexerGivesUpWaiting, Retry, Fail, Progress, Reprocess, Redeliver, DeleteRow,
         Crash, CancelTasks, LoseTasks
<1>. QED BY <1>1, <1>2, <1>3

\* An update decided on the current row moves it forward.
LEMMA AppliedForward ==
  ASSUME NEW seen \in ProcessingState, NEW change \in StageChange, ~Ignored(seen, change)
  PROVE  /\ seen.status # "COMPLETED"
         /\ Rank(Applied(seen, change).stage) >= Rank(seen.stage)
<1>1. Rank(seen.stage) \in Nat /\ Rank(change.stage) \in Nat
  BY DEF Rank, ProcessingState, StageChange, Stages
<1>2. Applied(seen, change).stage = IF change.status = "FAILED" THEN seen.stage ELSE change.stage
  BY DEF Applied, ProcessingState
<1>. QED BY <1>1, <1>2 DEF Ignored

\* Only a stale read can move a file back or reopen it: the write of a handler
\* whose row did not change since its read does neither.
THEOREM FreshWrites == Spec => FreshWritesMoveForward
<1>1. Init => UpdateWanted
  BY DEF Init, UpdateWanted, Idle
<1>2. ASSUME TypeOK, UpdateWanted, [Next]_vars, NEW h \in Handlers,
             handler[h].pc = "writing", handler[h].seen = row, handler'[h] # handler[h]
      PROVE  Rank(row'.stage) >= Rank(row.stage) /\ (row.status = "COMPLETED" => row' = row)
  <2>. row \in ProcessingState /\ handler \in [Handlers -> Delivery]
    BY <1>2 DEF TypeOK
  <2>. handler[h].msg \in StageChange
    BY DEF Delivery
  <2>1. row' = row \/ row' = Applied(row, handler[h].msg)
    <3>1. \E g \in Handlers : HandlerStep(g) \/ Interrupt(g)
      BY <1>2 DEF Next, vars, JobStep, StartUpload, CheckFile, Begin, DetectorEnds,
             DetectorAnnounces, MediaEnds, IndexerArrives, IndexerStarts, IndexerLosesCall,
             IndexerEnds, IndexerGivesUpWaiting, Retry, Fail, Progress, Reprocess, Redeliver,
             DeleteRow, Crash, CancelTasks, LoseTasks
    <3>2. HandlerStep(h) \/ Interrupt(h)
      BY <1>2, <3>1 DEF HandlerStep, Deliver, ReadRow, WriteRow, Requeue, Interrupt
    <3>. QED BY <3>2 DEF HandlerStep, Deliver, ReadRow, WriteRow, Requeue, Interrupt, fileVars
  <2>2. Rank(row.stage) \in Nat
    BY DEF Rank, ProcessingState, Stages
  <2>3. /\ row.status # "COMPLETED"
        /\ Rank(Applied(row, handler[h].msg).stage) >= Rank(row.stage)
    BY <1>2, AppliedForward DEF UpdateWanted
  <2>. QED BY <2>1, <2>2, <2>3
<1>3. TypeOK /\ UpdateWanted /\ [Next]_vars =>
        [\A h \in Handlers :
           handler[h].pc = "writing" /\ handler[h].seen = row /\ handler'[h] # handler[h]
             => Rank(row'.stage) >= Rank(row.stage) /\ (row.status = "COMPLETED" => row' = row)]_vars
  BY <1>2
<1>4. TypeOK /\ UpdateWanted /\ [Next]_vars => UpdateWanted'
  BY UpdateStays
<1>. QED BY <1>1, <1>3, <1>4, TypeCorrect, PTL DEF Spec, FreshWritesMoveForward

-------------------------------------------------------------------------------
(* One delivery at a time, whatever is reprocessed, lost or sent again in       *)
(* between: runs of the file may overlap, and deliveries be interrupted.        *)

\* The stages that services report: none goes back to before the upload was announced.
Reports == {change \in StageChange : change.stage # "UPLOAD"}
ReportsOnly == queue \in Seq(Reports) /\ \A h \in Handlers : handler[h].msg \in Reports

LEMMA ReportsAreReports ==
  /\ FreshState \in Reports
  /\ \A j \in Jobs, status \in Statuses, n \in Nat : Report(StageOf(j), status, n) \in Reports
  /\ \A stage \in {"INDEXING", "COMPLETED"}, status \in Statuses : Report(stage, status, 0) \in Reports
<1>1. FreshState \in Reports
  BY FreshType DEF Reports, FreshState, Report, StageChange, Stages, Statuses
<1>2. ASSUME NEW j \in Jobs, NEW status \in Statuses, NEW n \in Nat
      PROVE  Report(StageOf(j), status, n) \in Reports
  <2>1. StageOf(j) \in Stages /\ StageOf(j) # "UPLOAD"
    BY DEF StageOf, Jobs, Stages
  <2>. QED BY <2>1 DEF Reports, Report, StageChange
<1>3. ASSUME NEW stage \in {"INDEXING", "COMPLETED"}, NEW status \in Statuses
      PROVE  Report(stage, status, 0) \in Reports
  BY DEF Reports, Report, StageChange, Stages
<1>. QED BY <1>1, <1>2, <1>3

\* A job sends what its stage allows, or nothing, and leaves the deliveries alone.
LEMMA JobsReport ==
  ASSUME TypeOK, ReportsOnly, NEW r \in Runs,
         JobStep(r) \/ IndexerGivesUpWaiting(r) \/ \E j \in Jobs : Progress(j, r)
  PROVE  handler' = handler /\ queue' \in Seq(Reports)
<1>. /\ "detector" \in Jobs /\ "media" \in Jobs /\ "indexer" \in Jobs
     /\ attempt \in [Jobs -> [Runs -> Nat]]
     /\ queue \in Seq(Reports)
     /\ {"IN_PROGRESS", "FAILED", "COMPLETED"} \subseteq Statuses
  BY DEF Jobs, TypeOK, ReportsOnly, Statuses
<1>1. handler' = handler
  BY DEF JobStep, StartUpload, CheckFile, Begin, DetectorEnds, DetectorAnnounces, MediaEnds,
         IndexerArrives, IndexerStarts, IndexerLosesCall, IndexerEnds, IndexerGivesUpWaiting,
         Retry, Fail, Progress
<1>2. ASSUME NEW change \in Reports, Send(change) PROVE queue' \in Seq(Reports)
  BY <1>2 DEF Send
<1>3. ASSUME NEW j \in Jobs, Begin(j, r) \/ Progress(j, r) \/ Retry(j, r) \/ Fail(j, r)
      PROVE  queue' \in Seq(Reports)
  <2>1. attempt[j][r] \in Nat /\ attempt[j][r] + 1 \in Nat
    OBVIOUS
  <2>. QED BY <1>2, <1>3, <2>1, ReportsAreReports DEF Begin, Progress, Retry, Fail
<1>4. DetectorEnds(r) \/ MediaEnds(r) \/ IndexerEnds(r) => queue' \in Seq(Reports)
  BY <1>2, ReportsAreReports DEF DetectorEnds, MediaEnds, IndexerEnds
<1>5. (\E j \in Jobs : StartUpload(j, r) \/ CheckFile(j, r)) \/ DetectorAnnounces(r) \/ IndexerArrives(r)
        \/ IndexerStarts(r) \/ IndexerLosesCall(r) \/ IndexerGivesUpWaiting(r) => queue' = queue
  BY DEF StartUpload, CheckFile, DetectorAnnounces, IndexerArrives, IndexerStarts, IndexerLosesCall,
         IndexerGivesUpWaiting
<1>. QED BY <1>1, <1>3, <1>4, <1>5 DEF JobStep

\* One step of Next, by what it does to the row, the queue and the deliveries.
LEMMA StepsByActor ==
  ASSUME TypeOK, ReportsOnly, [Next]_vars
  PROVE  \/ \E h \in Handlers : HandlerStep(h) \/ Interrupt(h)
         \/ row' \in {row, FreshState} /\ handler' = handler /\ queue' \in Seq(Reports)
<1>. queue \in Seq(Reports)
  BY DEF ReportsOnly
<1>1. CASE UNCHANGED vars
  BY <1>1 DEF vars, fileVars
<1>2. ASSUME NEW r \in Runs, JobStep(r) \/ IndexerGivesUpWaiting(r) \/ \E j \in Jobs : Progress(j, r)
      PROVE  row' \in {row, FreshState} /\ handler' = handler /\ queue' \in Seq(Reports)
  <2>1. row' = row
    BY <1>2 DEF JobStep, StartUpload, CheckFile, Begin, DetectorEnds, DetectorAnnounces, MediaEnds,
           IndexerArrives, IndexerStarts, IndexerLosesCall, IndexerEnds, IndexerGivesUpWaiting,
           Retry, Fail, Progress, fileVars
  <2>. QED BY <1>2, <2>1, JobsReport
<1>3. CASE Reprocess \/ Redeliver \/ DeleteRow
  BY <1>3 DEF Reprocess, Redeliver, DeleteRow
<1>4. CASE \E S \in Services : Crash(S) \/ CancelTasks(S)
  BY <1>4 DEF Crash, CancelTasks, LoseTasks, fileVars
<1>. QED BY <1>1, <1>2, <1>3, <1>4 DEF Next

\* What a delivery does: its message comes from the queue and goes back to it, and
\* the row is written only by one that was writing.
LEMMA DeliverySteps ==
  ASSUME TypeOK, ReportsOnly, NEW h \in Handlers, HandlerStep(h) \/ Interrupt(h)
  PROVE  /\ queue' \in Seq(Reports) /\ handler'[h].msg \in Reports
         /\ \A g \in Handlers : g # h => handler'[g] = handler[g]
         /\ handler'[h].pc = "writing" => handler'[h].seen = row /\ row' = row
         /\ row' = row \/ (handler[h].pc = "writing" /\ row' = Applied(row, handler[h].msg))
<1>. /\ queue \in Seq(Reports) /\ handler[h].msg \in Reports
     /\ handler \in [Handlers -> Delivery] /\ handler[h] \in Delivery
  BY DEF TypeOK, ReportsOnly
<1>. Idle.msg \in Reports /\ Idle.pc # "writing"
  BY ReportsAreReports DEF Idle
<1>1. handler' = [handler EXCEPT ![h] = handler'[h]]
  BY DEF HandlerStep, Deliver, ReadRow, WriteRow, Requeue, Interrupt
<1>2. queue' \in Seq(Reports) /\ handler'[h].msg \in Reports
  <2>1. CASE Deliver(h)
    <3>1. Head(queue) \in Reports /\ Tail(queue) \in Seq(Reports)
      BY <2>1 DEF Deliver
    <3>2. handler'[h].msg = Head(queue) /\ queue' = Tail(queue)
      BY <2>1 DEF Deliver
    <3>. QED BY <3>1, <3>2
  <2>2. CASE ReadRow(h) \/ WriteRow(h) \/ Interrupt(h)
    <3>1. queue' = queue
      BY <2>2 DEF ReadRow, WriteRow, Interrupt
    <3>2. handler'[h].msg = handler[h].msg \/ handler'[h] = Idle
      BY <2>2 DEF ReadRow, WriteRow, Interrupt, Delivery
    <3>. QED BY <3>1, <3>2
  <2>3. CASE Requeue(h)
    <3>1. queue' = <<handler[h].msg>> \o queue /\ handler'[h] = Idle
      BY <2>3 DEF Requeue
    <3>. QED BY <3>1
  <2>. QED BY <2>1, <2>2, <2>3 DEF HandlerStep
<1>3. handler'[h].pc = "writing" => handler'[h].seen = row /\ row' = row
  <2>1. CASE ReadRow(h)
    <3>1. row' = row
      BY <2>1 DEF ReadRow, fileVars
    <3>2. handler'[h] = Idle \/ handler'[h].seen = row
      BY <2>1 DEF ReadRow, Delivery
    <3>. QED BY <3>1, <3>2
  <2>2. CASE Deliver(h) \/ WriteRow(h) \/ Requeue(h) \/ Interrupt(h)
    <3>1. handler'[h].pc # "writing"
      BY <2>2 DEF Deliver, WriteRow, Requeue, Interrupt, Idle, Delivery
    <3>. QED BY <3>1
  <2>. QED BY <2>1, <2>2 DEF HandlerStep
<1>4. row' = row \/ (handler[h].pc = "writing" /\ row' = Applied(row, handler[h].msg))
  <2>1. Deliver(h) \/ ReadRow(h) \/ Requeue(h) => row' = row
    BY DEF Deliver, ReadRow, Requeue, fileVars
  <2>2. CASE WriteRow(h)
    BY <2>2 DEF WriteRow
  <2>3. CASE Interrupt(h)
    BY <2>3 DEF Interrupt
  <2>. QED BY <2>1, <2>2, <2>3 DEF HandlerStep
<1>5. ASSUME NEW g \in Handlers, g # h PROVE handler'[g] = handler[g]
  BY <1>1, <1>5
<1>. QED BY <1>2, <1>3, <1>4, <1>5

LEMMA ReportsStay ==
  ASSUME TypeOK, ReportsOnly, [Next]_vars
  PROVE  ReportsOnly'
BY StepsByActor, DeliverySteps DEF ReportsOnly

\* A single delivery writes over the row it read, or over one reset meanwhile.
SeenOrReset == \A h \in Handlers : handler[h].pc = "writing" => row \in {handler[h].seen, FreshState}

LEMMA SeenStays ==
  ASSUME \A g, h \in Handlers : g = h, TypeOK, ReportsOnly, SeenOrReset, [Next]_vars
  PROVE  SeenOrReset'
<1>1. CASE row' \in {row, FreshState} /\ handler' = handler
  BY <1>1 DEF SeenOrReset
<1>2. ASSUME NEW h \in Handlers, HandlerStep(h) \/ Interrupt(h) PROVE SeenOrReset'
  BY <1>2, DeliverySteps DEF SeenOrReset
<1>. QED BY <1>1, <1>2, StepsByActor

\* A report applied to a row that was reset moves it forward too.
LEMMA ResetForward ==
  ASSUME NEW change \in Reports
  PROVE  FreshState.status # "COMPLETED" /\ Rank(Applied(FreshState, change).stage) >= Rank(FreshState.stage)
<1>1. FreshState.stage = "EMBEDDING" /\ FreshState.status = "IN_PROGRESS"
  BY DEF FreshState, Report
<1>2. Applied(FreshState, change).stage \in Stages \ {"UPLOAD"}
  BY <1>1, FreshType DEF Applied, Reports, StageChange, ProcessingState, Stages
<1>. QED BY <1>1, <1>2 DEF Rank, Stages

\* With one delivery at a time stage changes are applied forward-only, as the documents
\* say, also when the file is reprocessed between the read and the write and when
\* reports of an earlier run are still on their way (onStageChanged).
THEOREM SerialIsForwardOnly ==
  ASSUME \A g, h \in Handlers : g = h
  PROVE  Spec => ForwardOnly
<1>1. Init => UpdateWanted /\ ReportsOnly /\ SeenOrReset
  BY ReportsAreReports DEF Init, UpdateWanted, ReportsOnly, SeenOrReset, Idle
<1>2. TypeOK /\ UpdateWanted /\ ReportsOnly /\ SeenOrReset /\ [Next]_vars
        => (UpdateWanted /\ ReportsOnly /\ SeenOrReset)'
  BY UpdateStays, ReportsStay, SeenStays
<1>3. ASSUME TypeOK, UpdateWanted, ReportsOnly, SeenOrReset, [Next]_vars, handler' # handler
      PROVE  Rank(row'.stage) >= Rank(row.stage) /\ (row.status = "COMPLETED" => row' = row)
  <2>1. PICK h \in Handlers : HandlerStep(h) \/ Interrupt(h)
    BY <1>3, StepsByActor
  <2>2. row \in ProcessingState /\ handler[h].msg \in Reports /\ handler[h].msg \in StageChange
    BY <1>3 DEF TypeOK, ReportsOnly, Reports
  <2>3. CASE row' = row
    BY <2>2, <2>3 DEF Rank, ProcessingState, Stages
  <2>4. CASE handler[h].pc = "writing" /\ row' = Applied(row, handler[h].msg)
    <3>1. CASE row = handler[h].seen
      BY <1>3, <2>2, <2>4, <3>1, AppliedForward DEF UpdateWanted
    <3>2. CASE row = FreshState
      BY <2>2, <2>4, <3>2, ResetForward
    <3>. QED BY <1>3, <2>4, <3>1, <3>2 DEF SeenOrReset
  <2>. QED BY <1>3, <2>1, <2>3, <2>4, DeliverySteps
<1>4. TypeOK /\ UpdateWanted /\ ReportsOnly /\ SeenOrReset /\ [Next]_vars =>
        [handler' # handler
           => Rank(row'.stage) >= Rank(row.stage) /\ (row.status = "COMPLETED" => row' = row)]_vars
  BY <1>3
<1>. QED BY <1>1, <1>2, <1>4, TypeCorrect, PTL DEF Spec, ForwardOnly

-------------------------------------------------------------------------------
(* The scenes of a video wait for its transcription, however many runs of the  *)
(* file overlap.                                                               *)

\* Runs reach the media task in order.
StartedInOrder ==
  \A q, r \in Runs : q < r /\ job["media"][q] = "idle" => job["media"][r] = "idle"

\* The task in _transcriptions has not ended.
RegisteredIsAlive == transcription # 0 => job["media"][transcription] \in Alive

\* Once the transcription of a run is gone from _transcriptions, it is over or
\* that of a later run has taken its place or is over.
StartedIsKept ==
  kind = "VIDEO" => \A r \in Runs :
    job["media"][r] # "idle" => transcription >= r \/ \E q \in r..MaxRuns : Over(q)

\* Only the detector finds scenes, and only in a video.
Roles ==
  \A r \in Runs : /\ job["media"][r] \notin {"found", "announced", "empty"}
                  /\ job["detector"][r] \in {"found", "announced"} => kind = "VIDEO"
                  /\ job["indexer"][r] # "found"

\* An indexer waits for the task of its run or of a later one, or has none to wait for.
WaitsForItsRun ==
  \A r \in Runs :
    job["indexer"][r] # "idle" =>
      \/ awaits[r] \in r..MaxRuns /\ job["media"][awaits[r]] # "idle"
      \/ \E q \in r..MaxRuns : Over(q)

WaitInv ==
  /\ StartedInOrder
  /\ RegisteredIsAlive
  /\ StartedIsKept
  /\ Roles
  /\ WaitsForItsRun
  /\ ScenesWaitForTranscript

-------------------------------------------------------------------------------
LEMMA WaitInit == Init => WaitInv
BY DEF Init, WaitInv, StartedInOrder, RegisteredIsAlive, StartedIsKept, Roles, WaitsForItsRun,
       ScenesWaitForTranscript, Running, Runs, Jobs

LEMMA RunsArithmetic ==
  /\ \A r \in Runs : r \in Nat /\ r # 0 /\ r \in r..MaxRuns
  /\ \A t \in 0..MaxRuns : t # 0 => t \in Runs
  /\ \A r \in Runs, t \in 0..MaxRuns : t >= r => t # 0 /\ t \in r..MaxRuns
  /\ \A r \in Runs : r..MaxRuns \subseteq Runs
BY BoundsAssumption DEF Runs

\* A step that leaves kind, the tasks and what is known of them keeps WaitInv.
LEMMA WaitUnchanged ==
  ASSUME WaitInv, UNCHANGED <<kind, job, transcription, awaits, late>>
  PROVE  WaitInv'
BY DEF WaitInv, StartedInOrder, RegisteredIsAlive, StartedIsKept, Roles, WaitsForItsRun,
       ScenesWaitForTranscript, Over

\* A move of the detector or the indexer leaves the media tasks alone.
LEMMA OthersKeepMedia ==
  ASSUME TypeOK, WaitInv, UNCHANGED <<kind, transcription>>,
         \A r \in Runs : job'["media"][r] = job["media"][r]
  PROVE  StartedInOrder' /\ RegisteredIsAlive' /\ StartedIsKept' /\ (\A r \in Runs : Over(r)' = Over(r))
<1>1. transcription # 0 => transcription \in Runs
  BY RunsArithmetic DEF TypeOK
<1>2. \A r \in Runs : Over(r)' = Over(r)
  BY DEF Over
<1>3. StartedInOrder' /\ RegisteredIsAlive'
  BY <1>1 DEF WaitInv, StartedInOrder, RegisteredIsAlive
<1>4. StartedIsKept'
  BY <1>2, RunsArithmetic DEF WaitInv, StartedIsKept
<1>. QED BY <1>2, <1>3, <1>4

\* Nothing is taken from a waiting indexer as long as what was started stays
\* started, what was over stays over, and no indexer starts.
LEMMA IndexersKept ==
  ASSUME TypeOK, WaitInv, awaits' = awaits, late \subseteq late',
         \A r \in Runs : /\ Over(r) => Over(r)'
                         /\ job["media"][r] # "idle" => job'["media"][r] # "idle"
                         /\ job'["indexer"][r] # "idle" => job["indexer"][r] # "idle"
                         /\ job'["indexer"][r] \in Running => job["indexer"][r] \in Running
  PROVE  WaitsForItsRun' /\ ScenesWaitForTranscript'
<1>. WaitsForItsRun /\ ScenesWaitForTranscript
  BY DEF WaitInv
<1>1. WaitsForItsRun'
  <2>. SUFFICES ASSUME NEW r \in Runs, job'["indexer"][r] # "idle"
                PROVE \/ awaits[r] \in r..MaxRuns /\ job'["media"][awaits[r]] # "idle"
                      \/ \E q \in r..MaxRuns : Over(q)'
    BY DEF WaitsForItsRun
  <2>. QED BY RunsArithmetic DEF WaitsForItsRun, Over
<1>2. ScenesWaitForTranscript'
  <2>. SUFFICES ASSUME NEW r \in Runs, job'["indexer"][r] \in Running, r \notin late'
                PROVE \E q \in r..MaxRuns : Over(q)'
    BY DEF ScenesWaitForTranscript
  <2>. QED BY RunsArithmetic DEF ScenesWaitForTranscript, Over
<1>. QED BY <1>1, <1>2

-------------------------------------------------------------------------------
(* The media task.                                                             *)

LEMMA MediaStarts ==
  ASSUME TypeOK, WaitInv, NEW r \in Runs, StartUpload("media", r)
  PROVE  WaitInv'
<1>. "media" \in Jobs /\ "detector" \in Jobs /\ "indexer" \in Jobs
  BY DEF Jobs
<1>. /\ job["media"][r] = "idle"
     /\ job'["media"][r] = "waiting"
     /\ \A i \in Jobs, q \in Runs : i # "media" \/ q # r => job'[i][q] = job[i][q]
  BY MoveEffect DEF StartUpload
<1>. /\ \A q \in 1..(r - 1) : job["media"][q] # "idle"
     /\ transcription' = IF kind = "VIDEO" THEN r ELSE transcription
     /\ kind' = kind /\ awaits' = awaits /\ late' = late
  BY DEF StartUpload, fileVars
<1>. /\ StartedInOrder /\ RegisteredIsAlive /\ Roles
     /\ transcription # 0 => transcription \in Runs
  BY RunsArithmetic DEF WaitInv, TypeOK
<1>1. \A q \in Runs : Over(q) => Over(q)'
  BY DEF Over
<1>2. StartedInOrder'
  <2>. SUFFICES ASSUME NEW p \in Runs, NEW q \in Runs, p < q, job'["media"][p] = "idle"
                PROVE job'["media"][q] = "idle"
    BY DEF StartedInOrder
  <2>1. p # r /\ job["media"][p] = "idle"
    OBVIOUS
  <2>2. ~(p < r)
    BY <2>1 DEF Runs
  <2>3. q # r
    BY <2>2
  <2>. QED BY <2>1, <2>3 DEF StartedInOrder
<1>3. RegisteredIsAlive'
  BY DEF RegisteredIsAlive, Alive
<1>4. StartedIsKept'
  <2>. SUFFICES ASSUME kind = "VIDEO", NEW q \in Runs, job'["media"][q] # "idle"
                PROVE  transcription' >= q
    BY DEF StartedIsKept
  <2>1. CASE q = r
    BY <2>1 DEF Runs
  <2>2. CASE q # r
    <3>1. ~(r < q)
      BY <2>2 DEF StartedInOrder
    <3>. QED BY <3>1 DEF Runs
  <2>. QED BY <2>1, <2>2
<1>5. Roles'
  BY DEF Roles
<1>6. WaitsForItsRun' /\ ScenesWaitForTranscript'
  BY <1>1, IndexersKept
<1>. QED BY <1>2, <1>3, <1>4, <1>5, <1>6 DEF WaitInv

\* The task moves on without ending.
LEMMA MediaContinues ==
  ASSUME TypeOK, WaitInv, NEW r \in Runs,
         NEW from, NEW to \in {"ready", "working"}, Move("media", r, from, to),
         from \subseteq Alive,
         UNCHANGED <<kind, transcription, awaits, late>>
  PROVE  WaitInv'
<1>. "media" \in Jobs /\ "detector" \in Jobs /\ "indexer" \in Jobs
  BY DEF Jobs
<1>. /\ job["media"][r] \in Alive
     /\ job'["media"][r] = to
     /\ \A i \in Jobs, q \in Runs : i # "media" \/ q # r => job'[i][q] = job[i][q]
  BY MoveEffect
<1>. /\ StartedInOrder /\ RegisteredIsAlive /\ StartedIsKept /\ Roles
     /\ transcription # 0 => transcription \in Runs
  BY RunsArithmetic DEF WaitInv, TypeOK
<1>1. \A q \in Runs : Over(q)' = Over(q)
  BY DEF Over, Alive
<1>2. \A q \in Runs : (job'["media"][q] = "idle") = (job["media"][q] = "idle")
  BY DEF Alive
<1>3. StartedInOrder' /\ RegisteredIsAlive'
  BY <1>2 DEF StartedInOrder, RegisteredIsAlive, Alive
<1>4. StartedIsKept'
  BY <1>1, <1>2, RunsArithmetic DEF StartedIsKept
<1>5. Roles'
  BY DEF Roles
<1>6. WaitsForItsRun' /\ ScenesWaitForTranscript'
  BY <1>1, <1>2, IndexersKept
<1>. QED BY <1>3, <1>4, <1>5, <1>6 DEF WaitInv

\* The task ends and leaves _transcriptions.
LEMMA MediaLeaves ==
  ASSUME TypeOK, WaitInv, NEW r \in Runs,
         NEW from, NEW to \in {"done", "failed", "skipped"}, Move("media", r, from, to),
         from \subseteq Alive, LeaveTranscriptions("media", r),
         UNCHANGED <<kind, awaits, late>>
  PROVE  WaitInv'
<1>. "media" \in Jobs /\ "detector" \in Jobs /\ "indexer" \in Jobs
  BY DEF Jobs
<1>. /\ job["media"][r] \in Alive
     /\ job'["media"][r] = to
     /\ \A i \in Jobs, q \in Runs : i # "media" \/ q # r => job'[i][q] = job[i][q]
     /\ transcription' = IF transcription = r THEN 0 ELSE transcription
  BY MoveEffect DEF LeaveTranscriptions
<1>. /\ StartedInOrder /\ RegisteredIsAlive /\ StartedIsKept /\ Roles
     /\ transcription # 0 => transcription \in Runs
     /\ transcription \in 0..MaxRuns
  BY RunsArithmetic DEF WaitInv, TypeOK
<1>1. Over(r)' /\ \A q \in Runs : Over(q) => Over(q)'
  BY DEF Over
<1>2. \A q \in Runs : (job'["media"][q] = "idle") = (job["media"][q] = "idle")
  BY DEF Alive
<1>3. StartedInOrder' /\ RegisteredIsAlive'
  BY <1>2 DEF StartedInOrder, RegisteredIsAlive
<1>4. StartedIsKept'
  <2>. SUFFICES ASSUME kind = "VIDEO", NEW q \in Runs, job'["media"][q] # "idle",
                       ~(transcription' >= q)
                PROVE  \E p \in q..MaxRuns : Over(p)'
    BY DEF StartedIsKept
  <2>1. CASE transcription = r /\ transcription >= q
    BY <1>1, <2>1, RunsArithmetic
  <2>2. CASE ~(transcription >= q)
    <3>1. \E p \in q..MaxRuns : Over(p)
      BY <1>2, <2>2 DEF StartedIsKept
    <3>. QED BY <1>1, <3>1, RunsArithmetic
  <2>. QED BY <2>1, <2>2
<1>5. Roles'
  BY DEF Roles
<1>6. WaitsForItsRun' /\ ScenesWaitForTranscript'
  BY <1>1, <1>2, IndexersKept
<1>. QED BY <1>3, <1>4, <1>5, <1>6 DEF WaitInv

\* A process dies, or the tasks of a deleted file are cancelled.
LEMMA TasksLost ==
  ASSUME TypeOK, WaitInv, NEW S \in Services, LoseTasks(S)
  PROVE  WaitInv'
<1>. "media" \in Jobs /\ "detector" \in Jobs /\ "indexer" \in Jobs
  BY DEF Jobs
<1>. /\ \A j \in Jobs, r \in Runs :
          job'[j][r] = IF j \in S /\ job[j][r] \in Alive THEN "lost" ELSE job[j][r]
     /\ transcription' = IF "media" \in S THEN 0 ELSE transcription
     /\ kind' = kind /\ awaits' = awaits /\ late' = late
  BY DEF LoseTasks, fileVars
<1>. /\ StartedInOrder /\ RegisteredIsAlive /\ StartedIsKept /\ Roles
     /\ transcription # 0 => transcription \in Runs
     /\ transcription \in 0..MaxRuns
  BY RunsArithmetic DEF WaitInv, TypeOK
<1>1. \A q \in Runs : Over(q) => Over(q)'
  BY DEF Over, Alive
<1>2. \A j \in Jobs, q \in Runs : (job'[j][q] = "idle") = (job[j][q] = "idle")
  BY DEF Alive
<1>3. StartedInOrder' /\ RegisteredIsAlive'
  BY <1>2 DEF StartedInOrder, RegisteredIsAlive
<1>4. StartedIsKept'
  <2>. SUFFICES ASSUME kind = "VIDEO", NEW q \in Runs, job'["media"][q] # "idle",
                       ~(transcription' >= q)
                PROVE  \E p \in q..MaxRuns : Over(p)'
    BY DEF StartedIsKept
  <2>1. CASE "media" \in S /\ transcription >= q
    <3>1. transcription \in q..MaxRuns /\ transcription \in Runs
      BY <2>1, RunsArithmetic
    <3>2. Over(transcription) \/ job'["media"][transcription] = "lost"
      BY <2>1, <3>1, RunsArithmetic DEF RegisteredIsAlive
    <3>. QED BY <1>1, <3>1, <3>2 DEF Over
  <2>2. CASE ~(transcription >= q)
    <3>1. \E p \in q..MaxRuns : Over(p)
      BY <1>2, <2>2 DEF StartedIsKept
    <3>. QED BY <1>1, <3>1, RunsArithmetic
  <2>. QED BY <2>1, <2>2
<1>5. Roles'
  BY DEF Roles
<1>6. WaitsForItsRun' /\ ScenesWaitForTranscript'
  <2>1. \A q \in Runs : job'["indexer"][q] \in Running => job["indexer"][q] \in Running
    BY DEF Running
  <2>. QED BY <1>1, <1>2, <2>1, IndexersKept
<1>. QED BY <1>3, <1>4, <1>5, <1>6 DEF WaitInv

-------------------------------------------------------------------------------
(* The detector and the indexer.                                               *)

\* A move of another task than the media task that starts no indexer.
LEMMA OthersMove ==
  ASSUME TypeOK, WaitInv, NEW j \in {"detector", "indexer"}, NEW r \in Runs,
         NEW from, NEW to, Move(j, r, from, to),
         UNCHANGED <<kind, transcription, awaits>>, late \subseteq late',
         j = "detector" /\ to \in {"found", "announced"} => kind = "VIDEO",
         j = "indexer" => /\ "idle" \notin from /\ to # "found"
                          /\ to \in Running => from \subseteq Running \union {"found"}
  PROVE  WaitInv'
<1>. "media" \in Jobs /\ "detector" \in Jobs /\ "indexer" \in Jobs /\ j \in Jobs /\ j # "media"
  BY DEF Jobs
<1>. /\ job[j][r] \in from
     /\ job'[j][r] = to
     /\ \A i \in Jobs, q \in Runs : i # j \/ q # r => job'[i][q] = job[i][q]
  BY MoveEffect
<1>1. \A q \in Runs : job'["media"][q] = job["media"][q]
  OBVIOUS
<1>2. StartedInOrder' /\ RegisteredIsAlive' /\ StartedIsKept' /\ (\A q \in Runs : Over(q)' = Over(q))
  BY <1>1, OthersKeepMedia
<1>3. Roles'
  BY <1>1 DEF WaitInv, Roles
<1>4. WaitsForItsRun' /\ ScenesWaitForTranscript'
  <2>1. \A q \in Runs : /\ job'["indexer"][q] # "idle" => job["indexer"][q] # "idle"
                        /\ job'["indexer"][q] \in Running => job["indexer"][q] \in Running
    BY DEF WaitInv, Roles
  <2>. QED BY <1>1, <1>2, <2>1, IndexersKept
<1>. QED BY <1>2, <1>3, <1>4 DEF WaitInv

\* The indexer finds the transcription of its run, a later one, or none because
\* they are over.
LEMMA IndexerWaits ==
  ASSUME TypeOK, WaitInv, NEW r \in Runs, IndexerArrives(r)
  PROVE  WaitInv'
<1>. "media" \in Jobs /\ "detector" \in Jobs /\ "indexer" \in Jobs
  BY DEF Jobs
<1>. /\ job'["indexer"][r] = "waiting"
     /\ \A i \in Jobs, q \in Runs : i # "indexer" \/ q # r => job'[i][q] = job[i][q]
  BY MoveEffect DEF IndexerArrives
<1>. /\ job["detector"][r] = "announced" /\ job["media"][r] # "idle"
     /\ awaits' = [awaits EXCEPT ![r] = transcription]
     /\ kind' = kind /\ transcription' = transcription /\ late' = late
     /\ awaits \in [Runs -> 0..MaxRuns]
     /\ transcription \in 0..MaxRuns
  BY DEF IndexerArrives, fileVars, TypeOK
<1>. RegisteredIsAlive /\ StartedIsKept /\ Roles /\ WaitsForItsRun /\ ScenesWaitForTranscript
  BY DEF WaitInv
<1>1. \A q \in Runs : job'["media"][q] = job["media"][q]
  OBVIOUS
<1>2. StartedInOrder' /\ RegisteredIsAlive' /\ StartedIsKept' /\ (\A q \in Runs : Over(q)' = Over(q))
  BY <1>1, OthersKeepMedia
<1>3. Roles'
  BY <1>1 DEF Roles
<1>4. \/ transcription \in r..MaxRuns /\ job["media"][transcription] # "idle"
      \/ \E q \in r..MaxRuns : Over(q)
  <2>1. CASE transcription >= r
    BY <2>1, RunsArithmetic DEF RegisteredIsAlive, Alive
  <2>2. CASE ~(transcription >= r)
    BY <2>2 DEF StartedIsKept, Roles
  <2>. QED BY <2>1, <2>2
<1>5. WaitsForItsRun'
  <2>. SUFFICES ASSUME NEW q \in Runs, job'["indexer"][q] # "idle"
                PROVE \/ awaits'[q] \in q..MaxRuns /\ job'["media"][awaits'[q]] # "idle"
                      \/ \E p \in q..MaxRuns : Over(p)'
    BY DEF WaitsForItsRun
  <2>1. CASE q = r
    BY <1>1, <1>2, <1>4, <2>1, RunsArithmetic
  <2>2. CASE q # r
    BY <1>1, <1>2, <2>2, RunsArithmetic DEF WaitsForItsRun
  <2>. QED BY <2>1, <2>2
<1>6. ScenesWaitForTranscript'
  <2>. SUFFICES ASSUME NEW q \in Runs, job'["indexer"][q] \in Running, q \notin late'
                PROVE \E p \in q..MaxRuns : Over(p)'
    BY DEF ScenesWaitForTranscript
  <2>1. q # r
    BY DEF Running
  <2>. QED BY <1>2, <2>1, RunsArithmetic DEF ScenesWaitForTranscript
<1>. QED BY <1>2, <1>3, <1>5, <1>6 DEF WaitInv

\* An indexer leaves its wait: what it waited for is over, or it is late.
LEMMA IndexerGoes ==
  ASSUME TypeOK, WaitInv, NEW r \in Runs, NEW to \in {"ready", "skipped"},
         Move("indexer", r, {"waiting"}, to),
         UNCHANGED <<kind, transcription, awaits>>,
         \/ Ended(awaits[r]) /\ late' = late
         \/ late' = late \union {r}
  PROVE  WaitInv'
<1>. "media" \in Jobs /\ "detector" \in Jobs /\ "indexer" \in Jobs
  BY DEF Jobs
<1>. /\ job["indexer"][r] = "waiting"
     /\ job'["indexer"][r] = to
     /\ \A i \in Jobs, q \in Runs : i # "indexer" \/ q # r => job'[i][q] = job[i][q]
     /\ job \in [Jobs -> [Runs -> JobStates]]
  BY MoveEffect DEF TypeOK
<1>. Roles /\ WaitsForItsRun /\ ScenesWaitForTranscript
  BY DEF WaitInv
<1>1. \A q \in Runs : job'["media"][q] = job["media"][q]
  OBVIOUS
<1>2. StartedInOrder' /\ RegisteredIsAlive' /\ StartedIsKept' /\ (\A q \in Runs : Over(q)' = Over(q))
  BY <1>1, OthersKeepMedia
<1>3. Roles'
  BY <1>1 DEF Roles
<1>4. r \in late' \/ \E q \in r..MaxRuns : Over(q)
  <2>. SUFFICES ASSUME Ended(awaits[r]), awaits[r] \in r..MaxRuns, job["media"][awaits[r]] # "idle"
                PROVE  Over(awaits[r])
    BY DEF WaitsForItsRun
  <2>1. awaits[r] \in Runs
    BY RunsArithmetic
  <2>2. job["media"][awaits[r]] \in JobStates \ Alive
    BY <2>1 DEF Ended
  <2>. QED BY <2>1, <2>2 DEF Over, Roles, JobStates, Alive
<1>5. WaitsForItsRun'
  <2>. SUFFICES ASSUME NEW q \in Runs, job'["indexer"][q] # "idle"
                PROVE \/ awaits[q] \in q..MaxRuns /\ job'["media"][awaits[q]] # "idle"
                      \/ \E p \in q..MaxRuns : Over(p)'
    BY DEF WaitsForItsRun
  <2>1. job["indexer"][q] # "idle"
    OBVIOUS
  <2>. QED BY <1>1, <1>2, <2>1, RunsArithmetic DEF WaitsForItsRun
<1>6. ScenesWaitForTranscript'
  <2>. SUFFICES ASSUME NEW q \in Runs, job'["indexer"][q] \in Running, q \notin late'
                PROVE \E p \in q..MaxRuns : Over(p)'
    BY DEF ScenesWaitForTranscript
  <2>1. CASE q = r
    BY <1>2, <1>4, <2>1, RunsArithmetic
  <2>2. CASE q # r
    BY <1>2, <2>2, RunsArithmetic DEF ScenesWaitForTranscript
  <2>. QED BY <2>1, <2>2
<1>. QED BY <1>2, <1>3, <1>5, <1>6 DEF WaitInv

-------------------------------------------------------------------------------
\* The tasks of a run, by task.
LEMMA TaskWaits ==
  ASSUME TypeOK, WaitInv, NEW j \in Jobs, NEW r \in Runs,
         \/ StartUpload(j, r) \/ CheckFile(j, r) \/ Begin(j, r)
         \/ Progress(j, r) \/ Retry(j, r) \/ Fail(j, r)
  PROVE  WaitInv'
<1>. j = "media" \/ j \in {"detector", "indexer"}
  BY DEF Jobs
<1>a. /\ {"waiting"} \subseteq Alive /\ {"ready"} \subseteq Alive /\ {"working", "found"} \subseteq Alive
      /\ "idle" \notin {"waiting"} /\ "idle" \notin {"ready"} /\ "idle" \notin {"working", "found"}
      /\ {"ready"} \subseteq Running /\ "skipped" \notin Running /\ "failed" \notin Running
  BY DEF Alive, Running
<1>1. CASE StartUpload(j, r)
  <2>1. CASE j = "media"
    BY <1>1, <2>1, MediaStarts
  <2>2. CASE j = "detector"
    BY <1>1, <2>2, OthersMove DEF StartUpload, fileVars
  <2>. QED BY <1>1, <2>1, <2>2 DEF StartUpload
<1>2. CASE CheckFile(j, r)
  <2>1. CASE j = "media"
    BY <1>2, <2>1, <1>a, MediaContinues, MediaLeaves DEF CheckFile, fileVars
  <2>2. CASE j = "detector"
    <3>1. transcription' = transcription
      BY <1>2, <2>2 DEF CheckFile, LeaveTranscriptions
    <3>. QED BY <1>2, <2>2, <3>1, OthersMove DEF CheckFile, fileVars
  <2>. QED BY <1>2, <2>1, <2>2 DEF CheckFile
<1>3. CASE Begin(j, r)
  <2>1. CASE j = "media"
    BY <1>3, <2>1, <1>a, MediaContinues DEF Begin, fileVars
  <2>2. CASE j \in {"detector", "indexer"}
    BY <1>3, <2>2, <1>a, OthersMove DEF Begin, fileVars
  <2>. QED BY <2>1, <2>2
<1>4. CASE Progress(j, r)
  BY <1>4, WaitUnchanged DEF Progress, fileVars, jobVars
<1>5. CASE Retry(j, r)
  <2>1. CASE j = "media"
    <3>1. CASE present
      BY <1>5, <2>1, <3>1, <1>a, MediaContinues DEF Retry, fileVars
    <3>2. CASE ~present
      BY <1>5, <2>1, <3>2, <1>a, MediaLeaves DEF Retry, fileVars
    <3>. QED BY <3>1, <3>2
  <2>2. CASE j = "detector"
    <3>1. transcription' = transcription
      BY <1>5, <2>2 DEF Retry, LeaveTranscriptions
    <3>. QED BY <1>5, <2>2, <3>1, OthersMove DEF Retry, fileVars
  <2>3. CASE j = "indexer"
    <3>1. transcription' = transcription
      BY <1>5, <2>3 DEF Retry, LeaveTranscriptions
    <3>2. {"working", "found"} \subseteq Running \union {"found"}
      BY DEF Running
    <3>. QED BY <1>5, <2>3, <3>1, <3>2, <1>a, OthersMove DEF Retry, fileVars
  <2>. QED BY <2>1, <2>2, <2>3
<1>6. CASE Fail(j, r)
  <2>1. CASE j = "media"
    BY <1>6, <2>1, <1>a, MediaLeaves DEF Fail, fileVars
  <2>2. CASE j \in {"detector", "indexer"}
    <3>1. transcription' = transcription
      BY <1>6, <2>2 DEF Fail, LeaveTranscriptions
    <3>. QED BY <1>6, <2>2, <3>1, <1>a, OthersMove DEF Fail, fileVars
  <2>. QED BY <2>1, <2>2
<1>. QED BY <1>1, <1>2, <1>3, <1>4, <1>5, <1>6

LEMMA RunWaits ==
  ASSUME TypeOK, WaitInv, NEW r \in Runs,
         \/ DetectorEnds(r) \/ DetectorAnnounces(r) \/ MediaEnds(r) \/ IndexerArrives(r)
         \/ IndexerStarts(r) \/ IndexerGivesUpWaiting(r) \/ IndexerLosesCall(r) \/ IndexerEnds(r)
  PROVE  WaitInv'
<1>a. "lost" \notin Running /\ "done" \notin Running /\ {"working"} \subseteq Alive
  BY DEF Running, Alive
<1>1. CASE DetectorEnds(r)
  BY <1>1, OthersMove DEF DetectorEnds, fileVars
<1>2. CASE DetectorAnnounces(r)
  <2>1. kind = "VIDEO"
    BY <1>2 DEF DetectorAnnounces, Move, WaitInv, Roles
  <2>. QED BY <1>2, <2>1, OthersMove DEF DetectorAnnounces, fileVars
<1>3. CASE MediaEnds(r)
  BY <1>3, <1>a, MediaLeaves DEF MediaEnds, fileVars
<1>4. CASE IndexerArrives(r)
  BY <1>4, IndexerWaits
<1>5. CASE IndexerStarts(r)
  BY <1>5, IndexerGoes DEF IndexerStarts, fileVars
<1>6. CASE IndexerGivesUpWaiting(r)
  BY <1>6, IndexerGoes DEF IndexerGivesUpWaiting, fileVars
<1>7. CASE IndexerLosesCall(r)
  BY <1>7, <1>a, OthersMove DEF IndexerLosesCall, fileVars
<1>8. CASE IndexerEnds(r)
  BY <1>8, <1>a, OthersMove DEF IndexerEnds, fileVars
<1>. QED BY <1>1, <1>2, <1>3, <1>4, <1>5, <1>6, <1>7, <1>8

\* However many runs of a file overlap, and whatever process dies, scenes are
\* indexed before their transcript is over only when the wait for it timed out.
THEOREM ScenesWait == Spec => []ScenesWaitForTranscript
<1>1. TypeOK /\ WaitInv /\ [Next]_vars => WaitInv'
  <2>. SUFFICES ASSUME TypeOK, WaitInv, [Next]_vars PROVE WaitInv'
    OBVIOUS
  <2>1. CASE UNCHANGED vars
    BY <2>1, WaitUnchanged DEF vars, fileVars, jobVars
  <2>2. CASE \E h \in Handlers : HandlerStep(h) \/ Interrupt(h)
    BY <2>2, WaitUnchanged
       DEF HandlerStep, Deliver, ReadRow, WriteRow, Requeue, Interrupt, fileVars, jobVars
  <2>3. CASE \E r \in Runs : JobStep(r) \/ IndexerGivesUpWaiting(r)
    BY <2>3, TaskWaits, RunWaits DEF JobStep
  <2>4. CASE \E r \in Runs, j \in Jobs : Progress(j, r)
    BY <2>4, TaskWaits
  <2>5. CASE Reprocess \/ Redeliver \/ DeleteRow
    BY <2>5, WaitUnchanged DEF Reprocess, Redeliver, DeleteRow, fileVars, jobVars
  <2>6. CASE \E S \in Services : Crash(S) \/ CancelTasks(S)
    BY <2>6, TasksLost DEF Crash, CancelTasks
  <2>. QED BY <2>1, <2>2, <2>3, <2>4, <2>5, <2>6 DEF Next
<1>2. WaitInv => ScenesWaitForTranscript
  BY DEF WaitInv
<1>. QED BY WaitInit, <1>1, <1>2, TypeCorrect, PTL DEF Spec

===============================================================================
