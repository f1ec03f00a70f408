------------------------------ MODULE Processing ------------------------------
(* How upload-manager folds a reported stage change into the processing      *)
(* columns of a file row (upload-manager/src/files/processing.ts).           *)
(*                                                                            *)
(* The code reads the row, computes a partial update from what it read, and   *)
(* writes the update later. The two halves are therefore two operators:       *)
(* Ignored(seen, change) says, of the row as it was read, that no update is   *)
(* made; Applied(row, change) is the row once the update is written over it.  *)
EXTENDS Naturals

Stages   == {"UPLOAD", "EMBEDDING", "SCENE_DETECTION", "INDEXING", "COMPLETED"}
Statuses == {"NOT_STARTED", "IN_PROGRESS", "COMPLETED", "FAILED"}

\* Position in STAGE_ORDER.
Rank(stage) ==
  CASE stage = "UPLOAD"          -> 0
    [] stage = "EMBEDDING"       -> 1
    [] stage = "SCENE_DETECTION" -> 2
    [] stage = "INDEXING"        -> 3
    [] stage = "COMPLETED"       -> 4

\* The columns of a row, and what a file.stage_changed event says of them.
ProcessingState == [stage : Stages, status : Statuses, retry : Nat]
StageChange     == [stage : Stages, status : Statuses, retry : Nat]

\* Mutant: stage and status swapped.
ReportSwapped(stage, status, retry) == [stage |-> status, status |-> stage, retry |-> retry]

Report(stage, status, retry) == [stage |-> stage, status |-> status, retry |-> retry]

\* Mutant: a report of the COMPLETED stage leaves the file in progress.
AppliedKeepingOpen(row, change) ==
  [stage  |-> IF change.status = "FAILED" THEN row.stage ELSE change.stage,
   status |-> IF change.status = "FAILED" THEN "FAILED" ELSE "IN_PROGRESS",
   retry  |-> change.retry]

\* A failure keeps the stage; any other report moves the row to its stage, and
\* only the COMPLETED stage completes it, whatever status the report carries.
Applied(row, change) ==
  IF change.status = "FAILED"
  THEN [row EXCEPT !.status = "FAILED", !.retry = change.retry]
  ELSE [stage  |-> change.stage,
        status |-> IF change.stage = "COMPLETED" THEN "COMPLETED" ELSE "IN_PROGRESS",
        retry  |-> change.retry]

\* Mutant: reports of an earlier stage are no longer dropped.
IgnoredWithoutOrder(seen, change) ==
  \/ seen.status = "COMPLETED"
  \/ change.status # "FAILED" /\ Applied(seen, change) = seen

\* Mutant: a completed file is not protected from late reports.
IgnoredWithoutFinality(seen, change) ==
  /\ change.status # "FAILED"
  /\ \/ Rank(change.stage) < Rank(seen.stage)
     \/ Applied(seen, change) = seen

\* nextProcessingState returned null.
Ignored(seen, change) ==
  \/ seen.status = "COMPLETED"
  \/ /\ change.status # "FAILED"
     /\ \/ Rank(change.stage) < Rank(seen.stage)
        \/ Applied(seen, change) = seen

\* What reprocess and completeUpload write before they announce the file.
FreshState == Report("EMBEDDING", "IN_PROGRESS", 0)
===============================================================================
