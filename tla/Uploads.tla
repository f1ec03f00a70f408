-------------------------------- MODULE Uploads --------------------------------
(* The life of an uploaded file in upload-manager: the file row, the multipart  *)
(* session and the object in S3, and the storage charged by payment-service     *)
(* (upload-manager/src/files/files.service.ts). No transaction spans the three, *)
(* so every request is a sequence of steps, cut where the code awaits a call,   *)
(* and requests for one file interleave with each other and with the sweeper of *)
(* stale uploads.                                                               *)
EXTENDS Integers, FiniteSets

CONSTANTS
  Requests,    \* requests in progress at once
  Sweeper,     \* the cron job of upload-manager
  Files,       \* file ids
  RequestIds,
  RequestOf,   \* the client's request id of the createUpload that draws the file id
  MaxCuts,     \* bound: requests cut short by a crash or a failing call
  MaxExpiries  \* bound: idempotency keys of payment-service that expire

Actors == Requests \union {Sweeper}

ASSUME FilesAssumption     == Files # {}
ASSUME SweeperAssumption   == Sweeper \notin Requests
ASSUME RequestOfAssumption == RequestOf \in [Files -> RequestIds]
ASSUME BoundsAssumption    == MaxCuts \in Nat /\ MaxExpiries \in Nat

VARIABLES
  row,      \* uploadStatus of the row; "none" while there is no row
  drawn,    \* file ids already drawn by a createUpload
  session,  \* the S3 multipart session
  object,   \* files whose object exists
  charge,   \* storage consumed minus storage released, in uploads
  released, \* files whose key release:<id> is remembered by payment-service
  announced,\* files whose file.uploaded was published
  op,       \* what each actor is doing
  cuts,     \* <<file, pc>>: an actor was cut short in that file's step pc
  expiries

s3Vars      == <<session, object>>
billingVars == <<charge, released, expiries>>
vars == <<row, drawn, s3Vars, billingVars, announced, op, cuts>>

Rows     == {"none", "UPLOADING", "COMPLETED", "FAILED"}
Sessions == {"none", "open", "completed", "aborted"}
Kinds    == {"create", "complete", "abort", "delete", "sweep"}

\* Where an actor stands: the call it makes next.
Steps == {"idle", "consume", "createMultipart", "insert", "completeMultipart", "inspect",
          "record", "publish", "abortMultipart", "deleteObject", "erase", "fail", "release"}

Idle == [pc |-> "idle", kind |-> "create", file |-> CHOOSE f \in Files : TRUE]

TypeOK ==
  /\ row \in [Files -> Rows]
  /\ drawn \subseteq Files
  /\ session \in [Files -> Sessions]
  /\ object \subseteq Files
  /\ charge \in [Files -> Int]
  /\ released \subseteq Files
  /\ announced \subseteq Files
  /\ op \in [Actors -> [pc : Steps, kind : Kinds, file : Files]]
  /\ cuts \subseteq Files \X Steps
  /\ expiries \in 0..MaxExpiries

Init ==
  /\ row = [f \in Files |-> "none"]
  /\ drawn = {}
  /\ session = [f \in Files |-> "none"]
  /\ object = {}
  /\ charge = [f \in Files |-> 0]
  /\ released = {}
  /\ announced = {}
  /\ op = [o \in Actors |-> Idle]
  /\ cuts = {}
  /\ expiries = 0

-------------------------------------------------------------------------------
At(o, pc)   == op[o].pc = pc
Start(o, kind, f, pc) ==
  At(o, "idle") /\ op' = [op EXCEPT ![o] = [pc |-> pc, kind |-> kind, file |-> f]]
Goto(o, pc) == op' = [op EXCEPT ![o].pc = pc]
Return(o)   == op' = [op EXCEPT ![o] = Idle]
FileOf(o)   == op[o].file

Exists(f)         == row[f] # "none"
SetRow(f, status) == row' = [row EXCEPT ![f] = status]

\* The rows a unique (userId, clientRequestId) makes f collide with.
SameRequest(f) == {g \in Files : RequestOf[g] = RequestOf[f] /\ Exists(g)}

-------------------------------------------------------------------------------
(* createUpload.                                                               *)

\* A known request id resumes its upload and changes nothing; otherwise a file id
\* is drawn and storage is consumed for it.
CreateUpload(o, f) ==
  /\ f \notin drawn
  /\ SameRequest(f) = {}
  /\ Start(o, "create", f, "consume")
  /\ drawn' = drawn \union {f}
  /\ UNCHANGED <<row, s3Vars, billingVars, announced, cuts>>

\* payment-service allows it or not.
Consume(o) ==
  /\ At(o, "consume")
  /\ \/ charge' = [charge EXCEPT ![FileOf(o)] = @ + 1] /\ Goto(o, "createMultipart")
     \/ UNCHANGED charge /\ Return(o)
  /\ UNCHANGED <<row, drawn, s3Vars, released, expiries, announced, cuts>>

\* A failure, even one of a session that was opened, releases the storage.
CreateMultipart(o) ==
  /\ At(o, "createMultipart")
  /\ \/ session' = [session EXCEPT ![FileOf(o)] = "open"] /\ Goto(o, "insert")
     \/ session' = [session EXCEPT ![FileOf(o)] = "open"] /\ Goto(o, "release")
     \/ UNCHANGED session /\ Goto(o, "release")
  /\ UNCHANGED <<row, drawn, object, billingVars, announced, cuts>>

\* Mutant: the row's status is misspelt.
InsertUploaded(o) ==
  /\ At(o, "insert")
  /\ SetRow(FileOf(o), "UPLOADED")
  /\ Return(o)
  /\ UNCHANGED <<drawn, s3Vars, billingVars, announced, cuts>>

\* Mutant: the loser of two equal requests does not release its storage.
InsertOrReturn(o) ==
  /\ At(o, "insert")
  /\ IF SameRequest(FileOf(o)) = {} THEN SetRow(FileOf(o), "UPLOADING") ELSE UNCHANGED row
  /\ Return(o)
  /\ UNCHANGED <<drawn, s3Vars, billingVars, announced, cuts>>

\* The loser of two equal requests violates the unique key; it releases its
\* storage and resumes the winner's upload.
Insert(o) ==
  /\ At(o, "insert")
  /\ \/ SameRequest(FileOf(o)) = {} /\ SetRow(FileOf(o), "UPLOADING") /\ Return(o)
     \/ UNCHANGED row /\ Goto(o, "release")
  /\ UNCHANGED <<drawn, s3Vars, billingVars, announced, cuts>>

-------------------------------------------------------------------------------
(* completeUpload.                                                             *)

\* A completed upload is returned as it is; only one in progress goes on.
CompleteUpload(o, f) ==
  /\ row[f] = "UPLOADING"
  /\ Start(o, "complete", f, "completeMultipart")
  /\ UNCHANGED <<row, drawn, s3Vars, billingVars, announced, cuts>>

\* Mutant: the answer of S3 is ignored.
CompleteMultipartBlindly(o) ==
  /\ At(o, "completeMultipart")
  /\ session' = [session EXCEPT ![FileOf(o)] = IF @ = "open" THEN "completed" ELSE @]
  /\ object' = IF session[FileOf(o)] = "open" THEN object \union {FileOf(o)} ELSE object
  /\ Goto(o, "inspect")
  /\ UNCHANGED <<row, drawn, billingVars, announced, cuts>>

\* S3 assembles the parts, or refuses them. It may accept once more a session
\* that was completed, but never one that was aborted.
CompleteMultipart(o) ==
  /\ At(o, "completeMultipart")
  /\ \/ /\ session[FileOf(o)] = "open"
        /\ session' = [session EXCEPT ![FileOf(o)] = "completed"]
        /\ object' = object \union {FileOf(o)}
        /\ Goto(o, "inspect")
     \/ session[FileOf(o)] = "completed" /\ Goto(o, "inspect") /\ UNCHANGED s3Vars
     \/ Return(o) /\ UNCHANGED s3Vars
  /\ UNCHANGED <<row, drawn, billingVars, announced, cuts>>

\* The media is probed; one longer than the plan allows is discarded.
Inspect(o) ==
  /\ At(o, "inspect")
  /\ Goto(o, "record") \/ Goto(o, "deleteObject")
  /\ UNCHANGED <<row, drawn, s3Vars, billingVars, announced, cuts>>

\* The update is by id and throws if the row is gone.
Record(o) ==
  /\ At(o, "record")
  /\ IF Exists(FileOf(o))
     THEN SetRow(FileOf(o), "COMPLETED") /\ Goto(o, "publish")
     ELSE Return(o) /\ UNCHANGED row
  /\ UNCHANGED <<drawn, s3Vars, billingVars, announced, cuts>>

\* file.uploaded of a completed upload, file.deleted of a deleted file.
Publish(o) ==
  /\ At(o, "publish")
  /\ announced' = IF op[o].kind = "complete" THEN announced \union {FileOf(o)} ELSE announced
  /\ Return(o)
  /\ UNCHANGED <<row, drawn, s3Vars, billingVars, cuts>>

-------------------------------------------------------------------------------
(* abortUpload, delete and failStaleUploads.                                   *)

AbortUpload(o, f) ==
  /\ row[f] = "UPLOADING"
  /\ Start(o, "abort", f, "abortMultipart")
  /\ UNCHANGED <<row, drawn, s3Vars, billingVars, announced, cuts>>

DeleteFile(o, f) ==
  /\ Exists(f)
  /\ Start(o, "delete", f, IF row[f] = "UPLOADING" THEN "abortMultipart" ELSE "deleteObject")
  /\ UNCHANGED <<row, drawn, s3Vars, billingVars, announced, cuts>>

\* An upload older than two hours, as the sweeper's query found it.
Sweep(f) ==
  /\ row[f] = "UPLOADING"
  /\ Start(Sweeper, "sweep", f, "abortMultipart")
  /\ UNCHANGED <<row, drawn, s3Vars, billingVars, announced, cuts>>

\* A completed session cannot be aborted; the error is logged and ignored.
AbortMultipart(o) ==
  /\ At(o, "abortMultipart")
  /\ session' = [session EXCEPT ![FileOf(o)] = IF @ = "open" THEN "aborted" ELSE @]
  /\ Goto(o, IF op[o].kind = "sweep" THEN "fail" ELSE "erase")
  /\ UNCHANGED <<row, drawn, object, billingVars, announced, cuts>>

DeleteObject(o) ==
  /\ At(o, "deleteObject")
  /\ object' = object \ {FileOf(o)}
  /\ Goto(o, "erase")
  /\ UNCHANGED <<row, drawn, session, billingVars, announced, cuts>>

\* Deleting a row that is gone throws; nothing is released then.
Erase(o) ==
  /\ At(o, "erase")
  /\ IF Exists(FileOf(o))
     THEN SetRow(FileOf(o), "none") /\ Goto(o, "release")
     ELSE Return(o) /\ UNCHANGED row
  /\ UNCHANGED <<drawn, s3Vars, billingVars, announced, cuts>>

\* Mutant: the sweeper aborts the session and leaves the row.
FailNothing(o) ==
  /\ At(o, "fail")
  /\ Return(o)
  /\ UNCHANGED <<row, drawn, s3Vars, billingVars, announced, cuts>>

\* The sweeper's update, by id as well, whatever the row became meanwhile.
Fail(o) ==
  /\ At(o, "fail")
  /\ IF Exists(FileOf(o))
     THEN SetRow(FileOf(o), "FAILED") /\ Goto(o, "release")
     ELSE Return(o) /\ UNCHANGED row
  /\ UNCHANGED <<drawn, s3Vars, billingVars, announced, cuts>>

\* Mutant: the release carries no idempotency key.
ReleaseWithoutKey(o) ==
  /\ At(o, "release")
  /\ charge' = [charge EXCEPT ![FileOf(o)] = @ - 1]
  /\ IF op[o].kind = "delete" THEN Goto(o, "publish") ELSE Return(o)
  /\ UNCHANGED <<row, drawn, s3Vars, released, expiries, announced, cuts>>

\* payment-service remembers the key release:<id> and repeats nothing under it.
Release(o) ==
  /\ At(o, "release")
  /\ charge' = IF FileOf(o) \in released THEN charge ELSE [charge EXCEPT ![FileOf(o)] = @ - 1]
  /\ released' = released \union {FileOf(o)}
  /\ IF op[o].kind = "delete" THEN Goto(o, "publish") ELSE Return(o)
  /\ UNCHANGED <<row, drawn, s3Vars, expiries, announced, cuts>>

-------------------------------------------------------------------------------
(* What goes wrong.                                                            *)

Cut(o) ==
  /\ Cardinality(cuts) < MaxCuts
  /\ <<FileOf(o), op[o].pc>> \notin cuts
  /\ cuts' = cuts \union {<<FileOf(o), op[o].pc>>}

\* The process dies, or the call throws, before the step or after the previous one.
Interrupt(o) ==
  /\ ~At(o, "idle")
  /\ Cut(o)
  /\ Return(o)
  /\ UNCHANGED <<row, drawn, s3Vars, billingVars, announced>>

\* The S3 removals and the release fail in the log only.
CallIgnored(o) ==
  /\ \/ At(o, "abortMultipart") /\ Goto(o, IF op[o].kind = "sweep" THEN "fail" ELSE "erase")
     \/ At(o, "deleteObject") /\ Goto(o, "erase")
     \/ At(o, "release") /\ IF op[o].kind = "delete" THEN Goto(o, "publish") ELSE Return(o)
  /\ Cut(o)
  /\ UNCHANGED <<row, drawn, s3Vars, billingVars, announced>>

\* payment-service forgets a key after 24 hours; no request lasts that long.
ExpireKey(f) ==
  /\ expiries < MaxExpiries
  /\ f \in released
  /\ \A o \in Actors : FileOf(o) = f => At(o, "idle")
  /\ released' = released \ {f}
  /\ expiries' = expiries + 1
  /\ UNCHANGED <<row, drawn, s3Vars, charge, announced, op, cuts>>

-------------------------------------------------------------------------------
Step(o) ==
  \/ Consume(o) \/ CreateMultipart(o) \/ Insert(o)
  \/ CompleteMultipart(o) \/ Inspect(o) \/ Record(o) \/ Publish(o)
  \/ AbortMultipart(o) \/ DeleteObject(o) \/ Erase(o) \/ Fail(o) \/ Release(o)

Request(o, f) == CreateUpload(o, f) \/ CompleteUpload(o, f) \/ AbortUpload(o, f) \/ DeleteFile(o, f)

Next ==
  \/ \E o \in Requests, f \in Files : Request(o, f)
  \/ \E f \in Files : Sweep(f) \/ ExpireKey(f)
  \/ \E o \in Actors : Step(o) \/ Interrupt(o) \/ CallIgnored(o)

Spec == Init /\ [][Next]_vars

\* A request that was accepted goes on, and the cron job runs every ten minutes.
\* Clients owe nothing: an upload may be left as it is.
Fairness ==
  /\ \A o \in Actors : WF_vars(Step(o))
  /\ \A f \in Files : WF_vars(Sweep(f))

FairSpec == Spec /\ Fairness

-------------------------------------------------------------------------------
(* Properties.                                                                 *)

Busy(f)  == \E o \in Actors : ~At(o, "idle") /\ FileOf(o) = f
Intact(f) == ~Busy(f) /\ \A cut \in cuts : cut[1] # f

\* A file that is completed, or was announced for processing and is still there,
\* has its object, unless a removal stands, or stopped, between the object and the
\* row: not the sweeper, not an abort, not a second complete takes its object.
CompletedHasObject ==
  \A f \in Files : row[f] = "COMPLETED" \/ (f \in announced /\ Exists(f)) =>
    \/ f \in object
    \/ \E o \in Actors : At(o, "erase") /\ FileOf(o) = f
    \/ <<f, "erase">> \in cuts

\* Storage is only charged for files that are there or being uploaded: each path
\* out of an upload gives its storage back, however the paths interleave.
ChargedHasRow ==
  \A f \in Files : Intact(f) /\ charge[f] > 0 => row[f] \in {"UPLOADING", "COMPLETED"}

\* The storage of a file is given back at most once, and once more only for a key
\* payment-service forgot, however deletions, aborts and the sweeper overlap.
ReleasedAtMostOnce == \A f \in Files : charge[f] + expiries >= 0

\* An upload that nobody completes does not stay in progress.
UploadsEnd == \A f \in Files : row[f] = "UPLOADING" ~> row[f] # "UPLOADING"
================================================================================
