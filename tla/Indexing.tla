------------------------------- MODULE Indexing -------------------------------
(* What is derived from one video file: the scene rows of scene-detector and    *)
(* the Chroma chunks of file-embedder, while the file is indexed, indexed       *)
(* again, and deleted with or without its owner (handlers.py of both services,  *)
(* scene_processor.py, scene_indexer.py, media_indexer.py). Every await is a    *)
(* step; what a coroutine does between two awaits is one step, the synchronous  *)
(* calls to Chroma included.                                                    *)
EXTENDS Integers, FiniteSets

CONSTANTS
  MaxRuns,     \* bound: the upload, and MaxRuns - 1 requests to process the file again
  MaxAttempts, \* max_processing_retries of both services
  Deletions,   \* what may be deleted: "file", "user"
  MaxCrashes   \* bound: restarts of a service

Runs   == 1..MaxRuns
Chunks == {"audio", "scene", "registry", "narrative"}
ASSUME IndexingAssumption == /\ MaxRuns \in Nat \ {0} /\ MaxAttempts \in Nat \ {0} /\ MaxCrashes \in Nat
                             /\ Deletions \subseteq {"file", "user"}

VARIABLES
  rpcFails,   \* whether calls of GetFile and ListScenes may fail
  present,    \* the row of the file in upload-manager
  gone,       \* what was deleted: "none", "file" or "user"
  run,        \* runs so far
  inbox,      \* inbox[s]: events that service s has still to handle
  rows,       \* the run whose scenes the table holds, 0 if it holds none
  index,      \* index[c]: the run that wrote the chunks of kind c, 0 if there are none
  detector,   \* the detection task of each run
  media,      \* its transcription task
  indexer,    \* its scene indexing task
  listed,     \* the scenes that task works on: the run they come from
  attempts,   \* attempts[t][r]: attempts that failed
  marks,      \* the deletion tracker of file-embedder
  purge,      \* purge[s]: how far service s is with the deletion
  stray,      \* for the properties: runs whose rows the scene-detector's purge cannot know of
  crashes

vars == <<rpcFails, present, gone, run, inbox, rows, index, detector, media, indexer, listed,
          attempts, marks, purge, stray, crashes>>
tasks == <<detector, media, indexer, listed, attempts>>
data  == <<rows, index>>
world == <<rpcFails, present, gone, run, crashes>>

Services == {"scene-detector", "file-embedder"}
Alive(task) == {r \in Runs : task[r] \notin {"none", "ended"}}
Stopped(task) == [r \in Runs |-> IF r \in Alive(task) THEN "ended" ELSE task[r]]
Uploaded(r) == [kind |-> "uploaded", run |-> r]
Detected(r) == [kind |-> "detected", run |-> r]
Deleted     == [kind |-> "deleted", run |-> 0]
Tried       == [t \in {"detector", "media", "indexer"} |-> [r \in Runs |-> 0]]

TypeOK ==
  /\ present \in BOOLEAN /\ gone \in {"none", "file", "user"} /\ run \in Runs
  /\ inbox \in [Services -> SUBSET ({Uploaded(r) : r \in Runs} \union {Detected(r) : r \in Runs} \union {Deleted})]
  /\ rows \in 0..run /\ index \in [Chunks -> 0..run]
  /\ detector \in [Runs -> {"none", "checking", "clearing", "detecting", "storing", "adrift", "publishing", "ended"}]
  /\ media \in [Runs -> {"none", "checking", "working", "ended"}]
  /\ indexer \in [Runs -> {"none", "waiting", "fetching", "listing", "starting", "registry", "describing", "ended"}]
  /\ listed \in [Runs -> 0..run]
  /\ \A t \in DOMAIN attempts : attempts[t] \in [Runs -> 0..MaxAttempts]
  /\ marks \subseteq {"file", "user"}
  /\ purge \in [Services -> {"none", "marked", "deferred", "over"}]
  /\ rpcFails \in BOOLEAN /\ stray \subseteq Runs /\ crashes \in 0..MaxCrashes

Init ==
  /\ present = TRUE /\ gone = "none" /\ run = 1
  /\ inbox = [s \in Services |-> {Uploaded(1)}]
  /\ rows = 0 /\ index = [c \in Chunks |-> 0]
  /\ detector = [r \in Runs |-> "none"] /\ media = detector /\ indexer = detector
  /\ listed = [r \in Runs |-> 0] /\ attempts = Tried
  /\ marks = {} /\ purge = [s \in Services |-> "none"]
  /\ rpcFails \in BOOLEAN /\ stray = {} /\ crashes = 0

-------------------------------------------------------------------------------
(* upload-manager.                                                               *)

InProgress == \/ \E s \in Services : inbox[s] # {}
              \/ Alive(detector) \union Alive(media) \union Alive(indexer) # {}

\* Another run is asked for when the row says that the last one is over. (What runs
\* that overlap, after half an hour without news, do to the index is left out.) The locals of the tasks that ended are forgotten.
Reprocess ==
  /\ present /\ run < MaxRuns /\ ~InProgress
  /\ run' = run + 1
  /\ inbox' = [s \in Services |-> inbox[s] \union {Uploaded(run + 1)}]
  /\ listed' = [r \in Runs |-> 0] /\ attempts' = Tried
  /\ UNCHANGED <<rpcFails, present, gone, crashes, data, detector, media, indexer, marks, purge, stray>>

\* The file goes before its event. The account goes first: each service hears of
\* it from auth-service, and upload-manager drops the row when it does.
Delete ==
  /\ gone = "none"
  /\ \/ "file" \in Deletions /\ gone' = "file" /\ present' = FALSE
     \/ "user" \in Deletions /\ gone' = "user" /\ UNCHANGED present
  /\ inbox' = [s \in Services |-> inbox[s] \union {Deleted}]
  /\ UNCHANGED <<rpcFails, run, crashes, data, tasks, marks, purge, stray>>

PurgeUserFiles ==
  /\ gone = "user" /\ present /\ present' = FALSE
  /\ UNCHANGED <<rpcFails, gone, run, crashes, inbox, data, tasks, marks, purge, stray>>

\* What file_exists may answer: it takes a failed call for a yes.
Exists == {present} \union (IF rpcFails THEN {TRUE} ELSE {})

Consume(s, m) == inbox' = [inbox EXCEPT ![s] = @ \ {m}]

\* Mutant: the attempts are not limited.
FailedForever(t, task, r, again, known) ==
  /\ task' = [task EXCEPT ![r] = again] /\ attempts' = [attempts EXCEPT ![t][r] = @ + 1]

\* A task's attempt raised: it is tried again, unless the attempts are used up or
\* the file is found to be gone.
Failed(t, task, r, again, known) ==
  \/ /\ attempts[t][r] + 1 < MaxAttempts /\ ~known /\ TRUE \in Exists
     /\ task' = [task EXCEPT ![r] = again]
     /\ attempts' = [attempts EXCEPT ![t][r] = @ + 1]
  \/ /\ attempts[t][r] + 1 = MaxAttempts \/ known \/ FALSE \in Exists
     /\ task' = [task EXCEPT ![r] = "ended"]
     /\ UNCHANGED attempts

-------------------------------------------------------------------------------
(* scene-detector.                                                               *)

DetectUpload(r) ==
  /\ Uploaded(r) \in inbox["scene-detector"] /\ Consume("scene-detector", Uploaded(r))
  /\ detector' = [detector EXCEPT ![r] = "checking"]
  /\ UNCHANGED <<world, data, media, indexer, listed, attempts, marks, purge, stray>>

CheckFile(r) ==
  /\ detector[r] = "checking"
  /\ \E exists \in Exists :
       /\ detector' = [detector EXCEPT ![r] = IF exists THEN "clearing" ELSE "ended"]
       /\ stray' = IF exists /\ ~present THEN stray \union {r} ELSE stray
  /\ UNCHANGED <<world, inbox, data, media, indexer, listed, attempts, marks, purge>>

ClearScenes(r) ==
  /\ detector[r] = "clearing" /\ rows' = 0
  /\ detector' = [detector EXCEPT ![r] = "detecting"]
  /\ UNCHANGED <<world, inbox, index, media, indexer, listed, attempts, marks, purge, stray>>

\* Scenes were found and their thumbnails stored, or there are none to find.
DetectScenes(r) ==
  /\ detector[r] = "detecting"
  /\ \E next \in {"storing", "ended"} : detector' = [detector EXCEPT ![r] = next]
  /\ UNCHANGED <<world, inbox, data, media, indexer, listed, attempts, marks, purge, stray>>

\* create_many: the pair of file and scene number is unique. The insertion of a
\* cancelled task may still land.
StoreScenes(r) ==
  /\ detector[r] \in {"storing", "adrift"} /\ rows = 0 /\ rows' = r
  /\ detector' = [detector EXCEPT ![r] = IF @ = "storing" THEN "publishing" ELSE "ended"]
  /\ UNCHANGED <<world, inbox, index, media, indexer, listed, attempts, marks, purge, stray>>

DetectionFails(r) ==
  /\ \/ detector[r] \in {"clearing", "detecting", "publishing"}
     \/ detector[r] \in {"storing", "adrift"} /\ rows # 0
  /\ IF detector[r] = "adrift"
     THEN detector' = [detector EXCEPT ![r] = "ended"] /\ UNCHANGED attempts
     ELSE Failed("detector", detector, r, "clearing", FALSE)
  /\ UNCHANGED <<world, inbox, data, media, indexer, listed, marks, purge, stray>>

PublishDetected(r) ==
  /\ detector[r] = "publishing"
  /\ detector' = [detector EXCEPT ![r] = "ended"]
  /\ inbox' = [inbox EXCEPT !["file-embedder"] = @ \union {Detected(r)}]
  /\ UNCHANGED <<world, data, media, indexer, listed, attempts, marks, purge, stray>>

\* Mutant: the tasks of the file go on.
HearWithoutCancel ==
  /\ Deleted \in inbox["scene-detector"] /\ purge["scene-detector"] = "none"
  /\ purge' = [purge EXCEPT !["scene-detector"] = "marked"]
  /\ UNCHANGED <<world, inbox, data, tasks, marks, stray>>

\* file.deleted: the tasks of the file are cancelled, then its rows deleted.
\* user.deleted: only the rows are.
HearOfDeletion ==
  /\ Deleted \in inbox["scene-detector"] /\ purge["scene-detector"] = "none"
  /\ IF gone = "file"
     THEN \E adrift \in SUBSET {r \in Runs : detector[r] = "storing"} :
            /\ detector' = [r \in Runs |-> IF r \in adrift THEN "adrift" ELSE Stopped(detector)[r]]
            /\ stray' = stray \union adrift
     ELSE UNCHANGED <<detector, stray>>
  /\ purge' = [purge EXCEPT !["scene-detector"] = "marked"]
  /\ UNCHANGED <<world, inbox, data, media, indexer, listed, attempts, marks>>

DeleteRows ==
  /\ purge["scene-detector"] = "marked" /\ rows' = 0
  /\ purge' = [purge EXCEPT !["scene-detector"] = "over"]
  /\ Consume("scene-detector", Deleted)
  /\ UNCHANGED <<world, index, tasks, marks, stray>>

-------------------------------------------------------------------------------
(* file-embedder.                                                                *)

IsDeleted == gone \in marks

StartUpload(r) ==
  /\ Uploaded(r) \in inbox["file-embedder"] /\ Consume("file-embedder", Uploaded(r))
  /\ media' = [media EXCEPT ![r] = "checking"]
  /\ UNCHANGED <<world, data, detector, indexer, listed, attempts, marks, purge, stray>>

IndexUpload(r) ==
  /\ media[r] = "checking"
  /\ \E exists \in Exists : media' = [media EXCEPT ![r] = IF exists THEN "working" ELSE "ended"]
  /\ UNCHANGED <<world, inbox, data, detector, indexer, listed, attempts, marks, purge, stray>>

\* Mutant: the tracker is not asked.
TranscribeUnchecked(r) ==
  /\ media[r] = "working" /\ index' = [index EXCEPT !["audio"] = r]
  /\ media' = [media EXCEPT ![r] = "ended"]
  /\ UNCHANGED <<world, inbox, rows, detector, indexer, listed, attempts, marks, purge, stray>>

\* The segments replace those of an earlier run.
Transcribe(r) ==
  /\ media[r] = "working"
  /\ index' = IF IsDeleted THEN index ELSE [index EXCEPT !["audio"] = r]
  /\ media' = [media EXCEPT ![r] = "ended"]
  /\ UNCHANGED <<world, inbox, rows, detector, indexer, listed, attempts, marks, purge, stray>>

TranscriptionFails(r) ==
  /\ media[r] = "working" /\ Failed("media", media, r, "working", IsDeleted)
  /\ UNCHANGED <<world, inbox, data, detector, indexer, listed, marks, purge, stray>>

StartIndexing(r) ==
  /\ Detected(r) \in inbox["file-embedder"] /\ Consume("file-embedder", Detected(r))
  /\ indexer' = [indexer EXCEPT ![r] = "waiting"]
  /\ UNCHANGED <<world, data, detector, media, listed, attempts, marks, purge, stray>>

\* The transcription is over, or the wait is; without a transcription there is
\* nothing to do.
AwaitTranscription(r) ==
  /\ indexer[r] = "waiting"
  /\ \E next \in {"fetching", "ended"} : indexer' = [indexer EXCEPT ![r] = next]
  /\ UNCHANGED <<world, inbox, data, detector, media, listed, attempts, marks, purge, stray>>

\* A file that is gone, or FAILED, is left alone; a failed call ends the task.
FetchFile(r) ==
  /\ indexer[r] = "fetching"
  /\ \/ present /\ indexer' = [indexer EXCEPT ![r] = "listing"]
     \/ indexer' = [indexer EXCEPT ![r] = "ended"]
  /\ UNCHANGED <<world, inbox, data, detector, media, listed, attempts, marks, purge, stray>>

ListScenes(r) ==
  /\ indexer[r] = "listing"
  /\ \/ /\ indexer' = [indexer EXCEPT ![r] = "starting"]
        /\ listed' = [listed EXCEPT ![r] = rows]
     \/ /\ rpcFails
        /\ indexer' = [indexer EXCEPT ![r] = "ended"]
        /\ UNCHANGED listed
  /\ UNCHANGED <<world, inbox, data, detector, media, attempts, marks, purge, stray>>

\* Mutant: what an earlier run left stays until it is overwritten.
KeepSceneEmbeddings(r) ==
  /\ indexer[r] = "starting"
  /\ indexer' = [indexer EXCEPT ![r] = IF listed[r] = 0 THEN "ended" ELSE "registry"]
  /\ UNCHANGED <<world, inbox, data, detector, media, listed, attempts, marks, purge, stray>>

\* What an earlier run left is dropped, before the first await.
DeleteSceneEmbeddings(r) ==
  /\ indexer[r] = "starting"
  /\ IF listed[r] = 0
     THEN indexer' = [indexer EXCEPT ![r] = "ended"] /\ UNCHANGED index
     ELSE /\ indexer' = [indexer EXCEPT ![r] = "registry"]
          /\ index' = [c \in Chunks |-> IF c = "audio" THEN index[c] ELSE 0]
  /\ UNCHANGED <<world, inbox, rows, detector, media, listed, attempts, marks, purge, stray>>

\* The character registry is written without a look at the tracker, when there is
\* one: the transcript is long enough and the model answered.
CharacterRegistry(r) ==
  /\ indexer[r] = "registry"
  /\ indexer' = [indexer EXCEPT ![r] = "describing"]
  /\ \/ index' = [index EXCEPT !["registry"] = r]
     \/ UNCHANGED index
  /\ UNCHANGED <<world, inbox, rows, detector, media, listed, attempts, marks, purge, stray>>

\* Narrative and scenes are written with no await between the look and the writes.
UpsertScenes(r) ==
  /\ indexer[r] = "describing"
  /\ indexer' = [indexer EXCEPT ![r] = "ended"]
  /\ IF IsDeleted THEN UNCHANGED index
     ELSE \E narrative \in {r, index["narrative"]} :
            index' = [index EXCEPT !["narrative"] = narrative, !["scene"] = listed[r]]
  /\ UNCHANGED <<world, inbox, rows, detector, media, listed, attempts, marks, purge, stray>>

\* Too many scenes failed, the vision model did, or a call to Chroma.
IndexingFails(r) ==
  /\ indexer[r] \in {"registry", "describing"} /\ Failed("indexer", indexer, r, "starting", IsDeleted)
  /\ UNCHANGED <<world, inbox, data, detector, media, listed, marks, purge, stray>>

\* Mutant: the event is acked before the index is purged.
MarkAndAck ==
  /\ Deleted \in inbox["file-embedder"] /\ Consume("file-embedder", Deleted)
  /\ marks' = marks \union {gone} /\ media' = Stopped(media) /\ indexer' = Stopped(indexer)
  /\ purge' = [purge EXCEPT !["file-embedder"] = "marked"]
  /\ UNCHANGED <<world, data, detector, listed, attempts, stray>>

\* The tracker learns of the deletion and, for a file, its tasks are cancelled.
MarkDeleted ==
  /\ Deleted \in inbox["file-embedder"] /\ purge["file-embedder"] = "none"
  /\ marks' = marks \union {gone}
  /\ IF gone = "file"
     THEN media' = Stopped(media) /\ indexer' = Stopped(indexer)
     ELSE UNCHANGED <<media, indexer>>
  /\ purge' = [purge EXCEPT !["file-embedder"] = "marked"]
  /\ UNCHANGED <<world, inbox, data, detector, listed, attempts, stray>>

\* In the executor, once for a user and twice, ten seconds apart, for a file.
PurgeChunks ==
  /\ purge["file-embedder"] \in {"marked", "deferred"}
  /\ index' = [c \in Chunks |-> 0]
  /\ purge' = [purge EXCEPT !["file-embedder"] = IF @ = "marked" /\ gone = "file" THEN "deferred" ELSE "over"]
  /\ IF purge["file-embedder"] = "marked" THEN Consume("file-embedder", Deleted) ELSE UNCHANGED inbox
  /\ UNCHANGED <<world, rows, tasks, marks, stray>>

-------------------------------------------------------------------------------
(* A restart: tasks, tracker and the second purge are lost; an event that was    *)
(* not acked comes back.                                                         *)

Restarted(s) == IF Deleted \in inbox[s] THEN "none" ELSE IF purge[s] = "none" THEN "none" ELSE "over"

Restart(s) ==
  /\ crashes < MaxCrashes /\ crashes' = crashes + 1
  /\ IF s = "scene-detector"
     THEN detector' = Stopped(detector) /\ UNCHANGED <<media, indexer, marks>>
     ELSE media' = Stopped(media) /\ indexer' = Stopped(indexer) /\ marks' = {} /\ UNCHANGED detector
  /\ purge' = [purge EXCEPT ![s] = Restarted(s)]
  /\ UNCHANGED <<rpcFails, present, gone, run, inbox, data, listed, attempts, stray>>

-------------------------------------------------------------------------------

DetectorStep(r) == \/ DetectUpload(r) \/ CheckFile(r) \/ ClearScenes(r) \/ DetectScenes(r)
                   \/ StoreScenes(r) \/ DetectionFails(r) \/ PublishDetected(r)
MediaStep(r)    == StartUpload(r) \/ IndexUpload(r) \/ Transcribe(r) \/ TranscriptionFails(r)
IndexerStep(r)  == \/ StartIndexing(r) \/ AwaitTranscription(r) \/ FetchFile(r) \/ ListScenes(r)
                   \/ DeleteSceneEmbeddings(r) \/ CharacterRegistry(r) \/ UpsertScenes(r) \/ IndexingFails(r)
PurgeStep       == HearOfDeletion \/ DeleteRows \/ MarkDeleted \/ PurgeChunks

Next ==
  \/ Reprocess \/ Delete \/ PurgeUserFiles
  \/ \E r \in Runs : DetectorStep(r) \/ MediaStep(r) \/ IndexerStep(r)
  \/ PurgeStep
  \/ \E s \in Services : Restart(s)

\* Events are delivered, and a purge that began goes on.
Spec == Init /\ [][Next]_vars /\ WF_vars(PurgeStep)

-------------------------------------------------------------------------------
(* Properties.                                                                   *)

\* Once file-embedder has handled the deletion of a file nothing of it is in the
\* index or comes back, whatever was in progress (_purge_files cancels, every
\* write looks at the tracker); of a deleted user only a registry may. After a
\* restart this rests on upload-manager's answer that the file is gone.
DeletedLeavesNothing ==
  purge["file-embedder"] \in {"deferred", "over"} /\ (crashes = 0 \/ (~rpcFails /\ gone = "file")) =>
    \A c \in Chunks : index[c] # 0 => c = "registry" /\ gone = "user"

\* Once scene-detector has handled the deletion of a file the table holds no scene
\* of it, but for an insertion that was on its way to the database when its task
\* was cancelled, and a task that could not find out that the file was gone.
DeletedHasNoScenes ==
  gone = "file" /\ purge["scene-detector"] = "over" /\ rows # 0 => rows \in stray

\* When the scenes in the table are those of a run whose
\* indexing began, the index has no chunk of a scene that is not in the table.
IndexedScenesExist ==
  gone = "none" /\ crashes = 0 /\ rows # 0 /\ indexer[rows] = "ended" /\ listed[rows] = rows =>
    index["scene"] \in {0, rows}

\* A deleted file leaves the index for good, through restarts of file-embedder.
DeletionEndsInNothing ==
  [](gone = "file" /\ ~rpcFails => <>[](\A c \in Chunks : index[c] = 0))
===============================================================================
