---------------------------- MODULE IndexingProofs ----------------------------
(* What Indexing promises of the scenes and chunks of a video, for any number of *)
(* runs, attempts and restarts. The invariant says that one run at a time is at  *)
(* work and its stages follow one another; what a service knows of the deletion; *)
(* which tasks of file-embedder, and which of scene-detector, can still write    *)
(* once it knows; and whose scenes the index has.                                *)
EXTENDS Indexing, TLAPS

Tasks == {"detector", "media", "indexer"}
Over(task, r) == task[r] \in {"none", "ended"}

\* The runs before the last one are over, and nothing is left of them but what they wrote.
OneRunAtATime ==
  /\ attempts \in [Tasks -> [Runs -> 0..MaxAttempts]]
  /\ \A r \in Runs : r # run =>
       /\ Over(detector, r) /\ Over(media, r) /\ Over(indexer, r)
       /\ listed[r] = 0
       /\ \A s \in Services : Uploaded(r) \notin inbox[s] /\ Detected(r) \notin inbox[s]

\* A service hears of a deletion when there is one, and acks it only after its first purge.
DeletionIsKnown ==
  /\ gone = "file" => ~present
  /\ purge["scene-detector"] # "deferred"
  /\ \A s \in Services : /\ (Deleted \in inbox[s] \/ purge[s] # "none") => gone # "none"
                         /\ purge[s] = "marked" => Deleted \in inbox[s]

\* Once file-embedder knows that the file is deleted no indexer works on it, and the tracker
\* or the answer of upload-manager keeps the media tasks from writing.
EmbedderStops ==
  purge["file-embedder"] # "none" =>
    /\ crashes = 0 => gone \in marks
    /\ gone = "file" => \A r \in Runs :
         /\ indexer[r] \in {"none", "waiting", "fetching", "ended"}
         /\ ~rpcFails => media[r] # "working"

\* Once scene-detector knows it, only stray tasks are past their look at the file.
DetectorStops ==
  purge["scene-detector"] # "none" /\ gone = "file" =>
    \A r \in Runs : detector[r] \in {"none", "checking", "ended"} \/ r \in stray

\* A run is with one after the other: its upload is announced, it is detected, its scenes are
\* announced, and only then are they listed and indexed.
OneAfterTheOther ==
  LET announced == Uploaded(run) \in inbox["scene-detector"]
      detecting == ~Over(detector, run)
      detected  == Detected(run) \in inbox["file-embedder"]
      indexing  == ~Over(indexer, run) \/ listed[run] # 0
  IN /\ announced => ~detecting /\ ~detected /\ ~indexing
     /\ detecting => ~detected /\ ~indexing
     /\ detected => ~indexing

\* The scene chunks are those of the scenes the indexer listed, from when it dropped the others.
ScenesOfTheList ==
  gone = "none" /\ crashes = 0 /\ listed[run] # 0 /\ indexer[run] # "starting" =>
    index["scene"] \in {0, listed[run]}

-------------------------------------------------------------------------------
(* Types, runs in order, and the deletion as it is known.                        *)

Events == {Uploaded(r) : r \in Runs} \union {Detected(r) : r \in Runs} \union {Deleted}
DetectorStates == {"none", "checking", "clearing", "detecting", "storing", "adrift", "publishing", "ended"}
MediaStates    == {"none", "checking", "working", "ended"}
IndexerStates  == {"none", "waiting", "fetching", "listing", "starting", "registry", "describing", "ended"}

\* The first three parts, which need one another.
Base == TypeOK /\ OneRunAtATime /\ DeletionIsKnown

\* No two events are the same.
LEMMA EventsDiffer ==
  \A r, q \in Runs : /\ Uploaded(r) # Deleted /\ Detected(r) # Deleted /\ Uploaded(r) # Detected(q)
                     /\ (Uploaded(r) = Uploaded(q) => r = q) /\ (Detected(r) = Detected(q) => r = q)
BY DEF Uploaded, Detected, Deleted

LEMMA RunsAreNumbers == /\ Runs \subseteq Nat /\ MaxRuns \in Nat /\ MaxAttempts \in Nat /\ MaxCrashes \in Nat
                        /\ \A r \in Runs : r # 0
BY IndexingAssumption DEF Runs

\* A task that is stopped is over, and one that is over stays as it is.
LEMMA Stops ==
  ASSUME NEW S, "ended" \in S, NEW task \in [Runs -> S]
  PROVE  /\ Stopped(task) \in [Runs -> S]
         /\ \A r \in Runs : Over(Stopped(task), r)
         /\ \A r \in Runs : task[r] = "none" => Stopped(task)[r] = "none"
BY DEF Stopped, Alive, Over

\* The last run alone can be at work.
LEMMA OnlyTheLast ==
  ASSUME OneRunAtATime, NEW r \in Runs,
         ~Over(detector, r) \/ ~Over(media, r) \/ ~Over(indexer, r)
         \/ \E s \in Services : Uploaded(r) \in inbox[s] \/ Detected(r) \in inbox[s]
  PROVE  r = run
BY DEF OneRunAtATime

\* What a failed attempt counts stays within the limit.
LEMMA Counts ==
  ASSUME OneRunAtATime, NEW t \in Tasks, NEW r \in Runs,
         \/ attempts[t][r] + 1 < MaxAttempts /\ attempts' = [attempts EXCEPT ![t][r] = @ + 1]
         \/ UNCHANGED attempts
  PROVE  /\ attempts' \in [Tasks -> [Runs -> 0..MaxAttempts]]
         /\ \A q \in DOMAIN attempts' : attempts'[q] \in [Runs -> 0..MaxAttempts]
<1>1. CASE UNCHANGED attempts  BY <1>1 DEF OneRunAtATime
<1>2. CASE attempts[t][r] + 1 < MaxAttempts /\ attempts' = [attempts EXCEPT ![t][r] = @ + 1]
  <2>1. attempts[t] \in [Runs -> 0..MaxAttempts] /\ attempts[t][r] \in 0..MaxAttempts  BY DEF OneRunAtATime
  <2>2. attempts[t][r] + 1 \in 0..MaxAttempts  BY <1>2, <2>1, RunsAreNumbers
  <2>3. [attempts[t] EXCEPT ![r] = @ + 1] \in [Runs -> 0..MaxAttempts]  BY <2>1, <2>2
  <2>4. attempts' = [attempts EXCEPT ![t] = [attempts[t] EXCEPT ![r] = @ + 1]]  BY <1>2
  <2> QED  BY <2>3, <2>4 DEF OneRunAtATime
<1> QED  BY <1>1, <1>2

LEMMA BaseInit == Init => Base
<1> SUFFICES ASSUME Init PROVE Base
  OBVIOUS
<1> USE RunsAreNumbers, EventsDiffer
<1>1. 1 \in Runs  BY IndexingAssumption DEF Runs
<1>2. inbox \in [Services -> SUBSET Events]  BY <1>1 DEF Init, Events
<1>3. TypeOK  BY <1>1, <1>2 DEF Init, TypeOK, Tried, Events
<1>4. OneRunAtATime  BY <1>1 DEF Init, OneRunAtATime, Over, Tried, Tasks
<1>5. DeletionIsKnown  BY <1>1 DEF Init, DeletionIsKnown, Services
<1> QED  BY <1>3, <1>4, <1>5 DEF Base

LEMMA DetectorBase ==
  ASSUME Base, NEW r \in Runs, DetectorStep(r)
  PROVE  Base'
<1> USE RunsAreNumbers, EventsDiffer
<1>1. CASE DetectUpload(r)
  <2>1. r = run  BY <1>1, OnlyTheLast DEF DetectUpload, Base, Services
  <2>2. TypeOK'  BY <1>1 DEF DetectUpload, Base, TypeOK, Consume, Services, world, data
  <2>3. OneRunAtATime'  BY <1>1, <2>1 DEF DetectUpload, Base, TypeOK, OneRunAtATime, Over, Consume, Services, world, data
  <2>4. DeletionIsKnown'  BY <1>1 DEF DetectUpload, Base, TypeOK, DeletionIsKnown, Consume, Services, world, data
  <2> QED  BY <2>2, <2>3, <2>4 DEF Base
<1>2. CASE CheckFile(r)
  <2>1. r = run  BY <1>2, OnlyTheLast DEF CheckFile, Base, Over
  <2>2. TypeOK'  BY <1>2 DEF CheckFile, Base, TypeOK, world, data
  <2>3. OneRunAtATime'  BY <1>2, <2>1 DEF CheckFile, Base, TypeOK, OneRunAtATime, Over, world, data
  <2>4. DeletionIsKnown'  BY <1>2 DEF CheckFile, Base, DeletionIsKnown, world, data
  <2> QED  BY <2>2, <2>3, <2>4 DEF Base
<1>3. CASE ClearScenes(r) \/ DetectScenes(r) \/ StoreScenes(r)
  <2>1. r = run  BY <1>3, OnlyTheLast DEF ClearScenes, DetectScenes, StoreScenes, Base, Over
  <2>2. TypeOK'  BY <1>3, <2>1 DEF ClearScenes, DetectScenes, StoreScenes, Base, TypeOK, world, data
  <2>3. OneRunAtATime'
    BY <1>3, <2>1 DEF ClearScenes, DetectScenes, StoreScenes, Base, TypeOK, OneRunAtATime, Over, world, data
  <2>4. DeletionIsKnown'  BY <1>3 DEF ClearScenes, DetectScenes, StoreScenes, Base, DeletionIsKnown, world, data
  <2> QED  BY <2>2, <2>3, <2>4 DEF Base
<1>4. CASE DetectionFails(r)
  <2>1. r = run  BY <1>4, OnlyTheLast DEF DetectionFails, Base, Over
  <2>2. /\ attempts' \in [Tasks -> [Runs -> 0..MaxAttempts]]
        /\ \A q \in DOMAIN attempts' : attempts'[q] \in [Runs -> 0..MaxAttempts]
    <3>1. \/ attempts["detector"][r] + 1 < MaxAttempts /\ attempts' = [attempts EXCEPT !["detector"][r] = @ + 1]
          \/ UNCHANGED attempts
      BY <1>4 DEF DetectionFails, Failed
    <3> QED  BY <3>1, Counts DEF Base, Tasks
  <2>5. \E to \in {"clearing", "ended"} : detector' = [detector EXCEPT ![r] = to]
    BY <1>4 DEF DetectionFails, Failed
  <2>6. TypeOK'  BY <1>4, <2>2, <2>5 DEF DetectionFails, Base, TypeOK, world, data
  <2>3. OneRunAtATime'
    BY <1>4, <2>1, <2>2, <2>5 DEF DetectionFails, Base, TypeOK, OneRunAtATime, Over, world, data
  <2>4. DeletionIsKnown'  BY <1>4 DEF DetectionFails, Base, DeletionIsKnown, world, data
  <2> QED  BY <2>6, <2>3, <2>4 DEF Base
<1>5. CASE PublishDetected(r)
  <2>1. r = run  BY <1>5, OnlyTheLast DEF PublishDetected, Base, Over
  <2>2. TypeOK'  BY <1>5 DEF PublishDetected, Base, TypeOK, Services, world, data
  <2>3. OneRunAtATime'  BY <1>5, <2>1 DEF PublishDetected, Base, TypeOK, OneRunAtATime, Over, Services, world, data
  <2>4. DeletionIsKnown'  BY <1>5 DEF PublishDetected, Base, TypeOK, DeletionIsKnown, Services, world, data
  <2> QED  BY <2>2, <2>3, <2>4 DEF Base
<1> QED  BY <1>1, <1>2, <1>3, <1>4, <1>5 DEF DetectorStep

LEMMA MediaBase ==
  ASSUME Base, NEW r \in Runs, MediaStep(r)
  PROVE  Base'
<1> USE RunsAreNumbers, EventsDiffer
<1>1. CASE StartUpload(r)
  <2>1. r = run  BY <1>1, OnlyTheLast DEF StartUpload, Base, Services
  <2>2. TypeOK'  BY <1>1 DEF StartUpload, Base, TypeOK, Consume, Services, world, data
  <2>3. OneRunAtATime'  BY <1>1, <2>1 DEF StartUpload, Base, TypeOK, OneRunAtATime, Over, Consume, Services, world, data
  <2>4. DeletionIsKnown'  BY <1>1 DEF StartUpload, Base, TypeOK, DeletionIsKnown, Consume, Services, world, data
  <2> QED  BY <2>2, <2>3, <2>4 DEF Base
<1>2. CASE IndexUpload(r) \/ Transcribe(r)
  <2>1. r = run  BY <1>2, OnlyTheLast DEF IndexUpload, Transcribe, Base, Over
  <2>2. TypeOK'  BY <1>2, <2>1 DEF IndexUpload, Transcribe, Base, TypeOK, world, data
  <2>3. OneRunAtATime'  BY <1>2, <2>1 DEF IndexUpload, Transcribe, Base, TypeOK, OneRunAtATime, Over, world, data
  <2>4. DeletionIsKnown'  BY <1>2 DEF IndexUpload, Transcribe, Base, DeletionIsKnown, world, data
  <2> QED  BY <2>2, <2>3, <2>4 DEF Base
<1>3. CASE TranscriptionFails(r)
  <2>1. r = run  BY <1>3, OnlyTheLast DEF TranscriptionFails, Base, Over
  <2>2. /\ attempts' \in [Tasks -> [Runs -> 0..MaxAttempts]]
        /\ \A q \in DOMAIN attempts' : attempts'[q] \in [Runs -> 0..MaxAttempts]
    <3>1. \/ attempts["media"][r] + 1 < MaxAttempts /\ attempts' = [attempts EXCEPT !["media"][r] = @ + 1]
          \/ UNCHANGED attempts
      BY <1>3 DEF TranscriptionFails, Failed
    <3> QED  BY <3>1, Counts DEF Base, Tasks
  <2>5. \E to \in {"working", "ended"} : media' = [media EXCEPT ![r] = to]
    BY <1>3 DEF TranscriptionFails, Failed
  <2>6. TypeOK'  BY <1>3, <2>2, <2>5 DEF TranscriptionFails, Base, TypeOK, world, data
  <2>3. OneRunAtATime'
    BY <1>3, <2>1, <2>2, <2>5 DEF TranscriptionFails, Base, TypeOK, OneRunAtATime, Over, world, data
  <2>4. DeletionIsKnown'  BY <1>3 DEF TranscriptionFails, Base, DeletionIsKnown, world, data
  <2> QED  BY <2>6, <2>3, <2>4 DEF Base
<1> QED  BY <1>1, <1>2, <1>3 DEF MediaStep
LEMMA IndexerBase ==
  ASSUME Base, NEW r \in Runs, IndexerStep(r)
  PROVE  Base'
<1> USE RunsAreNumbers, EventsDiffer
<1>1. CASE StartIndexing(r)
  <2>1. r = run  BY <1>1, OnlyTheLast DEF StartIndexing, Base, Services
  <2>2. TypeOK'  BY <1>1 DEF StartIndexing, Base, TypeOK, Consume, Services, world, data
  <2>3. OneRunAtATime'  BY <1>1, <2>1 DEF StartIndexing, Base, TypeOK, OneRunAtATime, Over, Consume, Services, world, data
  <2>4. DeletionIsKnown'  BY <1>1 DEF StartIndexing, Base, TypeOK, DeletionIsKnown, Consume, Services, world, data
  <2> QED  BY <2>2, <2>3, <2>4 DEF Base
<1>2. CASE AwaitTranscription(r) \/ FetchFile(r) \/ ListScenes(r)
  <2>1. r = run  BY <1>2, OnlyTheLast DEF AwaitTranscription, FetchFile, ListScenes, Base, Over
  <2>2. TypeOK'  BY <1>2 DEF AwaitTranscription, FetchFile, ListScenes, Base, TypeOK, world, data
  <2>3. OneRunAtATime'
    BY <1>2, <2>1 DEF AwaitTranscription, FetchFile, ListScenes, Base, TypeOK, OneRunAtATime, Over, world, data
  <2>4. DeletionIsKnown'  BY <1>2 DEF AwaitTranscription, FetchFile, ListScenes, Base, DeletionIsKnown, world, data
  <2> QED  BY <2>2, <2>3, <2>4 DEF Base
<1>3. CASE DeleteSceneEmbeddings(r) \/ CharacterRegistry(r)
  <2>1. r = run  BY <1>3, OnlyTheLast DEF DeleteSceneEmbeddings, CharacterRegistry, Base, Over
  <2>2. index' \in [Chunks -> 0..run]
    BY <1>3, <2>1 DEF DeleteSceneEmbeddings, CharacterRegistry, Base, TypeOK
  <2>3. TypeOK'  BY <1>3, <2>2 DEF DeleteSceneEmbeddings, CharacterRegistry, Base, TypeOK, world
  <2>4. OneRunAtATime'
    BY <1>3, <2>1 DEF DeleteSceneEmbeddings, CharacterRegistry, Base, TypeOK, OneRunAtATime, Over, world
  <2>5. DeletionIsKnown'  BY <1>3 DEF DeleteSceneEmbeddings, CharacterRegistry, Base, DeletionIsKnown, world
  <2> QED  BY <2>3, <2>4, <2>5 DEF Base
<1>4. CASE UpsertScenes(r)
  <2>1. r = run  BY <1>4, OnlyTheLast DEF UpsertScenes, Base, Over
  <2>2. index' \in [Chunks -> 0..run]
    <3>1. \E a, b \in 0..run : index' = index \/ index' = [index EXCEPT !["narrative"] = a, !["scene"] = b]
      BY <1>4, <2>1 DEF UpsertScenes, Base, TypeOK, Chunks
    <3> QED  BY <3>1 DEF Base, TypeOK
  <2>3. TypeOK'  BY <1>4, <2>2 DEF UpsertScenes, Base, TypeOK, world
  <2>4. OneRunAtATime'  BY <1>4, <2>1 DEF UpsertScenes, Base, TypeOK, OneRunAtATime, Over, world
  <2>5. DeletionIsKnown'  BY <1>4 DEF UpsertScenes, Base, DeletionIsKnown, world
  <2> QED  BY <2>3, <2>4, <2>5 DEF Base
<1>5. CASE IndexingFails(r)
  <2>1. r = run  BY <1>5, OnlyTheLast DEF IndexingFails, Base, Over
  <2>2. /\ attempts' \in [Tasks -> [Runs -> 0..MaxAttempts]]
        /\ \A q \in DOMAIN attempts' : attempts'[q] \in [Runs -> 0..MaxAttempts]
    <3>1. \/ attempts["indexer"][r] + 1 < MaxAttempts /\ attempts' = [attempts EXCEPT !["indexer"][r] = @ + 1]
          \/ UNCHANGED attempts
      BY <1>5 DEF IndexingFails, Failed
    <3> QED  BY <3>1, Counts DEF Base, Tasks
  <2>3. \E to \in {"starting", "ended"} : indexer' = [indexer EXCEPT ![r] = to]
    BY <1>5 DEF IndexingFails, Failed
  <2>4. TypeOK'  BY <1>5, <2>2, <2>3 DEF IndexingFails, Base, TypeOK, world, data
  <2>5. OneRunAtATime'
    BY <1>5, <2>1, <2>2, <2>3 DEF IndexingFails, Base, TypeOK, OneRunAtATime, Over, world, data
  <2>6. DeletionIsKnown'  BY <1>5 DEF IndexingFails, Base, DeletionIsKnown, world, data
  <2> QED  BY <2>4, <2>5, <2>6 DEF Base
<1> QED  BY <1>1, <1>2, <1>3, <1>4, <1>5 DEF IndexerStep

LEMMA PurgeBase ==
  ASSUME Base, PurgeStep
  PROVE  Base'
<1> USE RunsAreNumbers, EventsDiffer
<1>1. CASE HearOfDeletion
  <2>1. /\ detector' \in [Runs -> DetectorStates]
        /\ stray' \subseteq Runs
        /\ \A r \in Runs : Over(detector, r) => Over(detector', r)
    <3>1. CASE gone = "file"
      <4>1. PICK adrift \in SUBSET {r \in Runs : detector[r] = "storing"} :
              /\ detector' = [r \in Runs |-> IF r \in adrift THEN "adrift" ELSE Stopped(detector)[r]]
              /\ stray' = stray \union adrift
        BY <1>1, <3>1 DEF HearOfDeletion
      <4>2. /\ Stopped(detector) \in [Runs -> DetectorStates]
            /\ \A r \in Runs : Over(Stopped(detector), r)
        BY Stops DEF Base, TypeOK, DetectorStates
      <4> QED  BY <4>1, <4>2 DEF Base, TypeOK, DetectorStates, Over
    <3>2. CASE gone # "file"  BY <1>1, <3>2 DEF HearOfDeletion, Base, TypeOK, DetectorStates
    <3> QED  BY <3>1, <3>2
  <2>2. TypeOK'  BY <1>1, <2>1 DEF HearOfDeletion, Base, TypeOK, DetectorStates, Services, world, data
  <2>3. OneRunAtATime'  BY <1>1, <2>1 DEF HearOfDeletion, Base, OneRunAtATime, Over, world, data
  <2>4. DeletionIsKnown'  BY <1>1 DEF HearOfDeletion, Base, TypeOK, DeletionIsKnown, Services, world, data
  <2> QED  BY <2>2, <2>3, <2>4 DEF Base
<1>2. CASE DeleteRows
  <2>1. TypeOK'  BY <1>2 DEF DeleteRows, Base, TypeOK, Consume, Services, world, tasks
  <2>2. OneRunAtATime'  BY <1>2 DEF DeleteRows, Base, TypeOK, OneRunAtATime, Over, Consume, Services, world, tasks
  <2>3. DeletionIsKnown'  BY <1>2 DEF DeleteRows, Base, TypeOK, DeletionIsKnown, Consume, Services, world, tasks
  <2> QED  BY <2>1, <2>2, <2>3 DEF Base
<1>3. CASE MarkDeleted
  <2>1. gone \in {"file", "user"}  BY <1>3 DEF MarkDeleted, Base, TypeOK, DeletionIsKnown, Services
  <2>2. /\ media' \in [Runs -> MediaStates] /\ \A r \in Runs : Over(media, r) => Over(media', r)
        /\ indexer' \in [Runs -> IndexerStates] /\ \A r \in Runs : Over(indexer, r) => Over(indexer', r)
    <3>1. Stopped(media) \in [Runs -> MediaStates] /\ \A r \in Runs : Over(Stopped(media), r)
      BY Stops DEF Base, TypeOK, MediaStates
    <3>2. Stopped(indexer) \in [Runs -> IndexerStates] /\ \A r \in Runs : Over(Stopped(indexer), r)
      BY Stops DEF Base, TypeOK, IndexerStates
    <3> QED  BY <1>3, <3>1, <3>2 DEF MarkDeleted, Base, TypeOK, MediaStates, IndexerStates
  <2>3. TypeOK'
    BY <1>3, <2>1, <2>2 DEF MarkDeleted, Base, TypeOK, MediaStates, IndexerStates, Services, world, data
  <2>4. OneRunAtATime'  BY <1>3, <2>2 DEF MarkDeleted, Base, OneRunAtATime, Over, world, data
  <2>5. DeletionIsKnown'  BY <1>3, <2>1 DEF MarkDeleted, Base, TypeOK, DeletionIsKnown, Services, world, data
  <2> QED  BY <2>3, <2>4, <2>5 DEF Base
<1>4. CASE PurgeChunks
  <2>1. inbox' \in [Services -> SUBSET Events]
    BY <1>4 DEF PurgeChunks, Base, TypeOK, Consume, Services, Events
  <2>2. purge' \in [Services -> {"none", "marked", "deferred", "over"}]
    BY <1>4 DEF PurgeChunks, Base, TypeOK, Services
  <2>3. TypeOK'  BY <1>4, <2>1, <2>2 DEF PurgeChunks, Base, TypeOK, Events, world, tasks
  <2>4. OneRunAtATime'  BY <1>4 DEF PurgeChunks, Base, TypeOK, OneRunAtATime, Over, Consume, Services, world, tasks
  <2>5. DeletionIsKnown'  BY <1>4 DEF PurgeChunks, Base, TypeOK, DeletionIsKnown, Consume, Services, world, tasks
  <2> QED  BY <2>3, <2>4, <2>5 DEF Base
<1> QED  BY <1>1, <1>2, <1>3, <1>4 DEF PurgeStep

LEMMA WorldBase ==
  ASSUME Base, Reprocess \/ Delete \/ PurgeUserFiles \/ \E s \in Services : Restart(s)
  PROVE  Base'
<1> USE RunsAreNumbers, EventsDiffer
<1>1. CASE Reprocess
  <2>1. run + 1 \in Runs /\ run \in Runs  BY <1>1 DEF Reprocess, Base, TypeOK, Runs
  <2>2. /\ \A r \in Runs : Over(detector, r) /\ Over(media, r) /\ Over(indexer, r)
        /\ \A s \in Services : inbox[s] = {}
    BY <1>1 DEF Reprocess, InProgress, Alive, Over
  <2>3. /\ attempts' \in [Tasks -> [Runs -> 0..MaxAttempts]]
        /\ \A q \in DOMAIN attempts' : attempts'[q] \in [Runs -> 0..MaxAttempts]
    BY <1>1 DEF Reprocess, Tried, Tasks
  <2>4. rows \in 0..run' /\ index \in [Chunks -> 0..run']
    BY <1>1, <2>1 DEF Reprocess, Base, TypeOK
  <2>5. inbox' \in [Services -> SUBSET Events]  BY <1>1, <2>1, <2>2 DEF Reprocess, Events
  <2>6. TypeOK'  BY <1>1, <2>1, <2>3, <2>4, <2>5 DEF Reprocess, Base, TypeOK, Events, data
  <2>7. OneRunAtATime'  BY <1>1, <2>1, <2>2, <2>3 DEF Reprocess, Base, OneRunAtATime, Over, data
  <2>8. DeletionIsKnown'  BY <1>1, <2>1, <2>2 DEF Reprocess, Base, DeletionIsKnown
  <2> QED  BY <2>6, <2>7, <2>8 DEF Base
<1>2. CASE Delete
  <2>1. gone' \in {"file", "user"}  BY <1>2 DEF Delete
  <2>2. inbox' \in [Services -> SUBSET Events]  BY <1>2 DEF Delete, Base, TypeOK, Events
  <2>3. TypeOK'  BY <1>2, <2>1, <2>2 DEF Delete, Base, TypeOK, Events, data, tasks
  <2>4. OneRunAtATime'  BY <1>2 DEF Delete, Base, TypeOK, OneRunAtATime, Over, data, tasks
  <2>5. DeletionIsKnown'  BY <1>2, <2>1 DEF Delete, Base, TypeOK, DeletionIsKnown, data, tasks
  <2> QED  BY <2>3, <2>4, <2>5 DEF Base
<1>3. CASE PurgeUserFiles
  <2>1. TypeOK'  BY <1>3 DEF PurgeUserFiles, Base, TypeOK, data, tasks
  <2>2. OneRunAtATime'  BY <1>3 DEF PurgeUserFiles, Base, OneRunAtATime, Over, data, tasks
  <2>3. DeletionIsKnown'  BY <1>3 DEF PurgeUserFiles, Base, DeletionIsKnown, data, tasks
  <2> QED  BY <2>1, <2>2, <2>3 DEF Base
<1>4. ASSUME NEW s \in Services, Restart(s) PROVE Base'
  <2>1. /\ detector' \in [Runs -> DetectorStates] /\ \A r \in Runs : Over(detector, r) => Over(detector', r)
        /\ media' \in [Runs -> MediaStates] /\ \A r \in Runs : Over(media, r) => Over(media', r)
        /\ indexer' \in [Runs -> IndexerStates] /\ \A r \in Runs : Over(indexer, r) => Over(indexer', r)
    <3>1. Stopped(media) \in [Runs -> MediaStates] /\ \A r \in Runs : Over(Stopped(media), r)
      BY Stops DEF Base, TypeOK, MediaStates
    <3>2. Stopped(indexer) \in [Runs -> IndexerStates] /\ \A r \in Runs : Over(Stopped(indexer), r)
      BY Stops DEF Base, TypeOK, IndexerStates
    <3>3. Stopped(detector) \in [Runs -> DetectorStates] /\ \A r \in Runs : Over(Stopped(detector), r)
      BY Stops DEF Base, TypeOK, DetectorStates
    <3> QED
      BY <1>4, <3>1, <3>2, <3>3 DEF Restart, Base, TypeOK, MediaStates, IndexerStates, DetectorStates
  <2>2. marks' \subseteq {"file", "user"} /\ crashes' \in 0..MaxCrashes  BY <1>4 DEF Restart, Base, TypeOK
  <2>3. purge' \in [Services -> {"none", "marked", "deferred", "over"}]
    BY <1>4 DEF Restart, Restarted, Base, TypeOK
  <2>4. TypeOK'
    BY <1>4, <2>1, <2>2, <2>3 DEF Restart, Base, TypeOK, MediaStates, IndexerStates, DetectorStates, data
  <2>5. OneRunAtATime'  BY <1>4, <2>1 DEF Restart, Base, OneRunAtATime, Over, data
  <2>6. DeletionIsKnown'  BY <1>4 DEF Restart, Restarted, Base, TypeOK, DeletionIsKnown, data
  <2> QED  BY <2>4, <2>5, <2>6 DEF Base
<1> QED  BY <1>1, <1>2, <1>3, <1>4

LEMMA BaseStep == Base /\ [Next]_vars => Base'
<1>1. Base /\ UNCHANGED vars => Base'
  BY DEF vars, Base, TypeOK, OneRunAtATime, DeletionIsKnown, Over
<1> QED  BY <1>1, DetectorBase, MediaBase, IndexerBase, PurgeBase, WorldBase DEF Next

LEMMA BaseHolds == Spec => []Base
BY BaseInit, BaseStep, PTL DEF Spec

\* Everything that is derived from a video keeps its type: rows and chunks are of runs there were.
THEOREM IndexingTypeCorrect == Spec => []TypeOK
<1>1. Base => TypeOK  BY DEF Base
<1> QED  BY <1>1, BaseHolds, PTL
-------------------------------------------------------------------------------
(* The deletion in file-embedder.                                                *)

\* Steps of upload-manager and scene-detector leave the index and its tasks alone.
LEMMA OthersLeaveTheIndex ==
  ASSUME Base, EmbedderStops, DeletedLeavesNothing,
         \/ Reprocess \/ Delete \/ PurgeUserFiles \/ HearOfDeletion \/ DeleteRows
         \/ \E r \in Runs : DetectorStep(r)
  PROVE  EmbedderStops' /\ DeletedLeavesNothing'
<1>1. CASE Delete
  <2>1. purge["file-embedder"] = "none"  BY <1>1 DEF Delete, Base, DeletionIsKnown, Services
  <2> QED  BY <1>1, <2>1 DEF Delete, EmbedderStops, DeletedLeavesNothing
<1>2. CASE ~Delete
  <2>1. /\ UNCHANGED <<gone, crashes, rpcFails, marks, media, indexer, index>>
        /\ purge'["file-embedder"] = purge["file-embedder"]
    <3>1. CASE Reprocess \/ PurgeUserFiles  BY <3>1 DEF Reprocess, PurgeUserFiles, data, tasks
    <3>2. CASE HearOfDeletion \/ DeleteRows
      BY <3>2 DEF HearOfDeletion, DeleteRows, Base, TypeOK, Services, world, data, tasks
    <3>3. ASSUME NEW r \in Runs, DetectorStep(r)
          PROVE  UNCHANGED <<gone, crashes, rpcFails, marks, media, indexer, index, purge>>
      BY <3>3 DEF DetectorStep, DetectUpload, CheckFile, ClearScenes, DetectScenes, StoreScenes, DetectionFails,
                  PublishDetected, world, data
    <3> QED  BY <1>2, <3>1, <3>2, <3>3
  <2> QED  BY <2>1 DEF EmbedderStops, DeletedLeavesNothing
<1> QED  BY <1>1, <1>2

\* A media task that can write finds the file marked, or is one the answer lets through.
LEMMA MediaStops ==
  ASSUME Base, EmbedderStops, DeletedLeavesNothing, NEW r \in Runs, MediaStep(r)
  PROVE  EmbedderStops' /\ DeletedLeavesNothing'
<1>1. CASE StartUpload(r)
  BY <1>1 DEF StartUpload, Base, TypeOK, EmbedderStops, DeletedLeavesNothing, world, data
<1>2. CASE IndexUpload(r)
  <2>1. gone = "file" /\ ~rpcFails => media'[r] # "working"
    BY <1>2 DEF IndexUpload, Exists, Base, TypeOK, DeletionIsKnown
  <2>2. \A q \in Runs : q # r => media'[q] = media[q]  BY <1>2 DEF IndexUpload, Base, TypeOK
  <2> QED  BY <1>2, <2>1, <2>2 DEF IndexUpload, EmbedderStops, DeletedLeavesNothing, world, data
<1>3. CASE Transcribe(r)
  <2>1. \A q \in Runs : media'[q] = "working" => media[q] = "working"  BY <1>3 DEF Transcribe, Base, TypeOK
  <2>2. EmbedderStops'  BY <1>3, <2>1 DEF Transcribe, EmbedderStops, world
  <2>3. DeletedLeavesNothing'
    <3>1. CASE IsDeleted  BY <1>3, <3>1 DEF Transcribe, DeletedLeavesNothing, world
    <3>2. CASE ~IsDeleted
      BY <1>3, <3>2 DEF Transcribe, EmbedderStops, DeletedLeavesNothing, IsDeleted, world
    <3> QED  BY <3>1, <3>2
  <2> QED  BY <2>2, <2>3
<1>4. CASE TranscriptionFails(r)
  <2>1. \A q \in Runs : media'[q] = "working" => media[q] = "working"
    BY <1>4 DEF TranscriptionFails, Failed, Base, TypeOK
  <2> QED  BY <1>4, <2>1 DEF TranscriptionFails, EmbedderStops, DeletedLeavesNothing, world, data
<1> QED  BY <1>1, <1>2, <1>3, <1>4 DEF MediaStep

\* An indexer gets past its call of GetFile only while the file is there, and writes scenes only unmarked.
LEMMA IndexerStops ==
  ASSUME Base, EmbedderStops, DeletedLeavesNothing, NEW r \in Runs, IndexerStep(r)
  PROVE  EmbedderStops' /\ DeletedLeavesNothing'
<1>1. CASE StartIndexing(r)
  BY <1>1 DEF StartIndexing, Base, TypeOK, EmbedderStops, DeletedLeavesNothing, world, data
<1>2. CASE AwaitTranscription(r)
  BY <1>2 DEF AwaitTranscription, Base, TypeOK, EmbedderStops, DeletedLeavesNothing, world, data
<1>3. CASE FetchFile(r)
  <2>1. gone = "file" => indexer'[r] = "ended"  BY <1>3 DEF FetchFile, Base, TypeOK, DeletionIsKnown
  <2>2. \A q \in Runs : q # r => indexer'[q] = indexer[q]  BY <1>3 DEF FetchFile, Base, TypeOK
  <2> QED  BY <1>3, <2>1, <2>2 DEF FetchFile, EmbedderStops, DeletedLeavesNothing, world, data
<1>4. CASE ListScenes(r)
  <2>1. \A q \in Runs : indexer'[q] = indexer[q] \/ (q = r /\ indexer[q] = "listing")
    BY <1>4 DEF ListScenes, Base, TypeOK
  <2> QED  BY <1>4, <2>1 DEF ListScenes, EmbedderStops, DeletedLeavesNothing, world, data
<1>5. CASE DeleteSceneEmbeddings(r)
  <2>1. \A q \in Runs : indexer'[q] = indexer[q] \/ (q = r /\ indexer[q] = "starting")
    BY <1>5 DEF DeleteSceneEmbeddings, Base, TypeOK
  <2>2. \A c \in Chunks : index'[c] \in {0, index[c]}  BY <1>5 DEF DeleteSceneEmbeddings, Base, TypeOK
  <2> QED  BY <1>5, <2>1, <2>2 DEF DeleteSceneEmbeddings, EmbedderStops, DeletedLeavesNothing, world
<1>6. CASE CharacterRegistry(r)
  <2>1. \A q \in Runs : indexer'[q] = indexer[q] \/ (q = r /\ indexer[q] = "registry")
    BY <1>6 DEF CharacterRegistry, Base, TypeOK
  <2>2. \A c \in Chunks : c # "registry" => index'[c] = index[c]  BY <1>6 DEF CharacterRegistry, Base, TypeOK
  <2>3. EmbedderStops'  BY <1>6, <2>1 DEF CharacterRegistry, EmbedderStops, world
  <2>4. purge["file-embedder"] # "none" => gone = "user"
    BY <1>6 DEF CharacterRegistry, EmbedderStops, Base, TypeOK, DeletionIsKnown, Services
  <2> QED  BY <1>6, <2>2, <2>3, <2>4 DEF CharacterRegistry, DeletedLeavesNothing, world
<1>7. CASE UpsertScenes(r)
  <2>1. \A q \in Runs : indexer'[q] = indexer[q] \/ (q = r /\ indexer[q] = "describing")
    BY <1>7 DEF UpsertScenes, Base, TypeOK
  <2>2. EmbedderStops'  BY <1>7, <2>1 DEF UpsertScenes, EmbedderStops, world
  <2>3. DeletedLeavesNothing'
    <3>1. CASE IsDeleted  BY <1>7, <3>1 DEF UpsertScenes, DeletedLeavesNothing, world
    <3>2. CASE ~IsDeleted
      BY <1>7, <3>2 DEF UpsertScenes, EmbedderStops, DeletedLeavesNothing, IsDeleted, world
    <3> QED  BY <3>1, <3>2
  <2> QED  BY <2>2, <2>3
<1>8. CASE IndexingFails(r)
  <2>1. \A q \in Runs : indexer'[q] = indexer[q] \/ (q = r /\ indexer[q] \in {"registry", "describing"})
    BY <1>8 DEF IndexingFails, Failed, Base, TypeOK
  <2> QED  BY <1>8, <2>1 DEF IndexingFails, EmbedderStops, DeletedLeavesNothing, world, data
<1> QED  BY <1>1, <1>2, <1>3, <1>4, <1>5, <1>6, <1>7, <1>8 DEF IndexerStep

\* From the mark on, and from the purge on; a restart forgets the mark and counts.
LEMMA PurgeStops ==
  ASSUME Base, EmbedderStops, DeletedLeavesNothing,
         MarkDeleted \/ PurgeChunks \/ \E s \in Services : Restart(s)
  PROVE  EmbedderStops' /\ DeletedLeavesNothing'
<1>1. CASE MarkDeleted
  <2>1. gone = "file" => \A r \in Runs : Over(media', r) /\ Over(indexer', r)
    <3>1. \A r \in Runs : Over(Stopped(media), r)  BY Stops DEF Base, TypeOK
    <3>2. \A r \in Runs : Over(Stopped(indexer), r)  BY Stops DEF Base, TypeOK
    <3> QED  BY <1>1, <3>1, <3>2 DEF MarkDeleted
  <2> QED  BY <1>1, <2>1 DEF MarkDeleted, EmbedderStops, DeletedLeavesNothing, Over, Base, TypeOK, Services, world
<1>2. CASE PurgeChunks
  <2>1. \A c \in Chunks : index'[c] = 0  BY <1>2 DEF PurgeChunks
  <2> QED  BY <1>2, <2>1 DEF PurgeChunks, EmbedderStops, DeletedLeavesNothing, world, tasks
<1>3. ASSUME NEW s \in Services, Restart(s)  PROVE EmbedderStops' /\ DeletedLeavesNothing'
  <2>1. crashes' # 0 /\ UNCHANGED <<gone, rpcFails, index>>
    BY <1>3, RunsAreNumbers DEF Restart, Base, TypeOK, data
  <2>2. /\ purge'["file-embedder"] # "none" => purge["file-embedder"] # "none"
        /\ purge'["file-embedder"] \in {"deferred", "over"} => purge["file-embedder"] \in {"deferred", "over"}
    BY <1>3 DEF Restart, Restarted, Base, TypeOK, DeletionIsKnown, Services
  <2>3. \A r \in Runs : /\ media'[r] = media[r] \/ media'[r] = "ended"
                        /\ indexer'[r] = indexer[r] \/ indexer'[r] = "ended"
    BY <1>3 DEF Restart, Stopped, Alive, Base, TypeOK
  <2> QED  BY <2>1, <2>2, <2>3 DEF EmbedderStops, DeletedLeavesNothing
<1> QED  BY <1>1, <1>2, <1>3

-------------------------------------------------------------------------------
(* The deletion in scene-detector.                                               *)

\* Whoever is not at work on the scenes leaves the rows as they are.
LEMMA OthersLeaveTheRows ==
  ASSUME Base, DetectorStops, DeletedHasNoScenes,
         \/ Reprocess \/ Delete \/ PurgeUserFiles \/ MarkDeleted \/ PurgeChunks
         \/ \E r \in Runs : MediaStep(r) \/ IndexerStep(r)
  PROVE  DetectorStops' /\ DeletedHasNoScenes'
<1>1. CASE Delete
  <2>1. purge["scene-detector"] = "none"  BY <1>1 DEF Delete, Base, DeletionIsKnown, Services
  <2> QED  BY <1>1, <2>1 DEF Delete, DetectorStops, DeletedHasNoScenes
<1>2. CASE ~Delete
  <2>1. /\ UNCHANGED <<gone, rows, stray, detector>>
        /\ purge'["scene-detector"] = purge["scene-detector"]
    <3>1. CASE Reprocess \/ PurgeUserFiles  BY <3>1 DEF Reprocess, PurgeUserFiles, data, tasks
    <3>2. CASE MarkDeleted \/ PurgeChunks
      BY <3>2 DEF MarkDeleted, PurgeChunks, Base, TypeOK, Services, world, data, tasks
    <3>3. ASSUME NEW r \in Runs, MediaStep(r)  PROVE UNCHANGED <<gone, rows, stray, detector, purge>>
      BY <3>3 DEF MediaStep, StartUpload, IndexUpload, Transcribe, TranscriptionFails, world, data
    <3>4. ASSUME NEW r \in Runs, IndexerStep(r)  PROVE UNCHANGED <<gone, rows, stray, detector, purge>>
      BY <3>4 DEF IndexerStep, StartIndexing, AwaitTranscription, FetchFile, ListScenes, DeleteSceneEmbeddings,
                  CharacterRegistry, UpsertScenes, IndexingFails, world, data
    <3> QED  BY <1>2, <3>1, <3>2, <3>3, <3>4
  <2> QED  BY <2>1 DEF DetectorStops, DeletedHasNoScenes
<1> QED  BY <1>1, <1>2

\* A task that passes its look at a deleted file is stray.
LEMMA DetectorRowsStop ==
  ASSUME Base, DetectorStops, DeletedHasNoScenes, NEW r \in Runs, DetectorStep(r)
  PROVE  DetectorStops' /\ DeletedHasNoScenes'
<1>0. UNCHANGED <<gone, purge>>
  BY DEF DetectorStep, DetectUpload, CheckFile, ClearScenes, DetectScenes, StoreScenes, DetectionFails,
         PublishDetected, world, data
<1>1. CASE DetectUpload(r)
  BY <1>0, <1>1 DEF DetectUpload, Base, TypeOK, DetectorStops, DeletedHasNoScenes, data
<1>2. CASE CheckFile(r)
  <2>1. gone = "file" => ~present  BY DEF Base, DeletionIsKnown
  <2> QED  BY <1>0, <1>2, <2>1 DEF CheckFile, Base, TypeOK, DetectorStops, DeletedHasNoScenes, data
<1>3. CASE StoreScenes(r)
  <2>1. purge["scene-detector"] # "none" /\ gone = "file" => r \in stray  BY <1>3 DEF StoreScenes, DetectorStops
  <2> QED  BY <1>0, <1>3, <2>1 DEF StoreScenes, Base, TypeOK, DetectorStops, DeletedHasNoScenes
<1>4. CASE ClearScenes(r) \/ DetectScenes(r) \/ PublishDetected(r)
  <2>1. \A q \in Runs : detector'[q] = detector[q] \/ (q = r /\ detector[q] \notin {"none", "checking", "ended"})
    BY <1>4 DEF ClearScenes, DetectScenes, PublishDetected, Base, TypeOK
  <2> QED
    BY <1>0, <1>4, <2>1 DEF ClearScenes, DetectScenes, PublishDetected, DetectorStops, DeletedHasNoScenes, data
<1>5. CASE DetectionFails(r)
  <2>1. \A q \in Runs : detector'[q] = detector[q] \/ (q = r /\ detector[q] \notin {"none", "checking", "ended"})
    BY <1>5 DEF DetectionFails, Failed, Base, TypeOK
  <2> QED  BY <1>0, <1>5, <2>1 DEF DetectionFails, DetectorStops, DeletedHasNoScenes, data
<1> QED  BY <1>1, <1>2, <1>3, <1>4, <1>5 DEF DetectorStep

LEMMA PurgeRowsStop ==
  ASSUME Base, DetectorStops, DeletedHasNoScenes,
         HearOfDeletion \/ DeleteRows \/ \E s \in Services : Restart(s)
  PROVE  DetectorStops' /\ DeletedHasNoScenes'
<1>1. CASE HearOfDeletion
  <2>1. purge'["scene-detector"] = "marked"  BY <1>1 DEF HearOfDeletion, Base, TypeOK, Services
  <2>2. gone = "file" => \A r \in Runs : detector'[r] \in {"none", "ended"} \/ r \in stray'
    <3>1. \A r \in Runs : Over(Stopped(detector), r)  BY Stops DEF Base, TypeOK
    <3> QED  BY <1>1, <3>1 DEF HearOfDeletion, Over
  <2> QED  BY <1>1, <2>1, <2>2 DEF HearOfDeletion, DetectorStops, DeletedHasNoScenes, world
<1>2. CASE DeleteRows  BY <1>2 DEF DeleteRows, DetectorStops, DeletedHasNoScenes, world, tasks
<1>3. ASSUME NEW s \in Services, Restart(s)  PROVE DetectorStops' /\ DeletedHasNoScenes'
  <2>1. UNCHANGED <<gone, rows, stray>>  BY <1>3 DEF Restart, data
  <2>2. /\ purge'["scene-detector"] # "none" => purge["scene-detector"] # "none"
        /\ purge'["scene-detector"] = "over" => purge["scene-detector"] = "over"
    BY <1>3 DEF Restart, Restarted, Base, TypeOK, DeletionIsKnown, Services
  <2>3. \A r \in Runs : detector'[r] = detector[r] \/ detector'[r] = "ended"
    BY <1>3 DEF Restart, Stopped, Alive, Base, TypeOK
  <2> QED  BY <2>1, <2>2, <2>3 DEF DetectorStops, DeletedHasNoScenes
<1> QED  BY <1>1, <1>2, <1>3

-------------------------------------------------------------------------------
(* The scenes of the index and those of the table.                               *)

LEMMA OneAfterTheOtherStep ==
  ASSUME Base, OneAfterTheOther, [Next]_vars
  PROVE  OneAfterTheOther'
<1> USE RunsAreNumbers, EventsDiffer
<1>a. run \in Runs  BY DEF Base, TypeOK
<1>1. CASE Reprocess
  <2>1. run + 1 \in Runs /\ run' = run + 1  BY <1>1, <1>a DEF Reprocess, Runs
  <2>2. \A r \in Runs : Over(detector, r) /\ Over(indexer, r)  BY <1>1 DEF Reprocess, InProgress, Alive, Over
  <2>3. \A s \in Services : inbox[s] = {}  BY <1>1 DEF Reprocess, InProgress
  <2>4. Detected(run + 1) \notin inbox'["file-embedder"]  BY <1>1, <2>1, <2>3 DEF Reprocess, Services
  <2>5. listed'[run + 1] = 0 /\ UNCHANGED <<detector, indexer>>  BY <1>1, <2>1 DEF Reprocess
  <2> QED  BY <2>1, <2>2, <2>4, <2>5 DEF OneAfterTheOther, Over
<1>2. CASE Delete \/ PurgeUserFiles
  <2>1. UNCHANGED <<run, listed, detector, indexer>>  BY <1>2 DEF Delete, PurgeUserFiles, tasks
  <2>2. \A s \in Services : inbox'[s] \subseteq inbox[s] \union {Deleted}  BY <1>2 DEF Delete, PurgeUserFiles
  <2> QED  BY <1>a, <2>1, <2>2 DEF OneAfterTheOther, Over, Services
<1>3. ASSUME PurgeStep \/ \E s \in Services : Restart(s)  PROVE OneAfterTheOther'
  <2>1. UNCHANGED <<run, listed>> /\ \A s \in Services : inbox'[s] \subseteq inbox[s]
    BY <1>3 DEF PurgeStep, HearOfDeletion, DeleteRows, MarkDeleted, PurgeChunks, Restart, Consume, Base, TypeOK,
                world, tasks, Services
  <2>2. Over(detector, run) => Over(detector', run)
    <3>1. CASE HearOfDeletion
      <4>1. Over(Stopped(detector), run)  BY <1>a, Stops DEF Base, TypeOK
      <4> QED  BY <1>a, <3>1, <4>1 DEF HearOfDeletion, Over
    <3>2. CASE ~HearOfDeletion
      <4>1. detector' = detector \/ detector' = Stopped(detector)
        BY <1>3, <3>2 DEF PurgeStep, DeleteRows, MarkDeleted, PurgeChunks, Restart, tasks
      <4> QED  BY <1>a, <4>1, Stops DEF Base, TypeOK, Over
    <3> QED  BY <3>1, <3>2
  <2>3. Over(indexer, run) => Over(indexer', run)
    <3>1. indexer' = indexer \/ indexer' = Stopped(indexer)
      BY <1>3 DEF PurgeStep, HearOfDeletion, DeleteRows, MarkDeleted, PurgeChunks, Restart, tasks
    <3> QED  BY <1>a, <3>1, Stops DEF Base, TypeOK, Over
  <2> QED  BY <2>1, <2>2, <2>3 DEF OneAfterTheOther, Services
<1>4. ASSUME NEW r \in Runs, DetectorStep(r)  PROVE OneAfterTheOther'
  <2>1. r = run
    BY <1>4, OnlyTheLast DEF DetectorStep, DetectUpload, CheckFile, ClearScenes, DetectScenes, StoreScenes,
       DetectionFails, PublishDetected, Base, Over, Services
  <2>2. UNCHANGED <<run, listed, indexer>>
    BY <1>4 DEF DetectorStep, DetectUpload, CheckFile, ClearScenes, DetectScenes, StoreScenes, DetectionFails,
                PublishDetected, world
  <2>3. CASE DetectUpload(r)
    <3>1. /\ inbox'["scene-detector"] = inbox["scene-detector"] \ {Uploaded(run)}
          /\ inbox'["file-embedder"] = inbox["file-embedder"] /\ Uploaded(run) \in inbox["scene-detector"]
      BY <2>1, <2>3 DEF DetectUpload, Consume, Base, TypeOK, Services
    <3> QED  BY <2>2, <3>1 DEF OneAfterTheOther, Over
  <2>4. CASE PublishDetected(r)
    <3>1. inbox'["scene-detector"] = inbox["scene-detector"]  BY <2>4 DEF PublishDetected, Base, TypeOK
    <3>2. detector[run] = "publishing" /\ detector'[run] = "ended"  BY <2>1, <2>4 DEF PublishDetected, Base, TypeOK
    <3> QED  BY <2>2, <3>1, <3>2 DEF OneAfterTheOther, Over
  <2>5. CASE ~DetectUpload(r) /\ ~PublishDetected(r)
    <3>1. UNCHANGED inbox /\ ~Over(detector, run)
      BY <1>4, <2>1, <2>5 DEF DetectorStep, CheckFile, ClearScenes, DetectScenes, StoreScenes, DetectionFails, Over
    <3> QED  BY <2>2, <3>1 DEF OneAfterTheOther, Over
  <2> QED  BY <2>3, <2>4, <2>5
<1>5. ASSUME NEW r \in Runs, MediaStep(r)  PROVE OneAfterTheOther'
  <2>1. UNCHANGED <<run, listed, detector, indexer>>
    BY <1>5 DEF MediaStep, StartUpload, IndexUpload, Transcribe, TranscriptionFails, world
  <2>2. \A s \in Services : inbox'[s] \subseteq inbox[s]
    BY <1>5 DEF MediaStep, StartUpload, IndexUpload, Transcribe, TranscriptionFails, Consume, Base, TypeOK
  <2> QED  BY <2>1, <2>2 DEF OneAfterTheOther, Over, Services
<1>6. ASSUME NEW r \in Runs, IndexerStep(r)  PROVE OneAfterTheOther'
  <2>1. r = run
    BY <1>6, OnlyTheLast DEF IndexerStep, StartIndexing, AwaitTranscription, FetchFile, ListScenes,
       DeleteSceneEmbeddings, CharacterRegistry, UpsertScenes, IndexingFails, Base, Over, Services
  <2>2. UNCHANGED <<run, detector>>
    BY <1>6 DEF IndexerStep, StartIndexing, AwaitTranscription, FetchFile, ListScenes,
       DeleteSceneEmbeddings, CharacterRegistry, UpsertScenes, IndexingFails, world
  <2>3. CASE StartIndexing(r)
    <3>1. /\ inbox'["file-embedder"] = inbox["file-embedder"] \ {Detected(run)}
          /\ inbox'["scene-detector"] = inbox["scene-detector"] /\ Detected(run) \in inbox["file-embedder"]
          /\ UNCHANGED listed
      BY <2>1, <2>3 DEF StartIndexing, Consume, Base, TypeOK, Services
    <3> QED  BY <2>2, <3>1 DEF OneAfterTheOther, Over
  <2>4. CASE ~StartIndexing(r)
    <3>1. UNCHANGED inbox /\ ~Over(indexer, run)
      BY <1>6, <2>1, <2>4 DEF IndexerStep, AwaitTranscription, FetchFile, ListScenes,
       DeleteSceneEmbeddings, CharacterRegistry, UpsertScenes, IndexingFails, Over
    <3> QED  BY <2>2, <3>1 DEF OneAfterTheOther, Over
  <2> QED  BY <2>3, <2>4
<1>7. CASE UNCHANGED vars  BY <1>7 DEF vars, OneAfterTheOther, Over
<1> QED  BY <1>1, <1>2, <1>3, <1>4, <1>5, <1>6, <1>7 DEF Next

LEMMA ScenesStayInStep ==
  ASSUME Base, OneAfterTheOther, ScenesOfTheList, [Next]_vars
  PROVE  ScenesOfTheList'
<1> USE RunsAreNumbers
<1> SUFFICES ASSUME gone' = "none", crashes' = 0  PROVE ScenesOfTheList'
  BY DEF ScenesOfTheList
<1>0. gone = "none" \/ Delete
  <2>1. CASE Next
    BY <2>1 DEF Next, Reprocess, PurgeUserFiles, DetectorStep, DetectUpload, CheckFile, ClearScenes, DetectScenes,
         StoreScenes, DetectionFails, PublishDetected, MediaStep, StartUpload, IndexUpload, Transcribe,
         TranscriptionFails, IndexerStep, StartIndexing, AwaitTranscription, FetchFile, ListScenes,
         DeleteSceneEmbeddings, CharacterRegistry, UpsertScenes, IndexingFails, PurgeStep, HearOfDeletion,
         DeleteRows, MarkDeleted, PurgeChunks, Restart, world
  <2>2. CASE UNCHANGED vars  BY <2>2 DEF vars
  <2> QED  BY <2>1, <2>2
<1>1. gone = "none"  BY <1>0 DEF Delete
<1>2. CASE Reprocess
  <2>1. listed'[run'] = 0  BY <1>2 DEF Reprocess, Base, TypeOK, Runs
  <2> QED  BY <2>1 DEF ScenesOfTheList
<1>3. CASE \E s \in Services : Restart(s)
  BY <1>3 DEF Restart, Base, TypeOK
<1>4. CASE PurgeStep
  <2>1. FALSE  BY <1>4, <1>1 DEF PurgeStep, HearOfDeletion, DeleteRows, MarkDeleted, PurgeChunks, Base, DeletionIsKnown, Services
  <2> QED  BY <2>1
<1>5. ASSUME NEW r \in Runs, DetectorStep(r)  PROVE ScenesOfTheList'
  <2>1. UNCHANGED <<gone, crashes, run, listed, indexer, index>>
    BY <1>5 DEF DetectorStep, DetectUpload, CheckFile, ClearScenes, DetectScenes, StoreScenes, DetectionFails,
                PublishDetected, world, data
  <2> QED  BY <2>1 DEF ScenesOfTheList
<1>6. ASSUME NEW r \in Runs, MediaStep(r)  PROVE ScenesOfTheList'
  <2>1. UNCHANGED <<gone, crashes, run, listed, indexer>> /\ index'["scene"] = index["scene"]
    BY <1>6 DEF MediaStep, StartUpload, IndexUpload, Transcribe, TranscriptionFails, Base, TypeOK, Chunks, world, data
  <2> QED  BY <2>1 DEF ScenesOfTheList
<1>7. ASSUME NEW r \in Runs, IndexerStep(r)  PROVE ScenesOfTheList'
  <2>1. r = run
    BY <1>7, OnlyTheLast DEF IndexerStep, StartIndexing, AwaitTranscription, FetchFile, ListScenes,
       DeleteSceneEmbeddings, CharacterRegistry, UpsertScenes, IndexingFails, Base, Over, Services
  <2>2. UNCHANGED <<gone, crashes, run>> /\ crashes = 0
    BY <1>7 DEF IndexerStep, StartIndexing, AwaitTranscription, FetchFile, ListScenes,
       DeleteSceneEmbeddings, CharacterRegistry, UpsertScenes, IndexingFails, world
  <2>3. CASE StartIndexing(r) \/ AwaitTranscription(r) \/ FetchFile(r)
    <3>1. UNCHANGED <<listed, index>>  BY <2>3 DEF StartIndexing, AwaitTranscription, FetchFile, data
    <3>2. listed[run] = 0 \/ indexer[run] # "starting"
      BY <2>1, <2>3 DEF StartIndexing, AwaitTranscription, FetchFile, OneAfterTheOther
    <3> QED  BY <1>1, <2>2, <3>1, <3>2 DEF ScenesOfTheList
  <2>4. CASE ListScenes(r)
    <3>1. CASE indexer'[run] = "starting"  BY <3>1, <2>2 DEF ScenesOfTheList
    <3>2. CASE indexer'[run] # "starting"
      BY <1>1, <2>1, <2>2, <2>4, <3>2 DEF ListScenes, Base, TypeOK, ScenesOfTheList, data
    <3> QED  BY <3>1, <3>2
  <2>5. CASE DeleteSceneEmbeddings(r)
    BY <2>1, <2>2, <2>5 DEF DeleteSceneEmbeddings, Base, TypeOK, Chunks, ScenesOfTheList
  <2>6. CASE CharacterRegistry(r)
    <3>1. UNCHANGED listed /\ indexer[run] # "starting" /\ index'["scene"] = index["scene"]
      BY <2>1, <2>6 DEF CharacterRegistry, Base, TypeOK, Chunks
    <3> QED  BY <1>1, <2>2, <3>1 DEF ScenesOfTheList
  <2>7. CASE UpsertScenes(r)
    <3>1. UNCHANGED listed /\ indexer[run] # "starting" /\ index'["scene"] \in {index["scene"], listed[run]}
      BY <2>1, <2>7 DEF UpsertScenes, Base, TypeOK, Chunks
    <3> QED  BY <1>1, <2>2, <3>1 DEF ScenesOfTheList
  <2>8. CASE IndexingFails(r)
    <3>1. UNCHANGED <<listed, index>> /\ indexer[run] # "starting"
      BY <2>1, <2>8 DEF IndexingFails, data
    <3> QED  BY <1>1, <2>2, <3>1 DEF ScenesOfTheList
  <2> QED  BY <1>7, <2>3, <2>4, <2>5, <2>6, <2>7, <2>8 DEF IndexerStep
<1>8. CASE Delete  BY <1>8 DEF Delete
<1>9. CASE PurgeUserFiles \/ UNCHANGED vars
  BY <1>9 DEF PurgeUserFiles, ScenesOfTheList, vars, data, tasks
<1> QED  BY <1>2, <1>3, <1>4, <1>5, <1>6, <1>7, <1>8, <1>9 DEF Next
-------------------------------------------------------------------------------
(* What the run checks.                                                          *)

IndexingInv ==
  /\ Base
  /\ EmbedderStops /\ DeletedLeavesNothing
  /\ DetectorStops /\ DeletedHasNoScenes
  /\ OneAfterTheOther /\ ScenesOfTheList

LEMMA IndexingInit == Init => IndexingInv
<1> SUFFICES ASSUME Init  PROVE IndexingInv
  OBVIOUS
<1>1. 1 \in Runs  BY IndexingAssumption DEF Runs
<1>2. EmbedderStops /\ DeletedLeavesNothing /\ DetectorStops /\ DeletedHasNoScenes
  BY DEF Init, EmbedderStops, DeletedLeavesNothing, DetectorStops, DeletedHasNoScenes, Services
<1>3. OneAfterTheOther
  BY <1>1, EventsDiffer DEF Init, OneAfterTheOther, Over, Services
<1>4. ScenesOfTheList  BY <1>1 DEF Init, ScenesOfTheList
<1> QED  BY <1>2, <1>3, <1>4, BaseInit DEF IndexingInv

LEMMA IndexingStep == IndexingInv /\ [Next]_vars => IndexingInv'
<1> SUFFICES ASSUME IndexingInv, [Next]_vars  PROVE IndexingInv'
  OBVIOUS
<1>1. Base'  BY BaseStep DEF IndexingInv
<1>2. OneAfterTheOther' /\ ScenesOfTheList'  BY OneAfterTheOtherStep, ScenesStayInStep DEF IndexingInv
<1>3. EmbedderStops' /\ DeletedLeavesNothing'
  <2>1. CASE Next
    BY <2>1, OthersLeaveTheIndex, MediaStops, IndexerStops, PurgeStops DEF Next, PurgeStep, IndexingInv
  <2>2. CASE UNCHANGED vars
    BY <2>2 DEF vars, IndexingInv, EmbedderStops, DeletedLeavesNothing
  <2> QED  BY <2>1, <2>2
<1>4. DetectorStops' /\ DeletedHasNoScenes'
  <2>1. CASE Next
    BY <2>1, OthersLeaveTheRows, DetectorRowsStop, PurgeRowsStop DEF Next, PurgeStep, IndexingInv
  <2>2. CASE UNCHANGED vars
    BY <2>2 DEF vars, IndexingInv, DetectorStops, DeletedHasNoScenes
  <2> QED  BY <2>1, <2>2
<1> QED  BY <1>1, <1>2, <1>3, <1>4 DEF IndexingInv

LEMMA IndexingInvHolds == Spec => []IndexingInv
BY IndexingInit, IndexingStep, PTL DEF Spec

\* Once file-embedder has purged a deleted file nothing of it comes back into the index, whatever
\* tasks, late events and second purges there are; a deleted user may leave a registry
\* (handlers.py _purge_files, deletion tracker).
THEOREM DeletedLeavesTheIndex == Spec => []DeletedLeavesNothing
<1>1. IndexingInv => DeletedLeavesNothing  BY DEF IndexingInv
<1> QED  BY <1>1, IndexingInvHolds, PTL

\* Once scene-detector has deleted the rows of a file only an insertion under way, or a task that
\* could not learn that the file is gone, puts rows back (scene-detector handlers.py).
THEOREM DeletedLeavesTheTable == Spec => []DeletedHasNoScenes
<1>1. IndexingInv => DeletedHasNoScenes  BY DEF IndexingInv
<1> QED  BY <1>1, IndexingInvHolds, PTL

\* However often a video is processed again, the index has no chunk of a scene that the table does
\* not have, once the indexing of the scenes in the table is over (scene_indexer.py).
THEOREM IndexFollowsTheTable == Spec => []IndexedScenesExist
<1>1. IndexingInv => IndexedScenesExist
  <2> SUFFICES ASSUME IndexingInv, gone = "none", crashes = 0, rows # 0, indexer[rows] = "ended", listed[rows] = rows
               PROVE  index["scene"] \in {0, rows}
    BY DEF IndexedScenesExist
  <2>1. rows \in Runs
    <3>1. rows \in 0..run /\ run \in 1..MaxRuns  BY DEF IndexingInv, Base, TypeOK, Runs
    <3> QED  BY <3>1, RunsAreNumbers DEF Runs
  <2>2. rows = run  BY <2>1 DEF IndexingInv, Base, OneRunAtATime
  <2> QED  BY <2>2 DEF IndexingInv, ScenesOfTheList
<1> QED  BY <1>1, IndexingInvHolds, PTL
================================================================================
