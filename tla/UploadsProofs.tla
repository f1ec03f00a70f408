----------------------------- MODULE UploadsProofs -----------------------------
(* The storage of uploads and the objects of completed files, for every number  *)
(* of requests, files, cuts and expired keys.                                    *)
EXTENDS Uploads, TLAPS

Ops == [pc : Steps, kind : Kinds, file : Files]

On(o, f) == ~At(o, "idle") /\ FileOf(o) = f

Untouched ==
  \A f \in Files \ drawn :
    /\ row[f] = "none" /\ session[f] # "completed" /\ charge[f] = 0 /\ f \notin released
    /\ \A o \in Actors : ~On(o, f)

\* A createUpload that has not inserted its row is alone with its file.
CreatorsAreAlone ==
  \A o \in Actors : op[o].pc \in {"consume", "createMultipart", "insert"} =>
    /\ row[FileOf(o)] = "none" /\ session[FileOf(o)] # "completed"
    /\ \A p \in Actors \ {o} : ~On(p, FileOf(o))

UnpaidYet == \A o \in Actors : At(o, "consume") => charge[FileOf(o)] = 0 /\ FileOf(o) \notin released

\* What a file is charged at least, and at most.
Floor(f)   == (IF f \in released THEN 0 ELSE 1) - expiries
Ceiling(f) == IF f \in released THEN 0 ELSE 1

PaidFor ==
  \A f \in Files : Exists(f) \/ (\E o \in Actors : On(o, f) /\ ~At(o, "consume")) => charge[f] >= Floor(f)

ChargeBounds == \A f \in Files : -expiries <= charge[f] /\ charge[f] <= Ceiling(f)

\* A charge without a row in use is about to get one or to be given back, or a cut is to blame.
ChargeAccounted ==
  \A f \in Files : charge[f] > 0 =>
    \/ row[f] \in {"UPLOADING", "COMPLETED"}
    \/ \E o \in Actors : FileOf(o) = f /\ op[o].pc \in {"createMultipart", "insert", "release"}
    \/ \E cut \in cuts : cut[1] = f

MoneyInv == Untouched /\ CreatorsAreAlone /\ UnpaidYet /\ PaidFor /\ ChargeBounds /\ ChargeAccounted

\* Only a completed session leads to a completed row or to file.uploaded.
CompletionsHaveSessions ==
  /\ \A o \in Actors : At(o, "inspect") \/ At(o, "record") \/ (At(o, "publish") /\ op[o].kind = "complete") =>
       session[FileOf(o)] = "completed"
  /\ \A f \in Files : row[f] = "COMPLETED" \/ f \in announced => session[f] = "completed"

HasObject(f) ==
  \/ f \in object
  \/ \E o \in Actors : At(o, "erase") /\ FileOf(o) = f
  \/ <<f, "erase">> \in cuts

ObjectsAreKept == \A f \in Files : session[f] = "completed" /\ Exists(f) => HasObject(f)

ObjectInv == CompletionsHaveSessions /\ ObjectsAreKept

UploadsInv == TypeOK /\ MoneyInv /\ ObjectInv

-------------------------------------------------------------------------------
(* How an actor moves.                                                         *)

Others(o) == \A p \in Actors : p # o => op'[p] = op[p]

LEMMA Going ==
  ASSUME TypeOK, NEW o \in Actors, NEW pc \in Steps, Goto(o, pc)
  PROVE  /\ op' \in [Actors -> Ops] /\ Others(o)
         /\ op'[o].pc = pc /\ op'[o].kind = op[o].kind /\ op'[o].file = op[o].file
BY DEF TypeOK, Goto, Ops, Others

LEMMA IdleIsOp == Idle \in Ops /\ Idle.pc = "idle"
<1>1. (CHOOSE f \in Files : TRUE) \in Files  BY FilesAssumption
<1> QED  BY <1>1 DEF Idle, Ops, Steps, Kinds

LEMMA Returning ==
  ASSUME TypeOK, NEW o \in Actors, Return(o)
  PROVE  op' \in [Actors -> Ops] /\ Others(o) /\ op'[o].pc = "idle"
BY IdleIsOp DEF TypeOK, Return, Ops, Others

LEMMA Starting ==
  ASSUME TypeOK, NEW o \in Actors, NEW kind \in Kinds, NEW f \in Files, NEW pc \in Steps, Start(o, kind, f, pc)
  PROVE  /\ op' \in [Actors -> Ops] /\ Others(o) /\ op[o].pc = "idle"
         /\ op'[o].pc = pc /\ op'[o].kind = kind /\ op'[o].file = f
BY DEF TypeOK, Start, Ops, Others, At

LEMMA FileIsFile ==
  ASSUME TypeOK, NEW o \in Actors
  PROVE  FileOf(o) \in Files /\ op[o] \in Ops
BY DEF TypeOK, FileOf, Ops

LEMMA UploadsInit == Init => UploadsInv
<1> SUFFICES ASSUME Init  PROVE UploadsInv  OBVIOUS
<1>1. \A o \in Actors : op[o] = Idle  BY DEF Init
<1>2. TypeOK  BY <1>1, IdleIsOp, BoundsAssumption DEF Init, TypeOK, Ops, Rows, Sessions
<1>3. MoneyInv
  BY <1>1, IdleIsOp DEF Init, MoneyInv, Untouched, CreatorsAreAlone, UnpaidYet, PaidFor, ChargeBounds, ChargeAccounted,
     On, At, Exists, Floor, Ceiling
<1>4. ObjectInv
  BY <1>1, IdleIsOp DEF Init, ObjectInv, CompletionsHaveSessions, ObjectsAreKept, At, Exists
<1> QED  BY <1>2, <1>3, <1>4 DEF UploadsInv

-------------------------------------------------------------------------------
(* What every step of an actor has in common, and what it must add.            *)

\* o goes on with its own file, or returns, and touches no other file.
OwnStep(o) ==
  /\ ~At(o, "idle")
  /\ op' \in [Actors -> Ops] /\ Others(o)
  /\ op'[o].pc # "idle" => op'[o].file = op[o].file /\ op'[o].kind = op[o].kind
  /\ drawn' = drawn /\ expiries' = expiries /\ cuts \subseteq cuts'
  /\ \A g \in Files : g # FileOf(o) =>
       /\ row'[g] = row[g] /\ session'[g] = session[g] /\ charge'[g] = charge[g]
       /\ (g \in released' <=> g \in released) /\ (g \in object' <=> g \in object)
       /\ (g \in announced' <=> g \in announced)

\* A creator stays one only as long as there is no row and no completed session.
CreatorStep(o) ==
  /\ op'[o].pc # "consume"
  /\ op'[o].pc \in {"createMultipart", "insert"} =>
       /\ op[o].pc \in {"consume", "createMultipart", "insert"}
       /\ row'[FileOf(o)] = "none" /\ session'[FileOf(o)] # "completed"

LEMMA StepKeepsCreators ==
  ASSUME UploadsInv, NEW o \in Actors, OwnStep(o), CreatorStep(o)
  PROVE  Untouched' /\ CreatorsAreAlone' /\ UnpaidYet'
<1> DEFINE f == FileOf(o)
<1>1. f \in Files /\ On(o, f) /\ f = op[o].file  BY FileIsFile DEF UploadsInv, OwnStep, On, FileOf
<1>2. f \in drawn  BY <1>1 DEF UploadsInv, MoneyInv, Untouched
<1>3. \A p \in Actors : p # o /\ FileOf(p) = f => op[p].pc \notin {"consume", "createMultipart", "insert"}
  BY <1>1 DEF UploadsInv, MoneyInv, CreatorsAreAlone, FileOf
<1>4. Untouched'
  BY <1>1, <1>2 DEF UploadsInv, MoneyInv, Untouched, OwnStep, Others, On, At, FileOf
<1>5. CreatorsAreAlone'
  <2> SUFFICES ASSUME NEW p \in Actors, op'[p].pc \in {"consume", "createMultipart", "insert"}
               PROVE  /\ row'[op'[p].file] = "none" /\ session'[op'[p].file] # "completed"
                      /\ \A q \in Actors \ {p} : op'[q].pc = "idle" \/ op'[q].file # op'[p].file
    BY DEF CreatorsAreAlone, On, At, FileOf
  <2>1. CASE p = o
    BY <1>1, <2>1 DEF UploadsInv, MoneyInv, CreatorsAreAlone, OwnStep, CreatorStep, Others, On, At, FileOf
  <2>2. CASE p # o
    <3>1. op'[p] = op[p] /\ FileOf(p) # f /\ FileOf(p) \in Files
      BY <1>3, <2>2, FileIsFile DEF OwnStep, Others, UploadsInv
    <3> QED
      BY <1>1, <2>2, <3>1 DEF UploadsInv, MoneyInv, CreatorsAreAlone, OwnStep, Others, On, At, FileOf
  <2> QED  BY <2>1, <2>2
<1>6. UnpaidYet'
  <2> SUFFICES ASSUME NEW p \in Actors, op'[p].pc = "consume"
               PROVE  charge'[op'[p].file] = 0 /\ op'[p].file \notin released'
    BY DEF UnpaidYet, At, FileOf
  <2>1. p # o  BY DEF CreatorStep
  <2>2. op'[p] = op[p]  BY <2>1 DEF OwnStep, Others
  <2>3. FileOf(p) # f /\ FileOf(p) \in Files /\ FileOf(p) = op[p].file
    BY <1>3, <2>1, <2>2, FileIsFile DEF UploadsInv, FileOf
  <2> QED  BY <2>2, <2>3 DEF UploadsInv, MoneyInv, UnpaidYet, OwnStep, At
<1> QED  BY <1>4, <1>5, <1>6

\* A step that charges and releases nothing: a row that goes out of use, and an actor that
\* was about to use the charge or give it back, leave another such actor or a cut behind.
LEMMA StepKeepsMoney ==
  ASSUME UploadsInv, NEW o \in Actors, OwnStep(o), CreatorStep(o), UNCHANGED <<charge, released>>,
         op[o].pc # "consume" \/ op'[o].pc = "idle",
         \/ row'[FileOf(o)] \in {"UPLOADING", "COMPLETED"}
         \/ op'[o].pc \in {"createMultipart", "insert", "release"}
         \/ \E cut \in cuts' : cut[1] = FileOf(o)
         \/ row'[FileOf(o)] = row[FileOf(o)] /\ op[o].pc \notin {"createMultipart", "insert", "release"},
         row'[FileOf(o)] # "none" => row[FileOf(o)] # "none" \/ op[o].pc # "consume"
  PROVE  MoneyInv'
<1> DEFINE f == FileOf(o)
<1>1. f \in Files /\ On(o, f) /\ f = op[o].file  BY FileIsFile DEF UploadsInv, OwnStep, On, FileOf
<1>2. PaidFor'
  <2> SUFFICES ASSUME NEW g \in Files,
                      Exists(g)' \/ (\E p \in Actors : op'[p].pc \notin {"idle", "consume"} /\ op'[p].file = g)
               PROVE  charge[g] >= Floor(g)
    BY DEF PaidFor, On, At, FileOf, Floor, OwnStep
  <2>1. Exists(g) \/ (\E p \in Actors : op[p].pc \notin {"idle", "consume"} /\ op[p].file = g)
    <3>1. CASE Exists(g)'
      <4>1. CASE g # f  BY <3>1, <4>1 DEF OwnStep, Exists
      <4>2. CASE g = f  BY <1>1, <3>1, <4>2 DEF OwnStep, Exists, At
      <4> QED  BY <4>1, <4>2
    <3>2. ASSUME NEW p \in Actors, op'[p].pc \notin {"idle", "consume"}, op'[p].file = g
          PROVE  op[p].pc \notin {"idle", "consume"} /\ op[p].file = g
      <4>1. CASE p = o  BY <3>2, <4>1 DEF OwnStep, At
      <4>2. CASE p # o  BY <3>2, <4>2 DEF OwnStep, Others
      <4> QED  BY <4>1, <4>2
    <3> QED  BY <3>1, <3>2
  <2> QED  BY <2>1 DEF UploadsInv, MoneyInv, PaidFor, On, At, FileOf
<1>3. ChargeBounds'  BY DEF UploadsInv, MoneyInv, ChargeBounds, OwnStep, Ceiling
<1>4. ChargeAccounted'
  <2> SUFFICES ASSUME NEW g \in Files, charge[g] > 0
               PROVE  \/ row'[g] \in {"UPLOADING", "COMPLETED"}
                      \/ \E p \in Actors : op'[p].file = g /\ op'[p].pc \in {"createMultipart", "insert", "release"}
                      \/ \E cut \in cuts' : cut[1] = g
    BY DEF ChargeAccounted, FileOf
  <2>1. \/ row[g] \in {"UPLOADING", "COMPLETED"}
        \/ \E p \in Actors : op[p].file = g /\ op[p].pc \in {"createMultipart", "insert", "release"}
        \/ \E cut \in cuts : cut[1] = g
    BY DEF UploadsInv, MoneyInv, ChargeAccounted, FileOf
  <2>2. CASE g # f  BY <1>1, <2>1, <2>2 DEF OwnStep, Others
  <2>3. CASE g = f  BY <1>1, <2>1, <2>3 DEF OwnStep, Others
  <2> QED  BY <2>2, <2>3
<1> QED  BY <1>2, <1>3, <1>4, StepKeepsCreators DEF MoneyInv

\* Completed sessions stay completed, and the object of one goes only with an actor about to erase
\* its row, or with a cut there.
LEMMA StepKeepsObjects ==
  ASSUME UploadsInv, NEW o \in Actors, OwnStep(o),
         session[FileOf(o)] = "completed" => session'[FileOf(o)] = "completed",
         op'[o].pc \in {"inspect", "record"} => session'[FileOf(o)] = "completed",
         op'[o].pc = "publish" /\ op'[o].kind = "complete" => session'[FileOf(o)] = "completed",
         row'[FileOf(o)] = "COMPLETED" /\ row[FileOf(o)] # "COMPLETED" => session'[FileOf(o)] = "completed",
         FileOf(o) \in announced' /\ FileOf(o) \notin announced => session'[FileOf(o)] = "completed",
         session'[FileOf(o)] = "completed" /\ row'[FileOf(o)] # "none" =>
           \/ FileOf(o) \in object'
           \/ op'[o].pc = "erase"
           \/ <<FileOf(o), "erase">> \in cuts'
           \/ /\ session[FileOf(o)] = "completed" /\ row[FileOf(o)] # "none" /\ op[o].pc # "erase"
              /\ FileOf(o) \in object => FileOf(o) \in object'
  PROVE  ObjectInv'
<1> DEFINE f == FileOf(o)
<1>1. f \in Files /\ f = op[o].file  BY FileIsFile DEF UploadsInv, FileOf
<1>2. \A p \in Actors : op[p].file \in Files  BY DEF UploadsInv, TypeOK
<1>3. CompletionsHaveSessions'
  <2>1. ASSUME NEW p \in Actors,
               op'[p].pc \in {"inspect", "record"} \/ (op'[p].pc = "publish" /\ op'[p].kind = "complete")
        PROVE  session'[op'[p].file] = "completed"
    <3>1. CASE p = o  BY <1>1, <2>1, <3>1 DEF OwnStep
    <3>2. CASE p # o
      <4>1. op'[p] = op[p]  BY <3>2 DEF OwnStep, Others
      <4>2. session[op[p].file] = "completed"
        BY <2>1, <4>1 DEF UploadsInv, ObjectInv, CompletionsHaveSessions, At, FileOf
      <4> QED  BY <1>1, <1>2, <4>1, <4>2 DEF OwnStep
    <3> QED  BY <3>1, <3>2
  <2>2. ASSUME NEW g \in Files, row'[g] = "COMPLETED" \/ g \in announced'
        PROVE  session'[g] = "completed"
    BY <1>1, <2>2 DEF UploadsInv, ObjectInv, CompletionsHaveSessions, OwnStep
  <2> QED  BY <2>1, <2>2 DEF CompletionsHaveSessions, At, FileOf
<1>4. ObjectsAreKept'
  <2> SUFFICES ASSUME NEW g \in Files, session'[g] = "completed", row'[g] # "none"
               PROVE  \/ g \in object'
                      \/ \E p \in Actors : op'[p].pc = "erase" /\ op'[p].file = g
                      \/ <<g, "erase">> \in cuts'
    BY DEF ObjectsAreKept, HasObject, Exists, At, FileOf
  <2>1. session[g] = "completed" /\ row[g] # "none" =>
          \/ g \in object
          \/ \E p \in Actors : op[p].pc = "erase" /\ op[p].file = g
          \/ <<g, "erase">> \in cuts
    BY DEF UploadsInv, ObjectInv, ObjectsAreKept, HasObject, Exists, At, FileOf
  <2>2. CASE g # f  BY <1>1, <2>1, <2>2 DEF OwnStep, Others
  <2>3. CASE g = f  BY <1>1, <2>1, <2>3 DEF OwnStep, Others
  <2> QED  BY <2>2, <2>3
<1> QED  BY <1>3, <1>4 DEF ObjectInv

-------------------------------------------------------------------------------
(* The steps, one by one.                                                      *)

\* What the frame of every step is, told from what it does to the file of its actor.
LEMMA OwnStepIs ==
  ASSUME TypeOK, NEW o \in Actors, ~At(o, "idle"), Goto(o, op'[o].pc) \/ Return(o), op'[o].pc \in Steps,
         UNCHANGED <<drawn, expiries>>, cuts \subseteq cuts',
         \/ UNCHANGED row
         \/ \E status \in Rows : SetRow(FileOf(o), status),
         \/ UNCHANGED session
         \/ \E new \in Sessions : session' = [session EXCEPT ![FileOf(o)] = new],
         \/ UNCHANGED charge
         \/ \E n \in Int : charge' = [charge EXCEPT ![FileOf(o)] = n],
         released' \in {released, released \union {FileOf(o)}},
         object' \in {object, object \union {FileOf(o)}, object \ {FileOf(o)}},
         announced' \in {announced, announced \union {FileOf(o)}},
         cuts' \subseteq Files \X Steps
  PROVE  OwnStep(o) /\ TypeOK'
<1>1. FileOf(o) \in Files  BY FileIsFile
<1>2. /\ op' \in [Actors -> Ops] /\ Others(o)
      /\ op'[o].pc # "idle" => op'[o].file = op[o].file /\ op'[o].kind = op[o].kind
  <2>1. CASE Goto(o, op'[o].pc)  BY <2>1, Going
  <2>2. CASE Return(o)  BY <2>2, Returning
  <2> QED  BY <2>1, <2>2
<1>3. row' \in [Files -> Rows] /\ \A g \in Files : g # FileOf(o) => row'[g] = row[g]
  BY <1>1 DEF TypeOK, SetRow
<1>4. session' \in [Files -> Sessions] /\ \A g \in Files : g # FileOf(o) => session'[g] = session[g]
  BY <1>1 DEF TypeOK
<1>5. charge' \in [Files -> Int] /\ \A g \in Files : g # FileOf(o) => charge'[g] = charge[g]
  BY <1>1 DEF TypeOK
<1>6. TypeOK'  BY <1>1, <1>2, <1>3, <1>4, <1>5 DEF TypeOK, Ops
<1> QED  BY <1>1, <1>2, <1>3, <1>4, <1>5, <1>6 DEF OwnStep

LEMMA CreateMultipartKeeps == ASSUME UploadsInv, NEW o \in Actors, CreateMultipart(o)  PROVE UploadsInv'
<1> DEFINE f == FileOf(o)
<1>1. /\ op[o].pc = "createMultipart" /\ f \in Files /\ TypeOK
      /\ UNCHANGED <<row, drawn, object, charge, released, expiries, announced, cuts>>
      /\ session' = [session EXCEPT ![f] = "open"] \/ UNCHANGED session
  BY FileIsFile DEF CreateMultipart, At, billingVars, UploadsInv
<1>2. (Goto(o, "insert") \/ Goto(o, "release")) /\ "insert" \in Steps /\ "release" \in Steps
  BY DEF CreateMultipart, Steps
<1>3. op'[o].pc \in {"insert", "release"} /\ op'[o].pc \in Steps /\ Goto(o, op'[o].pc)
  BY <1>1, <1>2, Going
<1>4. OwnStep(o) /\ TypeOK'
  BY <1>1, <1>3, OwnStepIs DEF At, Sessions, TypeOK
<1>5. row[f] = "none" /\ session[f] # "completed" /\ session'[f] # "completed"
  BY <1>1 DEF UploadsInv, MoneyInv, CreatorsAreAlone, TypeOK
<1>6. MoneyInv'  BY <1>1, <1>3, <1>4, <1>5, StepKeepsMoney DEF CreatorStep
<1>7. ObjectInv'  BY <1>1, <1>3, <1>4, <1>5, StepKeepsObjects
<1> QED  BY <1>4, <1>6, <1>7 DEF UploadsInv

LEMMA InsertKeeps == ASSUME UploadsInv, NEW o \in Actors, Insert(o)  PROVE UploadsInv'
<1> DEFINE f == FileOf(o)
<1>1. /\ op[o].pc = "insert" /\ f \in Files /\ TypeOK
      /\ UNCHANGED <<drawn, session, object, charge, released, expiries, announced, cuts>>
      /\ \/ SetRow(f, "UPLOADING") /\ Return(o)
         \/ UNCHANGED row /\ Goto(o, "release")
  BY FileIsFile DEF Insert, At, billingVars, s3Vars, UploadsInv
<1>2. "idle" \in Steps /\ "release" \in Steps /\ "UPLOADING" \in Rows  BY DEF Steps, Rows
<1>3. /\ Goto(o, op'[o].pc) \/ Return(o)
      /\ \/ row' = [row EXCEPT ![f] = "UPLOADING"] /\ op'[o].pc = "idle"
         \/ UNCHANGED row /\ op'[o].pc = "release"
  BY <1>1, <1>2, Going, Returning DEF SetRow
<1>4. OwnStep(o) /\ TypeOK'
  BY <1>1, <1>2, <1>3, OwnStepIs DEF At, SetRow, TypeOK
<1>5. row[f] = "none" /\ session[f] # "completed"  BY <1>1 DEF UploadsInv, MoneyInv, CreatorsAreAlone
<1>6. row'[f] \in {"none", "UPLOADING"}  BY <1>1, <1>3, <1>5 DEF TypeOK
<1>7. MoneyInv'
  BY <1>1, <1>3, <1>4, <1>6, StepKeepsMoney DEF CreatorStep, TypeOK
<1>8. ObjectInv'  BY <1>1, <1>3, <1>4, <1>5, <1>6, StepKeepsObjects
<1> QED  BY <1>4, <1>7, <1>8 DEF UploadsInv

LEMMA CompleteMultipartKeeps == ASSUME UploadsInv, NEW o \in Actors, CompleteMultipart(o)  PROVE UploadsInv'
<1> DEFINE f == FileOf(o)
<1>1. /\ op[o].pc = "completeMultipart" /\ f \in Files /\ TypeOK
      /\ UNCHANGED <<row, drawn, charge, released, expiries, announced, cuts>>
      /\ \/ /\ session' = [session EXCEPT ![f] = "completed"] /\ object' = object \union {f}
            /\ Goto(o, "inspect")
         \/ session[f] = "completed" /\ Goto(o, "inspect") /\ UNCHANGED <<session, object>>
         \/ Return(o) /\ UNCHANGED <<session, object>>
  BY FileIsFile DEF CompleteMultipart, At, billingVars, s3Vars, UploadsInv
<1>2. "idle" \in Steps /\ "inspect" \in Steps /\ "completed" \in Sessions  BY DEF Steps, Sessions
<1>3. /\ Goto(o, op'[o].pc) \/ Return(o)
      /\ \/ /\ session' = [session EXCEPT ![f] = "completed"] /\ object' = object \union {f}
            /\ op'[o].pc = "inspect"
         \/ session[f] = "completed" /\ op'[o].pc = "inspect" /\ UNCHANGED <<session, object>>
         \/ op'[o].pc = "idle" /\ UNCHANGED <<session, object>>
  BY <1>1, <1>2, Going, Returning
<1>4. OwnStep(o) /\ TypeOK'
  BY <1>1, <1>2, <1>3, OwnStepIs DEF At, TypeOK
<1>5. MoneyInv'  BY <1>1, <1>3, <1>4, StepKeepsMoney DEF CreatorStep
<1>6. /\ op'[o].pc = "inspect" => session'[f] = "completed"
      /\ session[f] = "completed" => session'[f] = "completed"
      /\ session'[f] = "completed" => f \in object' \/ (session[f] = "completed" /\ object' = object)
  BY <1>1, <1>3 DEF TypeOK
<1>7. ObjectInv'  BY <1>1, <1>3, <1>4, <1>6, StepKeepsObjects
<1> QED  BY <1>4, <1>5, <1>7 DEF UploadsInv

LEMMA InspectKeeps == ASSUME UploadsInv, NEW o \in Actors, Inspect(o)  PROVE UploadsInv'
<1> DEFINE f == FileOf(o)
<1>1. /\ op[o].pc = "inspect" /\ f \in Files /\ TypeOK
      /\ UNCHANGED <<row, drawn, session, object, charge, released, expiries, announced, cuts>>
      /\ Goto(o, "record") \/ Goto(o, "deleteObject")
  BY FileIsFile DEF Inspect, At, billingVars, s3Vars, UploadsInv
<1>2. "record" \in Steps /\ "deleteObject" \in Steps  BY DEF Steps
<1>3. op'[o].pc \in {"record", "deleteObject"} /\ op'[o].pc \in Steps /\ Goto(o, op'[o].pc)
  BY <1>1, <1>2, Going
<1>4. OwnStep(o) /\ TypeOK'
  BY <1>1, <1>3, OwnStepIs DEF At, TypeOK
<1>5. session[f] = "completed"  BY <1>1 DEF UploadsInv, ObjectInv, CompletionsHaveSessions, At
<1>6. MoneyInv'  BY <1>1, <1>3, <1>4, StepKeepsMoney DEF CreatorStep
<1>7. ObjectInv'  BY <1>1, <1>3, <1>4, <1>5, StepKeepsObjects
<1> QED  BY <1>4, <1>6, <1>7 DEF UploadsInv

LEMMA RecordKeeps == ASSUME UploadsInv, NEW o \in Actors, Record(o)  PROVE UploadsInv'
<1> DEFINE f == FileOf(o)
<1>1. /\ op[o].pc = "record" /\ f \in Files /\ TypeOK
      /\ UNCHANGED <<drawn, session, object, charge, released, expiries, announced, cuts>>
      /\ \/ row[f] # "none" /\ SetRow(f, "COMPLETED") /\ Goto(o, "publish")
         \/ row[f] = "none" /\ UNCHANGED row /\ Return(o)
  BY FileIsFile DEF Record, At, billingVars, s3Vars, UploadsInv, Exists
<1>2. "idle" \in Steps /\ "publish" \in Steps /\ "COMPLETED" \in Rows  BY DEF Steps, Rows
<1>3. /\ Goto(o, op'[o].pc) \/ Return(o)
      /\ \/ row[f] # "none" /\ row' = [row EXCEPT ![f] = "COMPLETED"] /\ op'[o].pc = "publish"
         \/ row[f] = "none" /\ UNCHANGED row /\ op'[o].pc = "idle"
  BY <1>1, <1>2, Going, Returning DEF SetRow
<1>4. OwnStep(o) /\ TypeOK'
  BY <1>1, <1>2, <1>3, OwnStepIs DEF At, SetRow, TypeOK
<1>5. session[f] = "completed"  BY <1>1 DEF UploadsInv, ObjectInv, CompletionsHaveSessions, At
<1>6. row'[f] = "COMPLETED" \/ UNCHANGED row  BY <1>1, <1>3 DEF TypeOK
<1>7. MoneyInv'  BY <1>1, <1>3, <1>4, <1>6, StepKeepsMoney DEF CreatorStep
<1>8. ObjectInv'  BY <1>1, <1>3, <1>4, <1>5, <1>6, StepKeepsObjects
<1> QED  BY <1>4, <1>7, <1>8 DEF UploadsInv

LEMMA PublishKeeps == ASSUME UploadsInv, NEW o \in Actors, Publish(o)  PROVE UploadsInv'
<1> DEFINE f == FileOf(o)
<1>1. /\ op[o].pc = "publish" /\ f \in Files /\ TypeOK
      /\ UNCHANGED <<row, drawn, session, object, charge, released, expiries, cuts>>
      /\ announced' = IF op[o].kind = "complete" THEN announced \union {f} ELSE announced
      /\ Return(o)
  BY FileIsFile DEF Publish, At, billingVars, s3Vars, UploadsInv
<1>2. op'[o].pc = "idle" /\ "idle" \in Steps  BY <1>1, Returning DEF Steps
<1>3. announced' \in {announced, announced \union {f}}  BY <1>1
<1>4. OwnStep(o) /\ TypeOK'
  BY <1>1, <1>2, <1>3, OwnStepIs DEF At, TypeOK
<1>5. f \in announced' /\ f \notin announced => session[f] = "completed"
  BY <1>1 DEF UploadsInv, ObjectInv, CompletionsHaveSessions, At
<1>6. MoneyInv'  BY <1>1, <1>2, <1>4, StepKeepsMoney DEF CreatorStep
<1>7. ObjectInv'  BY <1>1, <1>2, <1>4, <1>5, StepKeepsObjects
<1> QED  BY <1>4, <1>6, <1>7 DEF UploadsInv

LEMMA AbortMultipartKeeps == ASSUME UploadsInv, NEW o \in Actors, AbortMultipart(o)  PROVE UploadsInv'
<1> DEFINE f == FileOf(o)
           next == IF op[o].kind = "sweep" THEN "fail" ELSE "erase"
<1>1. /\ op[o].pc = "abortMultipart" /\ f \in Files /\ TypeOK
      /\ UNCHANGED <<row, drawn, object, charge, released, expiries, announced, cuts>>
      /\ session' = [session EXCEPT ![f] = IF @ = "open" THEN "aborted" ELSE @]
      /\ Goto(o, next)
  BY FileIsFile DEF AbortMultipart, At, billingVars, UploadsInv
<1>2. next \in Steps /\ next \in {"fail", "erase"}  BY DEF Steps
<1> HIDE DEF next
<1>3. op'[o].pc = next  BY <1>1, <1>2, Going
<1>4. /\ \E new \in Sessions : session' = [session EXCEPT ![f] = new]
      /\ session[f] = "completed" <=> session'[f] = "completed"
  <2>1. session' = [session EXCEPT ![f] = IF session[f] = "open" THEN "aborted" ELSE session[f]]
        /\ (IF session[f] = "open" THEN "aborted" ELSE session[f]) \in Sessions
    BY <1>1 DEF TypeOK, Sessions
  <2> QED  BY <1>1, <2>1 DEF TypeOK
<1>5. OwnStep(o) /\ TypeOK'
  BY <1>1, <1>2, <1>3, <1>4, OwnStepIs DEF At, TypeOK
<1>6. MoneyInv'  BY <1>1, <1>2, <1>3, <1>5, StepKeepsMoney DEF CreatorStep
<1>7. ObjectInv'  BY <1>1, <1>2, <1>3, <1>4, <1>5, StepKeepsObjects
<1> QED  BY <1>5, <1>6, <1>7 DEF UploadsInv

LEMMA DeleteObjectKeeps == ASSUME UploadsInv, NEW o \in Actors, DeleteObject(o)  PROVE UploadsInv'
<1> DEFINE f == FileOf(o)
<1>1. /\ op[o].pc = "deleteObject" /\ f \in Files /\ TypeOK
      /\ UNCHANGED <<row, drawn, session, charge, released, expiries, announced, cuts>>
      /\ object' = object \ {f} /\ Goto(o, "erase")
  BY FileIsFile DEF DeleteObject, At, billingVars, UploadsInv
<1>2. op'[o].pc = "erase" /\ "erase" \in Steps  BY <1>1, Going DEF Steps
<1>3. OwnStep(o) /\ TypeOK'
  BY <1>1, <1>2, OwnStepIs DEF At, TypeOK
<1>4. MoneyInv'  BY <1>1, <1>2, <1>3, StepKeepsMoney DEF CreatorStep
<1>5. ObjectInv'  BY <1>1, <1>2, <1>3, StepKeepsObjects
<1> QED  BY <1>3, <1>4, <1>5 DEF UploadsInv

LEMMA EraseKeeps == ASSUME UploadsInv, NEW o \in Actors, Erase(o)  PROVE UploadsInv'
<1> DEFINE f == FileOf(o)
<1>1. /\ op[o].pc = "erase" /\ f \in Files /\ TypeOK
      /\ UNCHANGED <<drawn, session, object, charge, released, expiries, announced, cuts>>
      /\ \/ row[f] # "none" /\ SetRow(f, "none") /\ Goto(o, "release")
         \/ row[f] = "none" /\ UNCHANGED row /\ Return(o)
  BY FileIsFile DEF Erase, At, billingVars, s3Vars, UploadsInv, Exists
<1>2. "idle" \in Steps /\ "release" \in Steps /\ "none" \in Rows  BY DEF Steps, Rows
<1>3. /\ Goto(o, op'[o].pc) \/ Return(o)
      /\ \/ row' = [row EXCEPT ![f] = "none"] /\ op'[o].pc = "release"
         \/ row[f] = "none" /\ UNCHANGED row /\ op'[o].pc = "idle"
  BY <1>1, <1>2, Going, Returning DEF SetRow
<1>4. OwnStep(o) /\ TypeOK'
  BY <1>1, <1>2, <1>3, OwnStepIs DEF At, SetRow, TypeOK
<1>5. row'[f] = "none"  BY <1>1, <1>3 DEF TypeOK
<1>6. MoneyInv'  BY <1>1, <1>3, <1>4, <1>5, StepKeepsMoney DEF CreatorStep
<1>7. ObjectInv'  BY <1>1, <1>3, <1>4, <1>5, StepKeepsObjects
<1> QED  BY <1>4, <1>6, <1>7 DEF UploadsInv

LEMMA FailKeeps == ASSUME UploadsInv, NEW o \in Actors, Fail(o)  PROVE UploadsInv'
<1> DEFINE f == FileOf(o)
<1>1. /\ op[o].pc = "fail" /\ f \in Files /\ TypeOK
      /\ UNCHANGED <<drawn, session, object, charge, released, expiries, announced, cuts>>
      /\ \/ row[f] # "none" /\ SetRow(f, "FAILED") /\ Goto(o, "release")
         \/ row[f] = "none" /\ UNCHANGED row /\ Return(o)
  BY FileIsFile DEF Fail, At, billingVars, s3Vars, UploadsInv, Exists
<1>2. "idle" \in Steps /\ "release" \in Steps /\ "FAILED" \in Rows  BY DEF Steps, Rows
<1>3. /\ Goto(o, op'[o].pc) \/ Return(o)
      /\ \/ row[f] # "none" /\ row' = [row EXCEPT ![f] = "FAILED"] /\ op'[o].pc = "release"
         \/ row[f] = "none" /\ UNCHANGED row /\ op'[o].pc = "idle"
  BY <1>1, <1>2, Going, Returning DEF SetRow
<1>4. OwnStep(o) /\ TypeOK'
  BY <1>1, <1>2, <1>3, OwnStepIs DEF At, SetRow, TypeOK
<1>5. row'[f] = "FAILED" \/ UNCHANGED row  BY <1>1, <1>3 DEF TypeOK
<1>6. MoneyInv'  BY <1>1, <1>3, <1>4, <1>5, StepKeepsMoney DEF CreatorStep
<1>7. ObjectInv'  BY <1>1, <1>3, <1>4, <1>5, StepKeepsObjects
<1> QED  BY <1>4, <1>6, <1>7 DEF UploadsInv

LEMMA InterruptKeeps == ASSUME UploadsInv, NEW o \in Actors, Interrupt(o)  PROVE UploadsInv'
<1> DEFINE f == FileOf(o)
<1>1. /\ op[o].pc # "idle" /\ op[o].pc \in Steps /\ f \in Files /\ TypeOK
      /\ UNCHANGED <<row, drawn, session, object, charge, released, expiries, announced>>
      /\ cuts' = cuts \union {<<f, op[o].pc>>} /\ Return(o)
  BY FileIsFile DEF Interrupt, At, billingVars, s3Vars, UploadsInv, Cut, Ops
<1>2. op'[o].pc = "idle" /\ "idle" \in Steps  BY <1>1, Returning DEF Steps
<1>3. OwnStep(o) /\ TypeOK'
  BY <1>1, <1>2, OwnStepIs DEF At, TypeOK
<1>4. <<f, op[o].pc>> \in cuts' /\ \E cut \in cuts' : cut[1] = f
  <2>1. <<f, op[o].pc>> \in cuts' /\ <<f, op[o].pc>>[1] = f  BY <1>1
  <2> QED  BY <2>1
<1>5. MoneyInv'  BY <1>1, <1>2, <1>3, <1>4, StepKeepsMoney DEF CreatorStep
<1>6. ObjectInv'  BY <1>1, <1>2, <1>3, <1>4, StepKeepsObjects
<1> QED  BY <1>3, <1>5, <1>6 DEF UploadsInv

LEMMA CallIgnoredKeeps == ASSUME UploadsInv, NEW o \in Actors, CallIgnored(o)  PROVE UploadsInv'
<1> DEFINE f == FileOf(o)
<1>1. /\ op[o].pc \in {"abortMultipart", "deleteObject", "release"} /\ op[o].pc \in Steps /\ f \in Files /\ TypeOK
      /\ UNCHANGED <<row, drawn, session, object, charge, released, expiries, announced>>
      /\ cuts' = cuts \union {<<f, op[o].pc>>}
      /\ \/ Goto(o, "fail") \/ Goto(o, "erase") \/ Return(o)
         \/ op[o].kind = "delete" /\ Goto(o, "publish")
  BY FileIsFile DEF CallIgnored, At, billingVars, s3Vars, UploadsInv, Cut, Ops
<1>2. "idle" \in Steps /\ "fail" \in Steps /\ "erase" \in Steps /\ "publish" \in Steps  BY DEF Steps
<1>3. /\ Goto(o, op'[o].pc) \/ Return(o)
      /\ op'[o].pc \in {"fail", "erase", "idle"} \/ (op'[o].pc = "publish" /\ op'[o].kind = "delete")
  BY <1>1, <1>2, Going, Returning
<1>4. OwnStep(o) /\ TypeOK'
  BY <1>1, <1>2, <1>3, OwnStepIs DEF At, TypeOK
<1>5. <<f, op[o].pc>> \in cuts' /\ \E cut \in cuts' : cut[1] = f
  <2>1. <<f, op[o].pc>> \in cuts' /\ <<f, op[o].pc>>[1] = f  BY <1>1
  <2> QED  BY <2>1
<1>6. MoneyInv'  BY <1>1, <1>3, <1>4, <1>5, StepKeepsMoney DEF CreatorStep
<1>7. ObjectInv'  BY <1>1, <1>3, <1>4, <1>5, StepKeepsObjects
<1> QED  BY <1>4, <1>6, <1>7 DEF UploadsInv

LEMMA ConsumeKeeps == ASSUME UploadsInv, NEW o \in Actors, Consume(o)  PROVE UploadsInv'
<1> DEFINE f == FileOf(o)
<1>1. /\ op[o].pc = "consume" /\ f \in Files /\ f = op[o].file /\ TypeOK
      /\ UNCHANGED <<row, drawn, session, object, released, expiries, announced, cuts>>
      /\ \/ charge' = [charge EXCEPT ![f] = @ + 1] /\ Goto(o, "createMultipart")
         \/ UNCHANGED charge /\ Return(o)
  BY FileIsFile DEF Consume, At, s3Vars, UploadsInv, FileOf
<1>2. "idle" \in Steps /\ "createMultipart" \in Steps  BY DEF Steps
<1>3. /\ Goto(o, op'[o].pc) \/ Return(o)
      /\ \/ /\ charge' = [charge EXCEPT ![f] = charge[f] + 1]
            /\ op'[o].pc = "createMultipart" /\ op'[o].file = f
         \/ UNCHANGED charge /\ op'[o].pc = "idle"
  BY <1>1, <1>2, Going, Returning
<1>4. charge[f] + 1 \in Int /\ charge[f] = 0 /\ f \notin released /\ expiries \in Nat
  BY <1>1 DEF UploadsInv, MoneyInv, UnpaidYet, At, TypeOK
<1>5. OwnStep(o) /\ TypeOK'
  BY <1>1, <1>2, <1>3, <1>4, OwnStepIs DEF At, TypeOK
<1>6. row[f] = "none" /\ session[f] # "completed" /\ \A p \in Actors \ {o} : ~On(p, f)
  BY <1>1 DEF UploadsInv, MoneyInv, CreatorsAreAlone
<1>7. ObjectInv'  BY <1>1, <1>3, <1>5, <1>6, StepKeepsObjects
<1>8. Untouched' /\ CreatorsAreAlone' /\ UnpaidYet'
  BY <1>1, <1>3, <1>5, <1>6, StepKeepsCreators DEF CreatorStep
<1>9. CASE UNCHANGED charge
  <2>1. op'[o].pc = "idle" \/ op'[o].pc = "createMultipart"  BY <1>3
  <2>2. op'[o].pc = "idle"  BY <1>1, <1>3, <1>4, <1>9 DEF TypeOK
  <2>3. MoneyInv'  BY <1>1, <1>5, <2>2, <1>9, StepKeepsMoney DEF CreatorStep
  <2> QED  BY <1>5, <1>7, <2>3 DEF UploadsInv
<1>10. CASE charge' # charge
  <2>1. /\ charge' = [charge EXCEPT ![f] = charge[f] + 1]
        /\ op'[o].pc = "createMultipart" /\ op'[o].file = f
    BY <1>3, <1>10
  <2>2. charge'[f] = 1 /\ \A g \in Files : g # f => charge'[g] = charge[g]
    BY <1>1, <1>4, <2>1 DEF TypeOK
  <2>3. PaidFor'
    <3> SUFFICES ASSUME NEW g \in Files,
                        row'[g] # "none" \/ (\E p \in Actors : op'[p].pc \notin {"idle", "consume"} /\ op'[p].file = g)
                 PROVE  charge'[g] >= Floor(g)
      BY <1>1 DEF PaidFor, Exists, On, At, FileOf, Floor
    <3>1. CASE g = f  BY <1>4, <2>2, <3>1 DEF Floor
    <3>2. CASE g # f
      <4>1. Exists(g) \/ (\E p \in Actors : On(p, g) /\ ~At(p, "consume"))
        BY <1>1, <1>5, <2>1, <3>2 DEF OwnStep, Others, Exists, On, At, FileOf
      <4> QED  BY <2>2, <3>2, <4>1 DEF UploadsInv, MoneyInv, PaidFor
    <3> QED  BY <3>1, <3>2
  <2>4. ChargeBounds'
    BY <1>1, <1>4, <2>2 DEF UploadsInv, MoneyInv, ChargeBounds, Ceiling
  <2>5. ChargeAccounted'
    <3> SUFFICES ASSUME NEW g \in Files, charge'[g] > 0
                 PROVE  \/ row[g] \in {"UPLOADING", "COMPLETED"}
                        \/ \E p \in Actors : op'[p].file = g /\ op'[p].pc \in {"createMultipart", "insert", "release"}
                        \/ \E cut \in cuts : cut[1] = g
      BY <1>1 DEF ChargeAccounted, FileOf
    <3>1. CASE g = f  BY <2>1, <3>1
    <3>2. CASE g # f
      <4>1. \/ row[g] \in {"UPLOADING", "COMPLETED"}
            \/ \E p \in Actors : op[p].file = g /\ op[p].pc \in {"createMultipart", "insert", "release"}
            \/ \E cut \in cuts : cut[1] = g
        BY <2>2, <3>2 DEF UploadsInv, MoneyInv, ChargeAccounted, FileOf
      <4> QED  BY <1>1, <1>5, <3>2, <4>1 DEF OwnStep, Others
    <3> QED  BY <3>1, <3>2
  <2> QED  BY <1>5, <1>7, <1>8, <2>3, <2>4, <2>5 DEF UploadsInv, MoneyInv
<1> QED  BY <1>9, <1>10

LEMMA ReleaseKeeps == ASSUME UploadsInv, NEW o \in Actors, Release(o)  PROVE UploadsInv'
<1> DEFINE f == FileOf(o)
           n == IF f \in released THEN charge[f] ELSE charge[f] - 1
<1>1. /\ op[o].pc = "release" /\ f \in Files /\ f = op[o].file /\ TypeOK
      /\ UNCHANGED <<row, drawn, session, object, expiries, announced, cuts>>
      /\ charge' = IF f \in released THEN charge ELSE [charge EXCEPT ![f] = @ - 1]
      /\ released' = released \union {f}
      /\ \/ op[o].kind = "delete" /\ Goto(o, "publish")
         \/ Return(o)
  BY FileIsFile DEF Release, At, s3Vars, UploadsInv, FileOf
<1>2. "idle" \in Steps /\ "publish" \in Steps  BY DEF Steps
<1>3. /\ Goto(o, op'[o].pc) \/ Return(o)
      /\ op'[o].pc = "idle" \/ (op'[o].pc = "publish" /\ op'[o].kind = "delete")
  BY <1>1, <1>2, Going, Returning
<1>4. charge[f] \in Int /\ n \in Int /\ expiries \in Nat  BY <1>1 DEF TypeOK
<1>5. charge' = [charge EXCEPT ![f] = n]  BY <1>1 DEF TypeOK
<1>6. OwnStep(o) /\ TypeOK'
  <2>1. \E k \in Int : charge' = [charge EXCEPT ![f] = k]  BY <1>4, <1>5
  <2>2. op'[o].pc \in Steps  BY <1>2, <1>3
  <2> QED  BY <1>1, <1>3, <2>1, <2>2, OwnStepIs DEF At, TypeOK
<1>7. ObjectInv'  BY <1>1, <1>3, <1>6, StepKeepsObjects
<1>8. Untouched' /\ CreatorsAreAlone' /\ UnpaidYet'
  BY <1>1, <1>3, <1>6, StepKeepsCreators DEF CreatorStep
<1>9. charge[f] >= Floor(f) /\ charge[f] <= Ceiling(f)
  BY <1>1 DEF UploadsInv, MoneyInv, PaidFor, ChargeBounds, On, At, FileOf
<1>10. charge'[f] = n /\ n <= 0 /\ n >= -expiries /\ f \in released'
  BY <1>1, <1>4, <1>5, <1>9 DEF Floor, Ceiling, TypeOK
<1>11. \A g \in Files : g # f => charge'[g] = charge[g] /\ (g \in released' <=> g \in released)
  BY <1>1, <1>5 DEF TypeOK
<1>12. PaidFor'
  <2> SUFFICES ASSUME NEW g \in Files,
                      row'[g] # "none" \/ (\E p \in Actors : op'[p].pc \notin {"idle", "consume"} /\ op'[p].file = g)
               PROVE  charge'[g] >= (IF g \in released' THEN 0 ELSE 1) - expiries'
    BY DEF PaidFor, Exists, On, At, FileOf, Floor
  <2>1. CASE g = f  BY <1>1, <1>4, <1>10, <2>1
  <2>2. CASE g # f
    <3>1. Exists(g) \/ (\E p \in Actors : On(p, g) /\ ~At(p, "consume"))
      BY <1>1, <1>6, <2>2 DEF OwnStep, Others, Exists, On, At, FileOf
    <3> QED  BY <1>1, <1>11, <2>2, <3>1 DEF UploadsInv, MoneyInv, PaidFor, Floor
  <2> QED  BY <2>1, <2>2
<1>13. ChargeBounds'
  BY <1>1, <1>4, <1>10, <1>11 DEF UploadsInv, MoneyInv, ChargeBounds, Ceiling
<1>14. ChargeAccounted'
  <2> SUFFICES ASSUME NEW g \in Files, charge'[g] > 0
               PROVE  \/ row[g] \in {"UPLOADING", "COMPLETED"}
                      \/ \E p \in Actors : op'[p].file = g /\ op'[p].pc \in {"createMultipart", "insert", "release"}
                      \/ \E cut \in cuts : cut[1] = g
    BY <1>1 DEF ChargeAccounted, FileOf
  <2>1. g # f  BY <1>4, <1>10
  <2>2. \/ row[g] \in {"UPLOADING", "COMPLETED"}
        \/ \E p \in Actors : op[p].file = g /\ op[p].pc \in {"createMultipart", "insert", "release"}
        \/ \E cut \in cuts : cut[1] = g
    BY <1>11, <2>1 DEF UploadsInv, MoneyInv, ChargeAccounted, FileOf
  <2> QED  BY <1>1, <1>6, <2>1, <2>2 DEF OwnStep, Others
<1> QED  BY <1>6, <1>7, <1>8, <1>12, <1>13, <1>14 DEF UploadsInv, MoneyInv

-------------------------------------------------------------------------------
(* Requests that start, and keys that expire.                                  *)

LEMMA CreateUploadKeeps ==
  ASSUME UploadsInv, NEW o \in Actors, NEW f \in Files, CreateUpload(o, f)
  PROVE  UploadsInv'
<1> USE DEF UploadsInv
<1>1. f \notin drawn /\ drawn' = drawn \union {f}
      /\ UNCHANGED <<row, session, object, charge, released, expiries, announced, cuts>>
  BY DEF CreateUpload, billingVars, s3Vars
<1>2. /\ op' \in [Actors -> Ops] /\ Others(o) /\ op[o].pc = "idle"
      /\ op'[o].pc = "consume" /\ op'[o].kind = "create" /\ op'[o].file = f
  BY Starting DEF CreateUpload, Steps, Kinds
<1>3. /\ row[f] = "none" /\ session[f] # "completed" /\ charge[f] = 0 /\ f \notin released
      /\ \A p \in Actors : ~On(p, f)
  BY <1>1 DEF MoneyInv, Untouched
<1>4. TypeOK'  BY <1>1, <1>2 DEF TypeOK, Ops
<1>5. Untouched'
  BY <1>1, <1>2 DEF MoneyInv, Untouched, Others, On, At, FileOf
<1>6. CreatorsAreAlone'
  BY <1>1, <1>2, <1>3 DEF MoneyInv, CreatorsAreAlone, Others, On, At, FileOf
<1>7. UnpaidYet'  BY <1>1, <1>2, <1>3 DEF MoneyInv, UnpaidYet, Others, At, FileOf
<1>8. PaidFor'
  BY <1>1, <1>2 DEF MoneyInv, PaidFor, Others, On, At, FileOf, Exists, Floor
<1>9. ChargeBounds'  BY <1>1 DEF MoneyInv, ChargeBounds, Ceiling
<1>10. ChargeAccounted'
  BY <1>1, <1>2 DEF MoneyInv, ChargeAccounted, Others, FileOf
<1>11. ObjectInv'
  BY <1>1, <1>2 DEF ObjectInv, CompletionsHaveSessions, ObjectsAreKept, HasObject, Exists, Others, At, FileOf
<1> QED  BY <1>4, <1>5, <1>6, <1>7, <1>8, <1>9, <1>10, <1>11 DEF MoneyInv

\* Every other request is for a file that has a row.
LEMMA StartKeeps ==
  ASSUME UploadsInv, NEW o \in Actors, NEW f \in Files, NEW kind \in Kinds,
         NEW pc \in {"completeMultipart", "abortMultipart", "deleteObject"},
         row[f] # "none", Start(o, kind, f, pc),
         UNCHANGED <<row, drawn, session, object, charge, released, expiries, announced, cuts>>
  PROVE  UploadsInv'
<1> USE DEF UploadsInv
<1>1. /\ op' \in [Actors -> Ops] /\ Others(o) /\ op[o].pc = "idle"
      /\ op'[o].pc = pc /\ op'[o].kind = kind /\ op'[o].file = f
  BY Starting DEF Steps
<1>2. TypeOK'  BY <1>1 DEF TypeOK, Ops
<1>3. Untouched'
  BY <1>1 DEF MoneyInv, Untouched, Others, On, At, FileOf
<1>4. CreatorsAreAlone'
  BY <1>1 DEF MoneyInv, CreatorsAreAlone, Others, On, At, FileOf
<1>5. UnpaidYet'  BY <1>1 DEF MoneyInv, UnpaidYet, Others, At, FileOf
<1>6. PaidFor'
  BY <1>1 DEF MoneyInv, PaidFor, Others, On, At, FileOf, Exists, Floor
<1>7. ChargeBounds'  BY DEF MoneyInv, ChargeBounds, Ceiling
<1>8. ChargeAccounted'
  BY <1>1 DEF MoneyInv, ChargeAccounted, Others, FileOf
<1>9. ObjectInv'
  BY <1>1 DEF ObjectInv, CompletionsHaveSessions, ObjectsAreKept, HasObject, Exists, Others, At, FileOf
<1> QED  BY <1>2, <1>3, <1>4, <1>5, <1>6, <1>7, <1>8, <1>9 DEF MoneyInv

LEMMA RequestKeeps ==
  ASSUME UploadsInv, NEW o \in Actors, NEW f \in Files,
         Request(o, f) \/ (o = Sweeper /\ Sweep(f))
  PROVE  UploadsInv'
<1>1. CASE CreateUpload(o, f)  BY <1>1, CreateUploadKeeps
<1>2. CASE CompleteUpload(o, f) \/ AbortUpload(o, f) \/ DeleteFile(o, f) \/ (o = Sweeper /\ Sweep(f))
  <2>1. row[f] # "none"
        /\ UNCHANGED <<row, drawn, session, object, charge, released, expiries, announced, cuts>>
    BY <1>2 DEF CompleteUpload, AbortUpload, DeleteFile, Sweep, Exists, billingVars, s3Vars
  <2>2. \/ Start(o, "complete", f, "completeMultipart") \/ Start(o, "abort", f, "abortMultipart")
        \/ Start(o, "delete", f, "abortMultipart") \/ Start(o, "delete", f, "deleteObject")
        \/ Start(o, "sweep", f, "abortMultipart")
    BY <1>2 DEF CompleteUpload, AbortUpload, DeleteFile, Sweep
  <2>3. {"complete", "abort", "delete", "sweep"} \subseteq Kinds  BY DEF Kinds
  <2> QED  BY <2>1, <2>2, <2>3, StartKeeps
<1> QED  BY <1>1, <1>2 DEF Request

LEMMA ExpireKeyKeeps == ASSUME UploadsInv, NEW f \in Files, ExpireKey(f)  PROVE UploadsInv'
<1> USE DEF UploadsInv
<1>1. /\ f \in released /\ expiries < MaxExpiries /\ released' = released \ {f} /\ expiries' = expiries + 1
      /\ UNCHANGED <<row, drawn, session, object, charge, announced, op, cuts>>
      /\ \A o \in Actors : FileOf(o) = f => op[o].pc = "idle"
  BY DEF ExpireKey, s3Vars, At
<1>2. expiries \in Nat /\ MaxExpiries \in Nat /\ expiries' \in 0..MaxExpiries
  BY <1>1, BoundsAssumption DEF TypeOK
<1>3. TypeOK'  BY <1>1, <1>2 DEF TypeOK
<1>4. Untouched'  BY <1>1 DEF MoneyInv, Untouched, On, At, FileOf
<1>5. CreatorsAreAlone'  BY <1>1 DEF MoneyInv, CreatorsAreAlone, On, At, FileOf
<1>6. UnpaidYet'  BY <1>1 DEF MoneyInv, UnpaidYet, At, FileOf
<1>7. PaidFor'
  <2> SUFFICES ASSUME NEW g \in Files, Exists(g) \/ (\E o \in Actors : On(o, g) /\ ~At(o, "consume"))
               PROVE  charge[g] >= (IF g \in released' THEN 0 ELSE 1) - expiries'
    BY <1>1 DEF PaidFor, Exists, On, At, FileOf, Floor
  <2>1. charge[g] >= (IF g \in released THEN 0 ELSE 1) - expiries /\ charge[g] \in Int
    BY DEF MoneyInv, PaidFor, Floor, TypeOK
  <2> QED  BY <1>1, <1>2, <2>1
<1>8. ChargeBounds'
  <2> SUFFICES ASSUME NEW g \in Files
               PROVE  -expiries' <= charge[g] /\ charge[g] <= (IF g \in released' THEN 0 ELSE 1)
    BY <1>1 DEF ChargeBounds, Ceiling
  <2>1. -expiries <= charge[g] /\ charge[g] <= (IF g \in released THEN 0 ELSE 1) /\ charge[g] \in Int
    BY DEF MoneyInv, ChargeBounds, Ceiling, TypeOK
  <2> QED  BY <1>1, <1>2, <2>1
<1>9. ChargeAccounted'  BY <1>1 DEF MoneyInv, ChargeAccounted, FileOf
<1>10. ObjectInv'
  BY <1>1 DEF ObjectInv, CompletionsHaveSessions, ObjectsAreKept, HasObject, Exists, At, FileOf
<1> QED  BY <1>3, <1>4, <1>5, <1>6, <1>7, <1>8, <1>9, <1>10 DEF MoneyInv

-------------------------------------------------------------------------------
LEMMA UploadsStep == UploadsInv /\ [Next]_vars => UploadsInv'
<1> SUFFICES ASSUME UploadsInv, [Next]_vars  PROVE UploadsInv'  OBVIOUS
<1>1. CASE \E o \in Requests, f \in Files : Request(o, f)
  BY <1>1, RequestKeeps DEF Actors
<1>2. CASE \E f \in Files : Sweep(f) \/ ExpireKey(f)
  BY <1>2, RequestKeeps, ExpireKeyKeeps DEF Actors
<1>3. CASE \E o \in Actors : Step(o)
  BY <1>3, ConsumeKeeps, CreateMultipartKeeps, InsertKeeps, CompleteMultipartKeeps, InspectKeeps, RecordKeeps,
     PublishKeeps, AbortMultipartKeeps, DeleteObjectKeeps, EraseKeeps, FailKeeps, ReleaseKeeps DEF Step
<1>4. CASE \E o \in Actors : Interrupt(o) \/ CallIgnored(o)
  BY <1>4, InterruptKeeps, CallIgnoredKeeps
<1>5. CASE UNCHANGED vars
  <2>1. UNCHANGED <<row, drawn, session, object, charge, released, expiries, announced, op, cuts>>
    BY <1>5 DEF vars, s3Vars, billingVars
  <2>2. TypeOK'  BY <2>1 DEF UploadsInv, TypeOK
  <2>3. MoneyInv'
    BY <2>1 DEF UploadsInv, MoneyInv, Untouched, CreatorsAreAlone, UnpaidYet, PaidFor, ChargeBounds, ChargeAccounted,
       Floor, Ceiling, Exists, On, At, FileOf
  <2>4. ObjectInv'
    BY <2>1 DEF UploadsInv, ObjectInv, CompletionsHaveSessions, ObjectsAreKept, HasObject, Exists, At, FileOf
  <2> QED  BY <2>2, <2>3, <2>4 DEF UploadsInv
<1> QED  BY <1>1, <1>2, <1>3, <1>4, <1>5 DEF Next

LEMMA UploadsInvHolds == Spec => []UploadsInv
BY UploadsInit, UploadsStep, PTL DEF Spec

\* The variables keep their types.
THEOREM UploadsTypeCorrect == Spec => []TypeOK
<1>1. UploadsInv => TypeOK  BY DEF UploadsInv
<1> QED  BY <1>1, UploadsInvHolds, PTL

\* Deletions, aborts, failed completions and the sweeper may all reach the release of one file: its
\* storage is given back once, and once more for each time payment-service forgot the key.
THEOREM StorageReleasedOnce == Spec => []ReleasedAtMostOnce
<1>1. UploadsInv => ReleasedAtMostOnce
  BY DEF UploadsInv, MoneyInv, ChargeBounds, ReleasedAtMostOnce, TypeOK
<1> QED  BY <1>1, UploadsInvHolds, PTL

\* No order of the steps of overlapping requests leaves storage charged for a file without an upload
\* in use, unless a call failed or a process died.
THEOREM StorageIsCharged == Spec => []ChargedHasRow
<1>1. UploadsInv => ChargedHasRow
  <2> SUFFICES ASSUME UploadsInv, NEW f \in Files, Intact(f), charge[f] > 0
               PROVE  row[f] \in {"UPLOADING", "COMPLETED"}
    BY DEF ChargedHasRow
  <2>1. \A o \in Actors : op[o].pc = "idle" \/ op[o].file # f  BY DEF Intact, Busy, At, FileOf
  <2> QED  BY <2>1 DEF UploadsInv, MoneyInv, ChargeAccounted, Intact, FileOf
<1> QED  BY <1>1, UploadsInvHolds, PTL

\* A completed or announced file keeps its object until a removal takes both.
THEOREM CompletedKeepsObject == Spec => []CompletedHasObject
<1>1. UploadsInv => CompletedHasObject
  <2> SUFFICES ASSUME UploadsInv, NEW f \in Files, row[f] = "COMPLETED" \/ (f \in announced /\ Exists(f))
               PROVE  HasObject(f)
    BY DEF CompletedHasObject, HasObject
  <2>1. session[f] = "completed" /\ Exists(f)
    BY DEF UploadsInv, ObjectInv, CompletionsHaveSessions, Exists
  <2> QED  BY <2>1 DEF UploadsInv, ObjectInv, ObjectsAreKept
<1> QED  BY <1>1, UploadsInvHolds, PTL
================================================================================
