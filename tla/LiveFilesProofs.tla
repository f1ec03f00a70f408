---------------------------- MODULE LiveFilesProofs ----------------------------
(* That a tab converges, for any number of files, versions and messages under   *)
(* way. What is on its way to the tab is read from its far end: the queue of    *)
(* the gateway, the updates it holds back for the snapshot, the connection, and *)
(* the snapshot before them. The invariant says of every file whose updates     *)
(* were all said that the last of these that speaks of it is right (LastIsRight) *)
(* and, when the tab missed none, that something still brings it the row, or    *)
(* that it shows it already (WillKnow).                                          *)
EXTENDS LiveFiles, SequenceTheorems, TLAPS

\* The file an update, or a message to the tab, is about.
Mentions(q, f)  == \E i \in 1..Len(q) : q[i][1] = f
Tells(w, f)     == \E i \in 1..Len(w) : w[i].kind = "update" /\ w[i].of[1] = f

\* The last word of q about f, if it has one, is v.
Ends(q, f, v)   == \A i \in 1..Len(q) :
  q[i][1] = f /\ (\A j \in i + 1..Len(q) : q[j][1] # f) => q[i][2] = v
TellsLast(w, f, v) == \A i \in 1..Len(w) :
  (/\ w[i].kind = "update" /\ w[i].of[1] = f
   /\ \A j \in i + 1..Len(w) : ~(w[j].kind = "update" /\ w[j].of[1] = f))
  => w[i].of[2] = v
Shots(w, f, v)  == \A i \in 1..Len(w) : w[i].kind = "snapshot" => \A u \in w[i].files : u[1] = f => u[2] = v
Opens(w)        == \E i \in 1..Len(w) : w[i].kind = "open"

Functional(files) == \A t, u \in files : t[1] = u[1] => t = u

\* The stream opens once, then brings one snapshot, then updates.
SnapshotFirst(w) == \A i \in 1..Len(w) : w[i].kind = "snapshot" =>
  Functional(w[i].files) /\ \A j \in 1..i - 1 : w[j].kind = "open"
InOrder ==
  /\ stream # "live" => wire = <<>>
  /\ stream # "read" => read = {}
  /\ Functional(read) /\ SnapshotFirst(wire)

\* A list that was read has every file.
ListIsWhole ==
  /\ fetch.step = "none" => \A f \in Files : listed[f] # Unloaded
  /\ fetch.step = "answered" => \A f \in Files : fetch.rows[f] # Unloaded

\* Of a file that was always spoken of in time the row is published, or is about to be.
Said(f) ==
  /\ sent[f] <= row[f]
  /\ f \notin unsaid =>
       sent[f] = row[f] \/ <<f, row[f]>> \in unsent \/ (row[f] = 0 /\ sent[f] = Unloaded)

LastIsRight(f) ==
  f \notin unsaid /\ <<f, row[f]>> \notin unsent =>
    /\ Ends(queue, f, row[f])
    /\ ~Mentions(queue, f) => Ends(pending, f, row[f])
    /\ ~Mentions(queue, f) /\ ~Mentions(pending, f) => TellsLast(wire, f, row[f])
    /\ ~Mentions(queue, f) /\ ~Mentions(pending, f) /\ ~Tells(wire, f) =>
         /\ \A u \in read : u[1] = f => u[2] = row[f]
         /\ Shots(wire, f, row[f])

\* What an update that is not under way leaves the tab with.
Settled(f) ==
  \/ fetch.step = "asked"
  \/ fetch.step = "answered" /\ fetch.rows[f] = row[f]
  \/ fetch.step = "none" /\ listed[f] = row[f]
  \/ opened /\ (stream # "live" \/ Opens(wire))

WillKnow(f) ==
  f \notin missed \union unsaid =>
    <<f, row[f]>> \in unsent \/ Mentions(queue, f) \/ Mentions(pending, f) \/ Tells(wire, f) \/ Settled(f)

LiveInv ==
  /\ TypeOK /\ InOrder /\ ListIsWhole
  /\ \A f \in Files : Said(f) /\ LastIsRight(f) /\ WillKnow(f)
-------------------------------------------------------------------------------
(* Sequences that grow at the end and shrink at the front.                      *)

LEMMA EmptyQueue == \A f, v : ~Mentions(<<>>, f) /\ Ends(<<>>, f, v) /\ ~Tells(<<>>, f)
                              /\ TellsLast(<<>>, f, v) /\ Shots(<<>>, f, v) /\ ~Opens(<<>>)
BY DEF Mentions, Ends, Tells, TellsLast, Shots, Opens

LEMMA Appended ==
  ASSUME NEW S, NEW q \in Seq(S), NEW u \in S
  PROVE  /\ Append(q, u) \in Seq(S)
         /\ Len(Append(q, u)) = Len(q) + 1 /\ Append(q, u)[Len(q) + 1] = u
         /\ \A i \in 1..Len(q) : Append(q, u)[i] = q[i]
OBVIOUS

LEMMA Shortened ==
  ASSUME NEW S, NEW q \in Seq(S), q # <<>>
  PROVE  /\ Tail(q) \in Seq(S) /\ Head(q) \in S /\ Head(q) = q[1]
         /\ Len(q) \in Nat \ {0} /\ Len(Tail(q)) = Len(q) - 1
         /\ \A i \in 1..Len(q) - 1 : Tail(q)[i] = q[i + 1]
OBVIOUS

LEMMA AppendMentions ==
  ASSUME NEW S, NEW q \in Seq(S), NEW u \in S, NEW f
  PROVE  Mentions(Append(q, u), f) <=> Mentions(q, f) \/ u[1] = f
<1> DEFINE r == Append(q, u)
<1>1. /\ Len(q) \in Nat /\ Len(r) = Len(q) + 1 /\ r[Len(q) + 1] = u
      /\ \A i \in 1..Len(q) : r[i] = q[i]
  BY Appended
<1> HIDE DEF r
<1>2. 1..Len(r) = 1..Len(q) \union {Len(q) + 1}  BY <1>1
<1>3. Mentions(r, f) <=> Mentions(q, f) \/ u[1] = f  BY <1>1, <1>2 DEF Mentions
<1> QED  BY <1>3 DEF r

LEMMA AppendEnds ==
  ASSUME NEW S, NEW q \in Seq(S), NEW u \in S, NEW f, NEW v, u[1] = f => u[2] = v, u[1] # f => Ends(q, f, v)
  PROVE  Ends(Append(q, u), f, v)
<1> DEFINE r == Append(q, u)
<1>1. /\ Len(q) \in Nat /\ Len(r) = Len(q) + 1 /\ r[Len(q) + 1] = u
      /\ \A i \in 1..Len(q) : r[i] = q[i]
  BY Appended
<1> HIDE DEF r
<1>2. ASSUME NEW i \in 1..Len(r), r[i][1] = f, \A j \in i + 1..Len(r) : r[j][1] # f
      PROVE  r[i][2] = v
  <2>1. CASE i = Len(q) + 1  BY <1>1, <1>2, <2>1
  <2>2. CASE i # Len(q) + 1
    <3>1. i \in 1..Len(q) /\ Len(q) + 1 \in i + 1..Len(r)  BY <1>1, <2>2
    <3>2. u[1] # f  BY <1>1, <1>2, <3>1
    <3>3. \A j \in i + 1..Len(q) : q[j][1] # f
      <4> TAKE j \in i + 1..Len(q)
      <4>1. j \in 1..Len(q) /\ j \in i + 1..Len(r)  BY <1>1, <3>1
      <4> QED  BY <1>1, <1>2, <4>1
    <3>4. q[i][2] = v  BY <1>1, <1>2, <3>1, <3>2, <3>3 DEF Ends
    <3> QED  BY <1>1, <3>1, <3>4
  <2> QED  BY <2>1, <2>2
<1>3. Ends(r, f, v)  BY <1>2 DEF Ends
<1> QED  BY <1>3 DEF r

LEMMA TailMentions ==
  ASSUME NEW S, NEW q \in Seq(S), q # <<>>, NEW f
  PROVE  Mentions(q, f) <=> Head(q)[1] = f \/ Mentions(Tail(q), f)
<1> DEFINE r == Tail(q)
<1>1. /\ Len(q) \in Nat \ {0} /\ Len(r) = Len(q) - 1 /\ Head(q) = q[1]
      /\ \A i \in 1..Len(q) - 1 : r[i] = q[i + 1]
  BY Shortened
<1> HIDE DEF r
<1>2. ASSUME Mentions(q, f), q[1][1] # f  PROVE Mentions(r, f)
  <2>1. PICK i \in 1..Len(q) : q[i][1] = f  BY <1>2 DEF Mentions
  <2>2. i - 1 \in 1..Len(r) /\ i - 1 \in 1..Len(q) - 1 /\ i = (i - 1) + 1  BY <1>1, <1>2, <2>1
  <2>3. r[i - 1] = q[i]  BY <1>1, <2>2
  <2> QED  BY <2>1, <2>2, <2>3 DEF Mentions
<1>3. ASSUME Mentions(r, f)  PROVE Mentions(q, f)
  <2>1. PICK i \in 1..Len(r) : r[i][1] = f  BY <1>3 DEF Mentions
  <2>2. i + 1 \in 1..Len(q) /\ r[i] = q[i + 1]  BY <1>1
  <2> QED  BY <2>1, <2>2 DEF Mentions
<1>4. ASSUME q[1][1] = f  PROVE Mentions(q, f)
  <2>1. 1 \in 1..Len(q)  BY <1>1
  <2> QED  BY <1>4, <2>1 DEF Mentions
<1>5. Mentions(q, f) <=> q[1][1] = f \/ Mentions(r, f)  BY <1>2, <1>3, <1>4
<1> QED  BY <1>1, <1>5 DEF r

LEMMA TailEnds ==
  ASSUME NEW S, NEW q \in Seq(S), q # <<>>, NEW f, NEW v, Ends(q, f, v)
  PROVE  /\ Ends(Tail(q), f, v)
         /\ Head(q)[1] = f /\ ~Mentions(Tail(q), f) => Head(q)[2] = v
<1> DEFINE r == Tail(q)
<1>1. /\ Len(q) \in Nat \ {0} /\ Len(r) = Len(q) - 1 /\ Head(q) = q[1]
      /\ \A i \in 1..Len(q) - 1 : r[i] = q[i + 1]
  BY Shortened
<1> HIDE DEF r
<1>2. ASSUME NEW i \in 1..Len(r), r[i][1] = f, \A j \in i + 1..Len(r) : r[j][1] # f
      PROVE  r[i][2] = v
  <2>1. i + 1 \in 1..Len(q) /\ r[i] = q[i + 1]  BY <1>1
  <2>2. \A j \in (i + 1) + 1..Len(q) : q[j][1] # f
    <3> TAKE j \in (i + 1) + 1..Len(q)
    <3>1. j - 1 \in i + 1..Len(r) /\ j - 1 \in 1..Len(q) - 1 /\ (j - 1) + 1 = j  BY <1>1
    <3>2. r[j - 1] = q[j]  BY <1>1, <3>1
    <3> QED  BY <1>2, <3>1, <3>2
  <2> QED  BY <1>2, <2>1, <2>2 DEF Ends
<1>3. ASSUME q[1][1] = f, ~Mentions(r, f)  PROVE q[1][2] = v
  <2>1. 1 \in 1..Len(q)  BY <1>1
  <2>2. \A j \in 1 + 1..Len(q) : q[j][1] # f
    <3> TAKE j \in 1 + 1..Len(q)
    <3>1. j - 1 \in 1..Len(r) /\ j - 1 \in 1..Len(q) - 1 /\ (j - 1) + 1 = j  BY <1>1
    <3>2. r[j - 1] = q[j]  BY <1>1, <3>1
    <3> QED  BY <1>3, <3>1, <3>2 DEF Mentions
  <2> QED  BY <1>3, <2>1, <2>2 DEF Ends
<1>4. Ends(r, f, v)  BY <1>2 DEF Ends
<1> QED  BY <1>1, <1>3, <1>4 DEF r
Update(u) == [kind |-> "update", of |-> u]

LEMMA WireAppended ==
  ASSUME NEW S, NEW w \in Seq(S), NEW u, Update(u) \in S, NEW f, NEW v
  PROVE  LET x == Append(w, Update(u)) IN
         /\ Tells(x, f) <=> Tells(w, f) \/ u[1] = f
         /\ (u[1] = f => u[2] = v) /\ (u[1] # f => TellsLast(w, f, v)) => TellsLast(x, f, v)
         /\ Shots(w, f, v) => Shots(x, f, v)
         /\ Opens(w) => Opens(x)
         /\ SnapshotFirst(w) => SnapshotFirst(x)
<1> DEFINE x == Append(w, Update(u))
<1>1. /\ Len(w) \in Nat /\ Len(x) = Len(w) + 1 /\ x[Len(w) + 1] = Update(u)
      /\ \A i \in 1..Len(w) : x[i] = w[i]
  BY Appended
<1> HIDE DEF x
<1>2. 1..Len(x) = 1..Len(w) \union {Len(w) + 1}  BY <1>1
<1>3. Update(u).kind = "update" /\ Update(u).of = u  BY DEF Update
<1>4. Tells(x, f) <=> Tells(w, f) \/ u[1] = f  BY <1>1, <1>2, <1>3 DEF Tells
<1>5. ASSUME u[1] = f => u[2] = v, u[1] # f => TellsLast(w, f, v)  PROVE TellsLast(x, f, v)
  <2>1. ASSUME NEW i \in 1..Len(x), x[i].kind = "update", x[i].of[1] = f,
               \A j \in i + 1..Len(x) : ~(x[j].kind = "update" /\ x[j].of[1] = f)
        PROVE  x[i].of[2] = v
    <3>1. CASE i = Len(w) + 1  BY <1>1, <1>3, <1>5, <2>1, <3>1
    <3>2. CASE i # Len(w) + 1
      <4>1. i \in 1..Len(w) /\ Len(w) + 1 \in i + 1..Len(x)  BY <1>1, <3>2
      <4>2. u[1] # f  BY <1>1, <1>3, <2>1, <4>1
      <4>3. \A j \in i + 1..Len(w) : ~(w[j].kind = "update" /\ w[j].of[1] = f)
        <5> TAKE j \in i + 1..Len(w)
        <5>1. j \in 1..Len(w) /\ j \in i + 1..Len(x)  BY <1>1, <4>1
        <5> QED  BY <1>1, <2>1, <5>1
      <4>4. w[i].of[2] = v  BY <1>1, <1>5, <2>1, <4>1, <4>2, <4>3 DEF TellsLast
      <4> QED  BY <1>1, <4>1, <4>4
    <3> QED  BY <3>1, <3>2
  <2> QED  BY <2>1 DEF TellsLast
<1>6. Shots(w, f, v) => Shots(x, f, v)  BY <1>1, <1>2, <1>3 DEF Shots
<1>7. Opens(w) => Opens(x)  BY <1>1, <1>2, <1>3 DEF Opens
<1>8. ASSUME SnapshotFirst(w)  PROVE SnapshotFirst(x)
  <2> SUFFICES ASSUME NEW i \in 1..Len(x), x[i].kind = "snapshot"
               PROVE  Functional(x[i].files) /\ \A j \in 1..i - 1 : x[j].kind = "open"
    BY DEF SnapshotFirst
  <2>1. i \in 1..Len(w) /\ x[i] = w[i]  BY <1>1, <1>2, <1>3
  <2>2. \A j \in 1..i - 1 : j \in 1..Len(w) /\ x[j] = w[j]  BY <1>1, <2>1
  <2> QED  BY <1>8, <2>1, <2>2 DEF SnapshotFirst
<1> QED  BY <1>4, <1>5, <1>6, <1>7, <1>8 DEF x

LEMMA WireShortened ==
  ASSUME NEW S, NEW w \in Seq(S), w # <<>>, NEW f, NEW v
  PROVE  LET x == Tail(w)
             m == Head(w)
         IN /\ Tells(w, f) <=> (m.kind = "update" /\ m.of[1] = f) \/ Tells(x, f)
            /\ TellsLast(w, f, v) => /\ TellsLast(x, f, v)
                                     /\ m.kind = "update" /\ m.of[1] = f /\ ~Tells(x, f) => m.of[2] = v
            /\ Shots(w, f, v) => /\ Shots(x, f, v)
                                 /\ m.kind = "snapshot" => \A u \in m.files : u[1] = f => u[2] = v
            /\ Opens(w) <=> m.kind = "open" \/ Opens(x)
            /\ SnapshotFirst(w) => /\ SnapshotFirst(x)
                                   /\ m.kind = "snapshot" => Functional(m.files)
                                   /\ m.kind # "open" => Shots(x, f, v)
<1> DEFINE x == Tail(w)
           m == Head(w)
<1>1. /\ Len(w) \in Nat \ {0} /\ Len(x) = Len(w) - 1 /\ m = w[1]
      /\ \A i \in 1..Len(w) - 1 : x[i] = w[i + 1]
  BY Shortened
<1> HIDE DEF x, m
<1>2. 1 \in 1..Len(w) /\ \A i \in 1..Len(x) : i + 1 \in 1..Len(w) /\ x[i] = w[i + 1]  BY <1>1
<1>3. \A i \in 1..Len(w) : i = 1 \/ (i - 1 \in 1..Len(x) /\ x[i - 1] = w[i])
  <2> TAKE i \in 1..Len(w)
  <2>1. i = 1 \/ (i - 1 \in 1..Len(x) /\ i - 1 \in 1..Len(w) - 1 /\ (i - 1) + 1 = i)  BY <1>1
  <2> QED  BY <1>1, <2>1
<1>4. Tells(w, f) <=> (m.kind = "update" /\ m.of[1] = f) \/ Tells(x, f)
  <2>1. Tells(w, f) => (m.kind = "update" /\ m.of[1] = f) \/ Tells(x, f)  BY <1>1, <1>3 DEF Tells
  <2>2. Tells(x, f) => Tells(w, f)  BY <1>2 DEF Tells
  <2>3. m.kind = "update" /\ m.of[1] = f => Tells(w, f)  BY <1>1, <1>2 DEF Tells
  <2> QED  BY <2>1, <2>2, <2>3
<1>5. ASSUME TellsLast(w, f, v)  PROVE TellsLast(x, f, v)
  <2>1. ASSUME NEW i \in 1..Len(x), x[i].kind = "update", x[i].of[1] = f,
               \A j \in i + 1..Len(x) : ~(x[j].kind = "update" /\ x[j].of[1] = f)
        PROVE  x[i].of[2] = v
    <3>1. i + 1 \in 1..Len(w) /\ x[i] = w[i + 1]  BY <1>2
    <3>2. \A j \in (i + 1) + 1..Len(w) : ~(w[j].kind = "update" /\ w[j].of[1] = f)
      <4> TAKE j \in (i + 1) + 1..Len(w)
      <4>1. j - 1 \in i + 1..Len(x) /\ j \in 1..Len(w) /\ j # 1  BY <1>1
      <4>2. x[j - 1] = w[j]  BY <1>3, <4>1
      <4> QED  BY <2>1, <4>1, <4>2
    <3> QED  BY <1>5, <2>1, <3>1, <3>2 DEF TellsLast
  <2> QED  BY <2>1 DEF TellsLast
<1>6. ASSUME TellsLast(w, f, v), m.kind = "update", m.of[1] = f, ~Tells(x, f)  PROVE m.of[2] = v
  <2>1. \A j \in 1 + 1..Len(w) : ~(w[j].kind = "update" /\ w[j].of[1] = f)
    <3> TAKE j \in 1 + 1..Len(w)
    <3>1. j - 1 \in 1..Len(x) /\ j \in 1..Len(w) /\ j # 1  BY <1>1
    <3>2. x[j - 1] = w[j]  BY <1>3, <3>1
    <3> QED  BY <1>6, <3>1, <3>2 DEF Tells
  <2> QED  BY <1>1, <1>2, <1>6, <2>1 DEF TellsLast
<1>7. Shots(w, f, v) => /\ Shots(x, f, v)
                        /\ m.kind = "snapshot" => \A u \in m.files : u[1] = f => u[2] = v
  BY <1>1, <1>2 DEF Shots
<1>8. Opens(w) <=> m.kind = "open" \/ Opens(x)
  <2>1. Opens(w) => m.kind = "open" \/ Opens(x)  BY <1>1, <1>3 DEF Opens
  <2>2. Opens(x) => Opens(w)  BY <1>2 DEF Opens
  <2>3. m.kind = "open" => Opens(w)  BY <1>1, <1>2 DEF Opens
  <2> QED  BY <2>1, <2>2, <2>3
<1>9. ASSUME SnapshotFirst(w)
      PROVE  /\ SnapshotFirst(x)
             /\ m.kind = "snapshot" => Functional(m.files)
             /\ m.kind # "open" => Shots(x, f, v)
  <2>1. ASSUME NEW i \in 1..Len(x), x[i].kind = "snapshot"
        PROVE  /\ Functional(x[i].files) /\ m.kind = "open"
               /\ \A j \in 1..i - 1 : x[j].kind = "open"
    <3>1. i + 1 \in 1..Len(w) /\ x[i] = w[i + 1] /\ 1 \in 1..(i + 1) - 1  BY <1>1, <1>2
    <3>2. \A j \in 1..i - 1 : j \in 1..Len(x) /\ x[j] = w[j + 1] /\ j + 1 \in 1..(i + 1) - 1  BY <1>1, <1>2
    <3> QED  BY <1>1, <1>9, <2>1, <3>1, <3>2 DEF SnapshotFirst
  <2>2. m.kind = "snapshot" => Functional(m.files)  BY <1>1, <1>2, <1>9 DEF SnapshotFirst
  <2> QED  BY <2>1, <2>2 DEF SnapshotFirst, Shots
<1> QED  BY <1>4, <1>5, <1>6, <1>7, <1>8, <1>9 DEF x, m
\* What a stream that opens brings: the snapshot and then what was held back.
LEMMA WireOpened ==
  ASSUME NEW p \in Seq(Updates), NEW files \in SUBSET Updates, Functional(files)
  PROVE  LET w == <<>> \o <<[kind |-> "open"], [kind |-> "snapshot", files |-> files]>>
                  \o [i \in DOMAIN p |-> [kind |-> "update", of |-> p[i]]]
         IN /\ w \in Seq(Messages)
            /\ Opens(w) /\ SnapshotFirst(w)
            /\ \A f : Tells(w, f) <=> Mentions(p, f)
            /\ \A f, v : Ends(p, f, v) => TellsLast(w, f, v)
            /\ \A f, v : (\A u \in files : u[1] = f => u[2] = v) => Shots(w, f, v)
<1> DEFINE open == [kind |-> "open"]
           shot == [kind |-> "snapshot", files |-> files]
           a    == <<>> \o <<open, shot>>
           b    == [i \in DOMAIN p |-> [kind |-> "update", of |-> p[i]]]
           w    == a \o b
<1>1. Len(p) \in Nat /\ DOMAIN p = 1..Len(p) /\ \A i \in 1..Len(p) : p[i] \in Updates
  OBVIOUS
<1>2. open \in Messages /\ shot \in Messages  BY DEF Messages
<1>3. \A i \in 1..Len(p) : [kind |-> "update", of |-> p[i]] \in Messages  BY <1>1 DEF Messages
<1>4. a \in Seq(Messages) /\ Len(a) = 2 /\ a[1] = open /\ a[2] = shot  BY <1>2
<1>5. b \in Seq(Messages) /\ Len(b) = Len(p)
      /\ \A i \in 1..Len(p) : b[i].kind = "update" /\ b[i].of = p[i]
  BY <1>1, <1>3
<1>6. open.kind = "open" /\ shot.kind = "snapshot" /\ shot.files = files
  OBVIOUS
<1> HIDE DEF open, shot, a, b
<1>7. /\ w \in Seq(Messages) /\ Len(w) = Len(p) + 2 /\ w[1] = open /\ w[2] = shot
      /\ \A i \in 1..Len(p) : w[i + 2] = b[i]
  <2>1. w \in Seq(Messages) /\ Len(w) = Len(a) + Len(b)  BY <1>4, <1>5, ConcatProperties DEF w
  <2>2. \A i \in 1..Len(a) + Len(b) : w[i] = IF i <= Len(a) THEN a[i] ELSE b[i - Len(a)]
    <3>1. a \in Seq(Messages) /\ b \in Seq(Messages)  BY <1>4, <1>5
    <3> HIDE DEF w
    <3>2. \A i \in 1..Len(a) + Len(b) : (a \o b)[i] = IF i <= Len(a) THEN a[i] ELSE b[i - Len(a)]
      BY <3>1, ConcatProperties
    <3> QED  BY <3>2 DEF w
  <2> HIDE DEF w
  <2>3. \A i \in 1..Len(p) : i + 2 \in 1..Len(a) + Len(b) /\ ~(i + 2 <= Len(a)) /\ (i + 2) - Len(a) = i
    BY <1>1, <1>4, <1>5
  <2>4. 1 \in 1..Len(a) + Len(b) /\ 2 \in 1..Len(a) + Len(b) /\ 1 <= Len(a) /\ 2 <= Len(a)  BY <1>1, <1>4, <1>5
  <2>5. w[1] = a[1] /\ w[2] = a[2]  BY <2>2, <2>4
  <2>6. \A i \in 1..Len(p) : w[i + 2] = b[i]
    <3> TAKE i \in 1..Len(p)
    <3> QED  BY <2>2, <2>3
  <2>7. Len(a) + Len(b) = Len(p) + 2  BY <1>1, <1>4, <1>5
  <2> QED  BY <1>4, <2>1, <2>5, <2>6, <2>7
<1> HIDE DEF w
<1>8. \A i \in 1..Len(w) : \/ i = 1 \/ i = 2
                           \/ i - 2 \in 1..Len(p) /\ (i - 2) + 2 = i
  BY <1>1, <1>7
<1>9. \A i \in 1..Len(p) : i + 2 \in 1..Len(w) /\ w[i + 2].kind = "update" /\ w[i + 2].of = p[i]
  BY <1>1, <1>5, <1>7
<1>10. \A i \in 1..Len(w) : w[i].kind = "update" => i - 2 \in 1..Len(p) /\ w[i].of = p[i - 2]
  BY <1>6, <1>7, <1>8, <1>9
<1>11. 1 \in 1..Len(w) /\ 2 \in 1..Len(w)  BY <1>1, <1>7
<1>12. Opens(w)  BY <1>6, <1>7, <1>11 DEF Opens
<1>13. \A i \in 1..Len(w) : w[i].kind = "snapshot" => i = 2  BY <1>6, <1>7, <1>8, <1>9
<1>14. SnapshotFirst(w)
  <2>1. \A j \in 1..2 - 1 : j = 1
    OBVIOUS
  <2> QED  BY <1>6, <1>7, <1>13, <2>1 DEF SnapshotFirst
<1>15. ASSUME NEW f  PROVE Tells(w, f) <=> Mentions(p, f)
  <2>1. Tells(w, f) => Mentions(p, f)  BY <1>10 DEF Tells, Mentions
  <2>2. Mentions(p, f) => Tells(w, f)  BY <1>9 DEF Tells, Mentions
  <2> QED  BY <2>1, <2>2
<1>16. ASSUME NEW f, NEW v, Ends(p, f, v)  PROVE TellsLast(w, f, v)
  <2>1. ASSUME NEW i \in 1..Len(w), w[i].kind = "update", w[i].of[1] = f,
               \A j \in i + 1..Len(w) : ~(w[j].kind = "update" /\ w[j].of[1] = f)
        PROVE  w[i].of[2] = v
    <3>1. i - 2 \in 1..Len(p) /\ w[i].of = p[i - 2]  BY <1>10, <2>1
    <3>2. \A j \in (i - 2) + 1..Len(p) : p[j][1] # f
      <4> TAKE j \in (i - 2) + 1..Len(p)
      <4>1. j \in 1..Len(p) /\ j + 2 \in i + 1..Len(w)  BY <1>1, <1>7, <3>1
      <4> QED  BY <1>9, <2>1, <4>1
    <3> QED  BY <1>16, <2>1, <3>1, <3>2 DEF Ends
  <2> QED  BY <2>1 DEF TellsLast
<1>17. ASSUME NEW f, NEW v, \A u \in files : u[1] = f => u[2] = v  PROVE Shots(w, f, v)
  BY <1>6, <1>7, <1>13, <1>17 DEF Shots
<1> QED  BY <1>7, <1>12, <1>14, <1>15, <1>16, <1>17 DEF w, a, b, open, shot
-------------------------------------------------------------------------------
(* Types.                                                                       *)

LEMMA TheUpdates == \A u \in Updates : u[1] \in Files /\ u[2] \in Versions /\ u = <<u[1], u[2]>>
BY DEF Updates

LEMMA TheVersions == /\ MaxVersion \in Nat /\ Versions \subseteq Nat /\ 0 \in Versions
                     /\ Unloaded \notin Versions
BY LiveAssumption DEF Versions, Unloaded

LEMMA PatchedTypes ==
  ASSUME NEW list \in [Files -> Versions \union {Unloaded}], NEW updates \in SUBSET Updates
  PROVE  /\ Patched(list, updates) \in [Files -> Versions \union {Unloaded}]
         /\ \A f \in Files : /\ list[f] # Unloaded => Patched(list, updates)[f] # Unloaded
                             /\ (\A u \in updates : u[1] # f) => Patched(list, updates)[f] = list[f]
<1>1. ASSUME NEW f \in Files, \E u \in updates : u[1] = f
      PROVE  LET u == CHOOSE u \in updates : u[1] = f IN u \in updates /\ u[1] = f /\ u[2] \in Versions
  BY <1>1, TheUpdates
<1>2. \A f \in Files : Patched(list, updates)[f] \in Versions \union {Unloaded}
  BY <1>1 DEF Patched
<1>3. Patched(list, updates) \in [Files -> Versions \union {Unloaded}]
  BY <1>2 DEF Patched
<1>4. \A f \in Files : list[f] # Unloaded => Patched(list, updates)[f] # Unloaded
  BY <1>1, TheVersions DEF Patched
<1>5. \A f \in Files : (\A u \in updates : u[1] # f) => Patched(list, updates)[f] = list[f]
  BY DEF Patched
<1> QED  BY <1>3, <1>4, <1>5

LEMMA PatchedTo ==
  ASSUME NEW list \in [Files -> Versions \union {Unloaded}], NEW updates \in SUBSET Updates,
         NEW f \in Files, NEW v, list[f] # Unloaded,
         \E u \in updates : u[1] = f, \A u \in updates : u[1] = f => u[2] = v
  PROVE  Patched(list, updates)[f] = v
<1>1. LET u == CHOOSE u \in updates : u[1] = f IN u \in updates /\ u[1] = f /\ u[2] = v  OBVIOUS
<1> QED  BY <1>1 DEF Patched

LEMMA InvalidatedTypes ==
  ASSUME TypeOK
  PROVE  /\ Invalidated \in [step : {"none", "asked", "answered"}, rows : [Files -> Versions \union {Unloaded}]]
         /\ Invalidated = fetch \/ Invalidated.step = "asked"
         /\ fetch.step = "none" => Invalidated.step = "asked"
BY DEF TypeOK, Invalidated, NoFetch

LEMMA ServiceTypes ==
  ASSUME TypeOK,
         \/ \E f \in Files : ApplyStageChange(f) \/ ReportProgress(f)
         \/ \E u \in Updates : PublishUpdated(u) \/ PublicationLost(u)
  PROVE  TypeOK'
<1> USE TheUpdates, TheVersions
<1>1. ASSUME NEW f \in Files, ApplyStageChange(f)  PROVE TypeOK'
  <2>1. row[f] + 1 \in Versions  BY <1>1 DEF ApplyStageChange, TypeOK, Versions
  <2>2. row' \in [Files -> Versions] /\ \A g \in Files : row[g] <= row'[g]
    BY <1>1, <2>1 DEF ApplyStageChange, TypeOK, Versions
  <2>3. unsent' \subseteq Updates  BY <1>1, <2>1 DEF ApplyStageChange, TypeOK, Updates
  <2>4. \A u \in unsent' : u[2] <= row'[u[1]]
    <3> TAKE u \in unsent'
    <3>1. CASE u \in unsent
      <4>1. u[1] \in Files /\ u[2] \in Nat /\ u[2] <= row[u[1]]  BY <3>1 DEF TypeOK
      <4>2. row[u[1]] \in Nat /\ row'[u[1]] \in Nat /\ row[u[1]] <= row'[u[1]]  BY <2>2, <4>1 DEF TypeOK
      <4> QED  BY <4>1, <4>2
    <3>2. CASE u = <<f, row[f] + 1>>
      <4>1. u[1] = f /\ u[2] = row[f] + 1  BY <3>2
      <4>2. row'[f] = row[f] + 1 /\ row[f] + 1 \in Nat  BY <1>1, <2>1 DEF ApplyStageChange, TypeOK
      <4> QED  BY <4>1, <4>2
    <3> QED  BY <1>1, <3>1, <3>2 DEF ApplyStageChange
  <2> QED  BY <1>1, <2>2, <2>3, <2>4 DEF ApplyStageChange, TypeOK, gateway, tab, ghosts
<1>2. ASSUME NEW f \in Files, ReportProgress(f)  PROVE TypeOK'
  <2>1. row[f] \in Versions /\ row[f] \in Nat  BY DEF TypeOK
  <2>2. <<f, row[f]>> \in Updates /\ <<f, row[f]>>[2] <= row[<<f, row[f]>>[1]]  BY <2>1 DEF Updates
  <2>3. unsent' = unsent \union {<<f, row[f]>>}  BY <1>2 DEF ReportProgress
  <2>4. unsent' \subseteq Updates /\ \A u \in unsent' : u[2] <= row[u[1]]
    BY <2>2, <2>3 DEF TypeOK
  <2> QED  BY <1>2, <2>4 DEF ReportProgress, TypeOK, gateway, tab, ghosts
<1>3. ASSUME NEW u \in Updates, PublishUpdated(u)  PROVE TypeOK'
  <2>1. sent' \in [Files -> Versions \union {Unloaded}]  BY <1>3 DEF PublishUpdated, TypeOK
  <2>2. unsaid' \subseteq Files  BY <1>3 DEF PublishUpdated, TypeOK
  <2>3. queue' \in Seq(Updates)
    <3>1. Append(queue, u) \in Seq(Updates)  BY Appended DEF TypeOK
    <3> QED  BY <1>3, <3>1 DEF PublishUpdated, TypeOK
  <2> QED  BY <1>3, <2>1, <2>2, <2>3 DEF PublishUpdated, TypeOK, tab
<1>4. ASSUME NEW u \in Updates, PublicationLost(u)  PROVE TypeOK'
  BY <1>4 DEF PublicationLost, TypeOK, gateway, tab
<1> QED  BY <1>1, <1>2, <1>3, <1>4

LEMMA UpdateTyped == \A u \in Updates : [kind |-> "update", of |-> u] \in Messages
BY DEF Messages

LEMMA HeadsAreTyped ==
  ASSUME TypeOK
  PROVE  /\ queue # <<>> => Head(queue) \in Updates /\ Tail(queue) \in Seq(Updates)
         /\ wire # <<>> => Head(wire) \in Messages /\ Tail(wire) \in Seq(Messages)
         /\ wire # <<>> /\ Head(wire).kind = "update" => Head(wire).of \in Updates
         /\ wire # <<>> /\ Head(wire).kind = "snapshot" => Head(wire).files \in SUBSET Updates
<1>1. queue # <<>> => Head(queue) \in Updates /\ Tail(queue) \in Seq(Updates)  BY Shortened DEF TypeOK
<1>2. wire # <<>> => Head(wire) \in Messages /\ Tail(wire) \in Seq(Messages)  BY Shortened DEF TypeOK
<1>3. \A m \in Messages : /\ m.kind = "update" => m.of \in Updates
                          /\ m.kind = "snapshot" => m.files \in SUBSET Updates
  BY DEF Messages
<1> QED  BY <1>1, <1>2, <1>3

LEMMA SnapshotTypes ==
  ASSUME TypeOK
  PROVE  LET active == {<<f, row[f]>> : f \in {g \in Files : row[g] \notin Terminal}} IN
         active \subseteq Updates /\ Functional(active) /\ \A u \in active : u[2] = row[u[1]]
<1> DEFINE active == {<<f, row[f]>> : f \in {g \in Files : row[g] \notin Terminal}}
<1>1. \A u \in active : u[1] \in Files /\ u = <<u[1], row[u[1]]>> /\ u[2] = row[u[1]]
  OBVIOUS
<1>2. \A f \in Files : <<f, row[f]>> \in Updates  BY DEF TypeOK, Updates
<1> HIDE DEF active
<1>3. active \subseteq Updates  BY <1>1, <1>2
<1>4. Functional(active)  BY <1>1 DEF Functional
<1> QED  BY <1>1, <1>3, <1>4 DEF active

LEMMA GatewayTypes ==
  ASSUME TypeOK, InOrder, BrokerLost \/ BrokerBack \/ Deliver \/ Listen \/ ActiveFiles \/ GoLive \/ StreamLost
  PROVE  TypeOK'
<1> USE TheUpdates, HeadsAreTyped
<1>0. <<>> \in Seq(Updates) /\ <<>> \in Seq(Messages)
  OBVIOUS
<1>1. CASE BrokerLost
  <2>1. {queue[i][1] : i \in DOMAIN queue} \subseteq Files  BY DEF TypeOK
  <2> QED  BY <1>0, <1>1, <2>1 DEF BrokerLost, TypeOK, service, tab
<1>2. CASE BrokerBack  BY <1>2 DEF BrokerBack, TypeOK, service, tab, ghosts
<1>3. CASE Deliver
  <2>1. Head(queue) \in Updates /\ Tail(queue) \in Seq(Updates)  BY <1>3 DEF Deliver
  <2>2. pending' \in Seq(Updates)
    <3>1. Append(pending, Head(queue)) \in Seq(Updates)  BY <2>1, Appended DEF TypeOK
    <3> QED  BY <1>3, <3>1 DEF Deliver, TypeOK
  <2>3. wire' \in Seq(Messages)
    <3>1. [kind |-> "update", of |-> Head(queue)] \in Messages  BY <2>1, UpdateTyped
    <3>2. Append(wire, [kind |-> "update", of |-> Head(queue)]) \in Seq(Messages)  BY <3>1, Appended DEF TypeOK
    <3> QED  BY <1>3, <3>2 DEF Deliver, TypeOK
  <2>4. missed' \subseteq Files  BY <1>3, <2>1 DEF Deliver, TypeOK
  <2>5. pending' # <<>> => stream' \in {"listening", "read"}  BY <1>3 DEF Deliver, TypeOK
  <2> QED  BY <1>3, <2>1, <2>2, <2>3, <2>4, <2>5 DEF Deliver, TypeOK, service, tab
<1>4. CASE Listen  BY <1>4 DEF Listen, TypeOK, service, tab, ghosts
<1>5. CASE ActiveFiles
  BY <1>5, SnapshotTypes DEF ActiveFiles, TypeOK, service, tab, ghosts
<1>6. CASE GoLive
  <2>1. wire' \in Seq(Messages)
    <3>1. wire = <<>>  BY <1>6 DEF GoLive, InOrder
    <3>2. pending \in Seq(Updates) /\ read \in SUBSET Updates /\ Functional(read)  BY DEF TypeOK, InOrder
    <3> QED  BY <1>6, <3>1, <3>2, WireOpened DEF GoLive
  <2> QED  BY <1>0, <1>6, <2>1 DEF GoLive, TypeOK, service, tab, ghosts
<1>7. CASE StreamLost
  <2>1. missed' \subseteq Files
    <3>1. {pending[i][1] : i \in DOMAIN pending} \subseteq Files  BY DEF TypeOK
    <3>2. \A i \in DOMAIN wire : wire[i] \in Messages  BY DEF TypeOK
    <3>3. \A m \in Messages : m.kind = "update" => m.of \in Updates  BY DEF Messages
    <3>4. {m.of[1] : m \in {wire[i] : i \in {j \in DOMAIN wire : wire[j].kind = "update"}}} \subseteq Files
      BY <3>2, <3>3
    <3> QED  BY <1>7, <3>1, <3>4 DEF StreamLost, TypeOK
  <2> QED  BY <1>0, <1>7, <2>1 DEF StreamLost, TypeOK, service, tab
<1> QED  BY <1>1, <1>2, <1>3, <1>4, <1>5, <1>6, <1>7

LEMMA TabTypes ==
  ASSUME TypeOK, OnOpen \/ OnSnapshot \/ OnUpdate \/ ListFiles \/ ShowFiles \/ Remount
  PROVE  TypeOK'
<1> USE TheUpdates, TheVersions, HeadsAreTyped, InvalidatedTypes
<1>0. <<>> \in Seq(Updates) /\ <<>> \in Seq(Messages)
  OBVIOUS
<1>1. CASE OnOpen
  <2>1. fetch' \in [step : {"none", "asked", "answered"}, rows : [Files -> Versions \union {Unloaded}]]
    BY <1>1 DEF OnOpen, Refetch, Patch, TypeOK
  <2>2. missed' \subseteq Files  BY <1>1 DEF OnOpen, Refetch, Patch, TypeOK
  <2> QED  BY <1>1, <2>1, <2>2 DEF OnOpen, TypeOK, service, gateway
<1>2. CASE OnSnapshot
  <2>1. listed' \in [Files -> Versions \union {Unloaded}]  BY <1>2, PatchedTypes DEF OnSnapshot, TypeOK
  <2>2. missed' \subseteq Files /\ fetch' = fetch  BY <1>2 DEF OnSnapshot, Patch, TypeOK
  <2> QED  BY <1>2, <2>1, <2>2 DEF OnSnapshot, TypeOK, service, gateway
<1>3. CASE OnUpdate
  <2>1. Head(wire).of \in Updates  BY <1>3 DEF OnUpdate
  <2>2. {Head(wire).of} \in SUBSET Updates  BY <2>1
  <2>3. listed' \in [Files -> Versions \union {Unloaded}]  BY <1>3, <2>2, PatchedTypes DEF OnUpdate, TypeOK
  <2>4. fetch' \in [step : {"none", "asked", "answered"}, rows : [Files -> Versions \union {Unloaded}]]
    BY <1>3 DEF OnUpdate, Refetch, Patch, TypeOK
  <2>5. missed' \subseteq Files  BY <1>3, <2>1 DEF OnUpdate, Refetch, Patch, TypeOK
  <2> QED  BY <1>3, <2>3, <2>4, <2>5 DEF OnUpdate, TypeOK, service, gateway
<1>4. CASE ListFiles
  <2>1. fetch' \in [step : {"none", "asked", "answered"}, rows : [Files -> Versions \union {Unloaded}]]
    BY <1>4 DEF ListFiles, TypeOK
  <2> QED  BY <1>4, <2>1 DEF ListFiles, TypeOK, service, gateway
<1>5. CASE ShowFiles
  <2>1. fetch' \in [step : {"none", "asked", "answered"}, rows : [Files -> Versions \union {Unloaded}]]
    BY <1>5 DEF ShowFiles, NoFetch
  <2> QED  BY <1>5, <2>1 DEF ShowFiles, TypeOK, service, gateway, ghosts
<1>6. CASE Remount
  <2>1. fetch' \in [step : {"none", "asked", "answered"}, rows : [Files -> Versions \union {Unloaded}]]
    BY <1>6 DEF Remount, Refetch, TypeOK
  <2>2. missed' \subseteq Files  BY <1>6 DEF Remount, Refetch, TypeOK
  <2> QED  BY <1>0, <1>6, <2>1, <2>2 DEF Remount, TypeOK, service
<1> QED  BY <1>1, <1>2, <1>3, <1>4, <1>5, <1>6
-------------------------------------------------------------------------------
(* upload-manager: who writes will say so, and what is said late is unsaid.     *)

LEMMA ApplyStageChangeKeeps ==
  ASSUME LiveInv, NEW f \in Files, ApplyStageChange(f)
  PROVE  LiveInv'
<1>1. TypeOK'  BY ServiceTypes DEF LiveInv
<1>2. InOrder' /\ ListIsWhole'
  BY DEF ApplyStageChange, LiveInv, InOrder, ListIsWhole, gateway, tab
<1>3. ASSUME NEW g \in Files  PROVE (Said(g) /\ LastIsRight(g) /\ WillKnow(g))'
  <2>1. CASE g = f
    <3>1. row'[f] = row[f] + 1  BY DEF ApplyStageChange, LiveInv, TypeOK
    <3>2. <<f, row'[f]>> \in unsent'  BY <3>1 DEF ApplyStageChange
    <3>3. sent'[f] <= row'[f]
      <4>1. sent[f] <= row[f] /\ row[f] \in Nat /\ (sent[f] \in Nat \/ sent[f] = -1) /\ sent' = sent
        BY TheVersions DEF ApplyStageChange, LiveInv, Said, TypeOK, Unloaded
      <4> QED  BY <3>1, <4>1
    <3> QED  BY <2>1, <3>2, <3>3 DEF Said, LastIsRight, WillKnow
  <2>2. CASE g # f
    <3>1. row'[g] = row[g]  BY <2>2 DEF ApplyStageChange, LiveInv, TypeOK
    <3>2. <<g, row[g]>> \in unsent' <=> <<g, row[g]>> \in unsent  BY <2>2 DEF ApplyStageChange
    <3>3. Said(g) /\ LastIsRight(g) /\ WillKnow(g)  BY DEF LiveInv
    <3>4. UNCHANGED <<queue, pending, wire, read, fetch, listed, opened, stream, sent, unsaid, missed>>
      BY DEF ApplyStageChange, gateway, tab, ghosts
    <3> QED  BY <3>1, <3>2, <3>3, <3>4 DEF Said, LastIsRight, WillKnow, Settled
  <2> QED  BY <2>1, <2>2
<1> QED  BY <1>1, <1>2, <1>3 DEF LiveInv

LEMMA ReportProgressKeeps ==
  ASSUME LiveInv, NEW f \in Files, ReportProgress(f)
  PROVE  LiveInv'
<1>1. TypeOK'  BY ServiceTypes DEF LiveInv
<1>2. InOrder' /\ ListIsWhole'
  BY DEF ReportProgress, LiveInv, InOrder, ListIsWhole, gateway, tab
<1>3. ASSUME NEW g \in Files  PROVE (Said(g) /\ LastIsRight(g) /\ WillKnow(g))'
  <2>1. Said(g) /\ LastIsRight(g) /\ WillKnow(g)  BY DEF LiveInv
  <2>2. <<g, row[g]>> \in unsent => <<g, row[g]>> \in unsent'  BY DEF ReportProgress
  <2>3. UNCHANGED <<row, queue, pending, wire, read, fetch, listed, opened, stream, sent, unsaid, missed>>
    BY DEF ReportProgress, gateway, tab, ghosts
  <2> QED  BY <2>1, <2>2, <2>3 DEF Said, LastIsRight, WillKnow, Settled
<1> QED  BY <1>1, <1>2, <1>3 DEF LiveInv

LEMMA PublishUpdatedKeeps ==
  ASSUME LiveInv, NEW u \in Updates, PublishUpdated(u)
  PROVE  LiveInv'
<1>1. TypeOK'  BY ServiceTypes DEF LiveInv
<1>2. InOrder' /\ ListIsWhole'
  BY DEF PublishUpdated, LiveInv, InOrder, ListIsWhole, tab
<1>3. UNCHANGED <<row, pending, wire, read, fetch, listed, opened, stream, missed>>
  BY DEF PublishUpdated, tab
<1>4. u[1] \in Files /\ u[2] \in Versions /\ u = <<u[1], u[2]>> /\ u[2] <= row[u[1]] /\ u[2] \in Nat
  BY TheUpdates, TheVersions DEF PublishUpdated, LiveInv, TypeOK
<1>5. queue \in Seq(Updates) /\ row \in [Files -> Versions] /\ sent \in [Files -> Versions \union {Unloaded}]
  BY DEF LiveInv, TypeOK
<1>6. ASSUME NEW g \in Files, g # u[1]  PROVE (Said(g) /\ LastIsRight(g) /\ WillKnow(g))'
  <2>1. Said(g) /\ LastIsRight(g) /\ WillKnow(g)  BY DEF LiveInv
  <2>2. /\ <<g, row[g]>> \in unsent' <=> <<g, row[g]>> \in unsent
        /\ g \in unsaid' <=> g \in unsaid
        /\ sent'[g] = sent[g]
    BY <1>4, <1>5, <1>6 DEF PublishUpdated
  <2>3. Mentions(queue', g) <=> Mentions(queue, g)
    BY <1>5, <1>6, AppendMentions DEF PublishUpdated
  <2>4. Ends(queue, g, row[g]) => Ends(queue', g, row[g])
    BY <1>5, <1>6, AppendEnds DEF PublishUpdated
  <2> QED  BY <1>3, <2>1, <2>2, <2>3, <2>4 DEF Said, LastIsRight, WillKnow, Settled
<1>7. ASSUME u[1] \notin unsaid'
      PROVE  (Said(u[1]) /\ LastIsRight(u[1]) /\ WillKnow(u[1]))'
  <2> DEFINE f == u[1]
  <2>1. bound /\ ~(u[2] < sent[f])
    <3>1. row[f] \in Nat /\ sent[f] <= row[f] /\ (sent[f] \in Nat \/ sent[f] = -1)
      BY <1>4, <1>5, TheVersions DEF LiveInv, Said, Unloaded
    <3>2. CASE ~bound \/ u[2] < sent[f]
      <4>1. ~(bound /\ u[2] = row[f])  BY <1>4, <3>1, <3>2
      <4>2. unsaid' = unsaid \union {f}  BY <3>2, <4>1 DEF PublishUpdated
      <4> QED  BY <1>7, <4>2
    <3> QED  BY <3>2
  <2>2. queue' = Append(queue, u)  BY <2>1 DEF PublishUpdated
  <2>3. Mentions(queue', f)  BY <1>5, <2>2, AppendMentions
  <2>4. CASE u[2] = row[f]
    <3>1. sent'[f] = row[f]
      <4>1. sent[f] \in Nat \/ sent[f] = -1  BY <1>4, <1>5, TheVersions DEF Unloaded
      <4> QED  BY <1>4, <1>5, <2>1, <2>4, <4>1 DEF PublishUpdated
    <3>2. Ends(queue', f, row[f])  BY <1>4, <1>5, <2>2, <2>4, AppendEnds
    <3> QED  BY <1>3, <1>4, <2>3, <2>4, <3>1, <3>2 DEF Said, LastIsRight, WillKnow
  <2>5. CASE u[2] # row[f]
    <3>1. f \notin unsaid  BY <1>4, <1>7, <2>1, <2>5 DEF PublishUpdated
    <3>2. row[f] # 0 /\ sent[f] # row[f]
      <4>1. row[f] \in Nat  BY <1>4, <1>5, TheVersions
      <4> QED  BY <1>4, <2>1, <2>5, <4>1
    <3>3. <<f, row[f]>> \in unsent  BY <1>4, <3>1, <3>2 DEF LiveInv, Said
    <3>4. <<f, row[f]>> \in unsent'
      <4>1. <<f, row[f]>> # u  BY <1>4, <2>5
      <4> QED  BY <3>3, <4>1 DEF PublishUpdated
    <3>5. sent'[f] <= row[f]
      <4>1. sent'[f] \in {u[2], sent[f]}  BY <1>4, <1>5 DEF PublishUpdated
      <4>2. sent[f] <= row[f]  BY <1>4 DEF LiveInv, Said
      <4> QED  BY <1>4, <4>1, <4>2
    <3> QED  BY <1>3, <3>4, <3>5 DEF Said, LastIsRight, WillKnow
  <2> QED  BY <2>4, <2>5
<1>8. ASSUME NEW g \in Files  PROVE (Said(g) /\ LastIsRight(g) /\ WillKnow(g))'
  <2>1. CASE g \in unsaid' /\ g = u[1]
    <3>1. sent'[g] \in {u[2], sent[g]}  BY <1>4, <1>5, <2>1 DEF PublishUpdated
    <3>2. sent[g] <= row[g]  BY DEF LiveInv, Said
    <3> QED  BY <1>3, <1>4, <2>1, <3>1, <3>2 DEF Said, LastIsRight, WillKnow
  <2>2. CASE g \notin unsaid' /\ g = u[1]  BY <1>7, <2>2
  <2>3. CASE g # u[1]  BY <1>6, <2>3
  <2> QED  BY <2>1, <2>2, <2>3
<1> QED  BY <1>1, <1>2, <1>8 DEF LiveInv

LEMMA PublicationLostKeeps ==
  ASSUME LiveInv, NEW u \in Updates, PublicationLost(u)
  PROVE  LiveInv'
<1>1. TypeOK'  BY ServiceTypes DEF LiveInv
<1>2. InOrder' /\ ListIsWhole'
  BY DEF PublicationLost, LiveInv, InOrder, ListIsWhole, gateway, tab
<1>3. ASSUME NEW g \in Files  PROVE (Said(g) /\ LastIsRight(g) /\ WillKnow(g))'
  <2>1. CASE g = u[1]  BY <2>1 DEF PublicationLost, LiveInv, Said, LastIsRight, WillKnow
  <2>2. CASE g # u[1]
    <3>1. Said(g) /\ LastIsRight(g) /\ WillKnow(g)  BY DEF LiveInv
    <3>2. <<g, row[g]>> \in unsent' <=> <<g, row[g]>> \in unsent
      <4>1. u # <<g, row[g]>>  BY <2>2
      <4> QED  BY <4>1 DEF PublicationLost
    <3>3. g \in unsaid' <=> g \in unsaid  BY <2>2 DEF PublicationLost
    <3>4. UNCHANGED <<row, queue, pending, wire, read, fetch, listed, opened, stream, sent, missed>>
      BY DEF PublicationLost, gateway, tab
    <3> QED  BY <3>1, <3>2, <3>3, <3>4 DEF Said, LastIsRight, WillKnow, Settled
  <2> QED  BY <2>1, <2>2
<1> QED  BY <1>1, <1>2, <1>3 DEF LiveInv
-------------------------------------------------------------------------------
(* The gateway: what it passes on keeps its order, and what it drops is missed. *)

LEMMA BrokerLostKeeps ==
  ASSUME LiveInv, BrokerLost
  PROVE  LiveInv'
<1>1. TypeOK'  BY GatewayTypes DEF LiveInv
<1>2. InOrder' /\ ListIsWhole'
  BY DEF BrokerLost, LiveInv, InOrder, ListIsWhole, tab
<1>3. UNCHANGED <<row, unsent, sent, pending, wire, read, fetch, listed, opened, stream, missed>>
  BY DEF BrokerLost, service, tab
<1>4. queue' = <<>>  BY DEF BrokerLost
<1>5. ASSUME NEW g \in Files  PROVE (Said(g) /\ LastIsRight(g) /\ WillKnow(g))'
  <2>1. Said(g) /\ LastIsRight(g) /\ WillKnow(g)  BY DEF LiveInv
  <2>2. ~Mentions(queue', g) /\ Ends(queue', g, row[g])  BY <1>4, EmptyQueue
  <2>3. g \notin unsaid' => g \notin unsaid /\ ~Mentions(queue, g)
    <3>1. queue \in Seq(Updates) /\ DOMAIN queue = 1..Len(queue)  BY DEF LiveInv, TypeOK
    <3> QED  BY <3>1 DEF BrokerLost, Mentions
  <2> QED  BY <1>3, <2>1, <2>2, <2>3 DEF Said, LastIsRight, WillKnow, Settled
<1> QED  BY <1>1, <1>2, <1>5 DEF LiveInv

LEMMA BrokerBackKeeps ==
  ASSUME LiveInv, BrokerBack
  PROVE  LiveInv'
<1>1. TypeOK'  BY GatewayTypes DEF LiveInv
<1>2. InOrder' /\ ListIsWhole'
  BY DEF BrokerBack, LiveInv, InOrder, ListIsWhole, tab
<1>3. UNCHANGED <<service, queue, stream, read, pending, wire, tab, ghosts>>  BY DEF BrokerBack
<1>4. ASSUME NEW g \in Files  PROVE (Said(g) /\ LastIsRight(g) /\ WillKnow(g))'
  <2>1. Said(g) /\ LastIsRight(g) /\ WillKnow(g)  BY DEF LiveInv
  <2> QED  BY <1>3, <2>1 DEF Said, LastIsRight, WillKnow, Settled, service, tab, ghosts
<1> QED  BY <1>1, <1>2, <1>4 DEF LiveInv

LEMMA DeliverKeeps ==
  ASSUME LiveInv, Deliver
  PROVE  LiveInv'
<1>1. TypeOK'  BY GatewayTypes DEF LiveInv
<1> DEFINE u == Head(queue)
<1>2. /\ queue \in Seq(Updates) /\ queue # <<>> /\ u \in Updates /\ queue' = Tail(queue)
      /\ pending \in Seq(Updates) /\ wire \in Seq(Messages) /\ Update(u) \in Messages
  BY HeadsAreTyped, UpdateTyped DEF Deliver, LiveInv, TypeOK, Update
<1>3. UNCHANGED <<row, unsent, sent, stream, read, fetch, listed, opened, unsaid>>
  BY DEF Deliver, service, tab
<1>4. \/ /\ stream \in {"listening", "read"} /\ pending' = Append(pending, u)
         /\ wire' = wire /\ missed' = missed
      \/ /\ stream = "live" /\ pending' = pending
         /\ wire' = Append(wire, Update(u)) /\ missed' = missed
      \/ /\ stream = "closed" /\ pending' = pending /\ wire' = wire
         /\ missed' = IF opened THEN missed ELSE missed \union {u[1]}
  BY DEF Deliver, LiveInv, TypeOK, Update
<1>5. /\ stream # "live" => wire = <<>>
      /\ stream \notin {"listening", "read"} => pending = <<>>
      /\ stream # "read" => read = {}
      /\ Functional(read) /\ SnapshotFirst(wire)
  BY DEF LiveInv, InOrder, TypeOK
<1> HIDE DEF u
<1>6. SnapshotFirst(wire')  BY <1>2, <1>4, <1>5, WireAppended
<1>7. InOrder' /\ ListIsWhole'
  BY <1>3, <1>4, <1>5, <1>6 DEF LiveInv, InOrder, ListIsWhole
<1>8. ASSUME NEW g \in Files  PROVE (Said(g) /\ LastIsRight(g) /\ WillKnow(g))'
  <2>1. Said(g) /\ LastIsRight(g) /\ WillKnow(g)  BY DEF LiveInv
  <2>2. Mentions(queue, g) <=> u[1] = g \/ Mentions(queue', g)  BY <1>2, TailMentions DEF u
  <2>3. Ends(queue, g, row[g]) => Ends(queue', g, row[g])
                                  /\ (u[1] = g /\ ~Mentions(queue', g) => u[2] = row[g])
    BY <1>2, TailEnds DEF u
  <2>4. Said(g)'  BY <1>3, <2>1 DEF Said
  <2>5. CASE stream \in {"listening", "read"}
    <3>1. pending' = Append(pending, u) /\ wire' = wire /\ missed' = missed /\ wire = <<>>  BY <1>4, <1>5, <2>5
    <3>2. Mentions(pending', g) <=> Mentions(pending, g) \/ u[1] = g  BY <1>2, <3>1, AppendMentions
    <3>3. (u[1] = g => u[2] = row[g]) /\ (u[1] # g => Ends(pending, g, row[g])) => Ends(pending', g, row[g])
      BY <1>2, <3>1, AppendEnds
    <3>4. LastIsRight(g)'  BY <1>3, <2>1, <2>2, <2>3, <3>1, <3>2, <3>3 DEF LastIsRight
    <3>5. WillKnow(g)'  BY <1>3, <2>1, <2>2, <3>1, <3>2 DEF WillKnow, Settled
    <3> QED  BY <2>4, <3>4, <3>5
  <2>6. CASE stream = "live"
    <3>1. pending' = pending /\ pending = <<>> /\ wire' = Append(wire, Update(u)) /\ missed' = missed
      BY <1>4, <1>5, <2>6
    <3>2. ~Mentions(pending, g) /\ Ends(pending, g, row[g]) /\ read = {}  BY <1>5, <2>6, <3>1, EmptyQueue
    <3>3. /\ Tells(wire', g) <=> Tells(wire, g) \/ u[1] = g
          /\ (u[1] = g => u[2] = row[g]) /\ (u[1] # g => TellsLast(wire, g, row[g])) => TellsLast(wire', g, row[g])
          /\ Shots(wire, g, row[g]) => Shots(wire', g, row[g])
          /\ Opens(wire) => Opens(wire')
      BY <1>2, <3>1, WireAppended
    <3>4. LastIsRight(g)'  BY <1>3, <2>1, <2>2, <2>3, <3>1, <3>2, <3>3 DEF LastIsRight
    <3>5. WillKnow(g)'  BY <1>3, <2>1, <2>2, <3>1, <3>2, <3>3 DEF WillKnow, Settled
    <3> QED  BY <2>4, <3>4, <3>5
  <2>7. CASE stream = "closed"
    <3>1. /\ pending' = <<>> /\ pending = <<>> /\ wire' = <<>> /\ wire = <<>> /\ read = {}
          /\ missed' = IF opened THEN missed ELSE missed \union {u[1]}
      BY <1>4, <1>5, <2>7
    <3>2. LastIsRight(g)'  BY <1>3, <2>1, <2>3, <3>1, EmptyQueue DEF LastIsRight
    <3>3. WillKnow(g)'
      <4>1. CASE opened  BY <1>3, <2>7, <4>1 DEF WillKnow, Settled
      <4>2. CASE ~opened  BY <1>3, <2>1, <2>2, <3>1, <4>2 DEF WillKnow, Settled
      <4> QED  BY <4>1, <4>2
    <3> QED  BY <2>4, <3>2, <3>3
  <2> QED  BY <1>4, <2>5, <2>6, <2>7
<1> QED  BY <1>1, <1>7, <1>8 DEF LiveInv

LEMMA ListenKeeps ==
  ASSUME LiveInv, Listen
  PROVE  LiveInv'
<1>1. TypeOK'  BY GatewayTypes DEF LiveInv
<1>2. /\ UNCHANGED <<row, unsent, sent, queue, pending, wire, read, fetch, listed, opened, missed, unsaid>>
      /\ stream = "closed" /\ stream' = "listening"
  BY DEF Listen, service, tab, ghosts
<1>3. InOrder' /\ ListIsWhole'  BY <1>2 DEF LiveInv, InOrder, ListIsWhole
<1>4. ASSUME NEW g \in Files  PROVE (Said(g) /\ LastIsRight(g) /\ WillKnow(g))'
  <2>1. Said(g) /\ LastIsRight(g) /\ WillKnow(g)  BY DEF LiveInv
  <2> QED  BY <1>2, <2>1 DEF Said, LastIsRight, WillKnow, Settled
<1> QED  BY <1>1, <1>3, <1>4 DEF LiveInv

LEMMA ActiveFilesKeeps ==
  ASSUME LiveInv, ActiveFiles
  PROVE  LiveInv'
<1>1. TypeOK'  BY GatewayTypes DEF LiveInv
<1>2. /\ UNCHANGED <<row, unsent, sent, queue, pending, wire, fetch, listed, opened, missed, unsaid>>
      /\ stream = "listening" /\ stream' = "read" /\ wire = <<>>
  BY DEF ActiveFiles, LiveInv, InOrder, service, tab, ghosts
<1>3. Functional(read') /\ \A u \in read' : u[2] = row[u[1]]
  BY SnapshotTypes DEF ActiveFiles, LiveInv
<1>4. InOrder' /\ ListIsWhole'  BY <1>2, <1>3 DEF LiveInv, InOrder, ListIsWhole
<1>5. ASSUME NEW g \in Files  PROVE (Said(g) /\ LastIsRight(g) /\ WillKnow(g))'
  <2>1. Said(g) /\ LastIsRight(g) /\ WillKnow(g)  BY DEF LiveInv
  <2> QED  BY <1>2, <1>3, <2>1 DEF Said, LastIsRight, WillKnow, Settled
<1> QED  BY <1>1, <1>4, <1>5 DEF LiveInv

LEMMA GoLiveKeeps ==
  ASSUME LiveInv, GoLive
  PROVE  LiveInv'
<1>1. TypeOK'  BY GatewayTypes DEF LiveInv
<1>2. /\ UNCHANGED <<row, unsent, sent, queue, fetch, listed, opened, missed, unsaid>>
      /\ stream = "read" /\ stream' = "live" /\ wire = <<>> /\ pending' = <<>> /\ read' = {}
  BY DEF GoLive, LiveInv, InOrder, service, tab, ghosts
<1>3. pending \in Seq(Updates) /\ read \in SUBSET Updates /\ Functional(read)  BY DEF LiveInv, TypeOK, InOrder
<1>4. /\ Opens(wire') /\ SnapshotFirst(wire')
      /\ \A f : Tells(wire', f) <=> Mentions(pending, f)
      /\ \A f, v : Ends(pending, f, v) => TellsLast(wire', f, v)
      /\ \A f, v : (\A u \in read : u[1] = f => u[2] = v) => Shots(wire', f, v)
  BY <1>2, <1>3, WireOpened DEF GoLive
<1>5. Functional({})  BY DEF Functional
<1>6. InOrder' /\ ListIsWhole'  BY <1>2, <1>4, <1>5 DEF LiveInv, InOrder, ListIsWhole
<1>7. ASSUME NEW g \in Files  PROVE (Said(g) /\ LastIsRight(g) /\ WillKnow(g))'
  <2>1. Said(g) /\ LastIsRight(g) /\ WillKnow(g)  BY DEF LiveInv
  <2>2. ~Mentions(pending', g) /\ Ends(pending', g, row[g]) /\ ~Tells(wire, g)  BY <1>2, EmptyQueue
  <2>3. Said(g)'  BY <1>2, <2>1 DEF Said
  <2>4. LastIsRight(g)'  BY <1>2, <1>4, <2>1, <2>2 DEF LastIsRight
  <2>5. WillKnow(g)'  BY <1>2, <1>4, <2>1, <2>2 DEF WillKnow, Settled
  <2> QED  BY <2>3, <2>4, <2>5
<1> QED  BY <1>1, <1>6, <1>7 DEF LiveInv

LEMMA StreamLostKeeps ==
  ASSUME LiveInv, StreamLost
  PROVE  LiveInv'
<1>1. TypeOK'  BY GatewayTypes DEF LiveInv
<1>2. /\ UNCHANGED <<row, unsent, sent, queue, fetch, listed, opened, unsaid>>
      /\ stream' = "closed" /\ wire' = <<>> /\ pending' = <<>> /\ read' = {}
  BY DEF StreamLost, service, tab
<1>3. pending \in Seq(Updates) /\ wire \in Seq(Messages)
      /\ DOMAIN pending = 1..Len(pending) /\ DOMAIN wire = 1..Len(wire)
  BY DEF LiveInv, TypeOK
<1>4. Functional({}) /\ SnapshotFirst(<<>>)  BY DEF Functional, SnapshotFirst
<1>5. InOrder' /\ ListIsWhole'  BY <1>2, <1>4 DEF LiveInv, InOrder, ListIsWhole
<1>6. ASSUME NEW g \in Files  PROVE (Said(g) /\ LastIsRight(g) /\ WillKnow(g))'
  <2>1. Said(g) /\ LastIsRight(g) /\ WillKnow(g)  BY DEF LiveInv
  <2>2. Said(g)'  BY <1>2, <2>1 DEF Said
  <2>3. LastIsRight(g)'  BY <1>2, <2>1, EmptyQueue DEF LastIsRight
  <2>4. WillKnow(g)'
    <3>1. CASE opened  BY <1>2, <3>1 DEF WillKnow, Settled
    <3>2. CASE ~opened
      <4>1. Mentions(pending, g) => g \in missed'  BY <1>3, <3>2 DEF StreamLost, Mentions
      <4>2. Tells(wire, g) => g \in missed'
        <5>1. ASSUME NEW i \in DOMAIN wire, wire[i].kind = "update", wire[i].of[1] = g
              PROVE  g \in {m.of[1] : m \in {wire[k] : k \in {j \in DOMAIN wire : wire[j].kind = "update"}}}
          BY <5>1
        <5> QED  BY <1>3, <3>2, <5>1 DEF StreamLost, Tells
      <4>3. missed \subseteq missed'  BY <3>2 DEF StreamLost
      <4> QED  BY <1>2, <2>1, <3>2, <4>1, <4>2, <4>3 DEF WillKnow, Settled
    <3> QED  BY <3>1, <3>2
  <2> QED  BY <2>2, <2>3, <2>4
<1> QED  BY <1>1, <1>5, <1>6 DEF LiveInv
-------------------------------------------------------------------------------
(* The tab: what it is told, it shows, or the list on its way may undo it.      *)

LEMMA WireHead ==
  ASSUME LiveInv, wire # <<>>, wire' = Tail(wire), UNCHANGED <<stream, read>>
  PROVE  /\ stream = "live" /\ pending = <<>> /\ read = {}
         /\ InOrder'
         /\ Head(wire).kind = "snapshot" => Functional(Head(wire).files)
         /\ \A f : ~Mentions(pending, f)
         /\ \A f, v : Ends(pending, f, v)
<1>1. stream = "live" /\ pending = <<>> /\ read = {} /\ SnapshotFirst(wire) /\ wire \in Seq(Messages)
  BY DEF LiveInv, InOrder, TypeOK
<1>2. SnapshotFirst(wire') /\ (Head(wire).kind = "snapshot" => Functional(Head(wire).files))
  BY <1>1, WireShortened
<1>3. InOrder'  BY <1>1, <1>2 DEF LiveInv, InOrder
<1> QED  BY <1>1, <1>2, <1>3, EmptyQueue

LEMMA OnOpenKeeps ==
  ASSUME LiveInv, OnOpen
  PROVE  LiveInv'
<1>1. TypeOK'  BY TabTypes DEF LiveInv
<1>2. /\ wire \in Seq(Messages) /\ wire # <<>> /\ Head(wire).kind = "open" /\ wire' = Tail(wire) /\ opened'
      /\ UNCHANGED <<row, unsent, sent, queue, stream, read, pending, listed, unsaid>>
  BY DEF OnOpen, LiveInv, TypeOK, service, gateway
<1>3. /\ stream = "live" /\ InOrder'  BY <1>2, WireHead
<1>4. \/ fetch' = fetch /\ missed' = missed /\ ~opened
      \/ fetch' = fetch /\ missed' = missed \union Files
      \/ fetch'.step = "asked" /\ missed' = missed
  BY InvalidatedTypes DEF OnOpen, Refetch, Patch, LiveInv
<1>5. ListIsWhole'  BY <1>2, <1>4 DEF LiveInv, ListIsWhole
<1>6. ASSUME NEW g \in Files  PROVE (Said(g) /\ LastIsRight(g) /\ WillKnow(g))'
  <2>1. Said(g) /\ LastIsRight(g) /\ WillKnow(g)  BY DEF LiveInv
  <2>2. /\ Tells(wire, g) <=> Tells(wire', g)
        /\ TellsLast(wire, g, row[g]) => TellsLast(wire', g, row[g])
        /\ Shots(wire, g, row[g]) => Shots(wire', g, row[g])
    BY <1>2, WireShortened
  <2>3. Said(g)'  BY <1>2, <2>1 DEF Said
  <2>4. LastIsRight(g)'  BY <1>2, <2>1, <2>2 DEF LastIsRight
  <2>5. WillKnow(g)'  BY <1>2, <1>4, <2>1, <2>2 DEF WillKnow, Settled
  <2> QED  BY <2>3, <2>4, <2>5
<1> QED  BY <1>1, <1>3, <1>5, <1>6 DEF LiveInv

LEMMA OnSnapshotKeeps ==
  ASSUME LiveInv, OnSnapshot
  PROVE  LiveInv'
<1>1. TypeOK'  BY TabTypes DEF LiveInv
<1> DEFINE files == Head(wire).files
<1>2. /\ wire \in Seq(Messages) /\ wire # <<>> /\ Head(wire).kind = "snapshot" /\ wire' = Tail(wire)
      /\ files \in SUBSET Updates /\ listed' = Patched(listed, files) /\ fetch' = fetch
      /\ missed' = IF fetch.step = "none" THEN missed ELSE missed \union {u[1] : u \in files}
      /\ UNCHANGED <<row, unsent, sent, queue, stream, read, pending, opened, unsaid>>
  BY HeadsAreTyped DEF OnSnapshot, Patch, LiveInv, TypeOK, service, gateway
<1>3. stream = "live" /\ read = {} /\ InOrder' /\ Functional(files)
      /\ \A f : ~Mentions(pending, f)
  BY <1>2, WireHead
<1> HIDE DEF files
<1>4. listed \in [Files -> Versions \union {Unloaded}]  BY DEF LiveInv, TypeOK
<1>5. ListIsWhole'  BY <1>2, <1>4, PatchedTypes DEF LiveInv, ListIsWhole
<1>6. ASSUME NEW g \in Files  PROVE (Said(g) /\ LastIsRight(g) /\ WillKnow(g))'
  <2>1. Said(g) /\ LastIsRight(g) /\ WillKnow(g)  BY DEF LiveInv
  <2>2. /\ Tells(wire, g) <=> Tells(wire', g)
        /\ TellsLast(wire, g, row[g]) => TellsLast(wire', g, row[g])
        /\ Shots(wire, g, row[g]) => (Shots(wire', g, row[g]) /\ \A u \in files : u[1] = g => u[2] = row[g])
        /\ Opens(wire) <=> Opens(wire')
    <3>1. Head(wire).kind # "update" /\ Head(wire).kind # "open"  BY <1>2
    <3>2. Tells(wire, g) <=> Tells(Tail(wire), g)  BY <1>2, <3>1, WireShortened
    <3>3. TellsLast(wire, g, row[g]) => TellsLast(Tail(wire), g, row[g])  BY <1>2, WireShortened
    <3>4. Shots(wire, g, row[g]) =>
            Shots(Tail(wire), g, row[g]) /\ \A u \in files : u[1] = g => u[2] = row[g]
      BY <1>2, WireShortened DEF files
    <3>5. Opens(wire) <=> Opens(Tail(wire))  BY <1>2, <3>1, WireShortened
    <3> QED  BY <1>2, <3>2, <3>3, <3>4, <3>5
  <2>3. Said(g)'  BY <1>2, <2>1 DEF Said
  <2>4. LastIsRight(g)'  BY <1>2, <2>1, <2>2 DEF LastIsRight
  <2>5. WillKnow(g)'
    <3>1. CASE \A u \in files : u[1] # g
      <4>1. listed'[g] = listed[g]  BY <1>2, <1>4, <3>1, PatchedTypes
      <4>2. g \notin missed' => g \notin missed  BY <1>2
      <4> QED  BY <1>2, <2>1, <2>2, <4>1, <4>2 DEF WillKnow, Settled
    <3>2. CASE \E u \in files : u[1] = g
      <4>1. CASE fetch.step # "none"  BY <1>2, <3>2, <4>1 DEF WillKnow
      <4>2. CASE fetch.step = "none" /\ (g \in unsaid \/ <<g, row[g]>> \in unsent \/ Mentions(queue, g) \/ Tells(wire, g))
        BY <1>2, <2>2, <4>2 DEF WillKnow
      <4>3. CASE /\ fetch.step = "none" /\ g \notin unsaid /\ <<g, row[g]>> \notin unsent
                 /\ ~Mentions(queue, g) /\ ~Tells(wire, g)
        <5>1. \A u \in files : u[1] = g => u[2] = row[g]  BY <1>3, <2>1, <2>2, <4>3 DEF LastIsRight
        <5>2. listed[g] # Unloaded  BY <4>3 DEF LiveInv, ListIsWhole
        <5> DEFINE t == CHOOSE x \in files : x[1] = g
        <5>3. t \in files /\ t[1] = g /\ t[2] = row[g]  BY <3>2, <5>1
        <5>4. Patched(listed, files)[g] = row[g]  BY <3>2, <5>2, <5>3 DEF Patched
        <5>5. listed'[g] = row[g]  BY <1>2, <5>4
        <5> QED  BY <1>2, <4>3, <5>5 DEF WillKnow, Settled
      <4> QED  BY <4>1, <4>2, <4>3
    <3> QED  BY <3>1, <3>2
  <2> QED  BY <2>3, <2>4, <2>5
<1> QED  BY <1>1, <1>3, <1>5, <1>6 DEF LiveInv

LEMMA OnUpdateKeeps ==
  ASSUME LiveInv, OnUpdate
  PROVE  LiveInv'
<1>1. TypeOK'  BY TabTypes DEF LiveInv
<1> DEFINE u == Head(wire).of
<1>2. /\ wire \in Seq(Messages) /\ wire # <<>> /\ Head(wire).kind = "update" /\ wire' = Tail(wire)
      /\ u \in Updates /\ listed' = Patched(listed, {u})
      /\ UNCHANGED <<row, unsent, sent, queue, stream, read, pending, opened, unsaid>>
  BY HeadsAreTyped DEF OnUpdate, LiveInv, TypeOK, service, gateway
<1>3. /\ missed \subseteq missed'
      /\ \/ fetch' = fetch /\ fetch.step = "none"
         \/ fetch' = fetch /\ u[1] \in missed'
         \/ fetch'.step = "asked"
  BY InvalidatedTypes DEF OnUpdate, Refetch, Patch, LiveInv
<1>4. stream = "live" /\ read = {} /\ InOrder' /\ (\A f : ~Mentions(pending, f)) /\ SnapshotFirst(wire)
  BY <1>2, WireHead DEF LiveInv, InOrder
<1>5. listed \in [Files -> Versions \union {Unloaded}] /\ {u} \in SUBSET Updates  BY <1>2 DEF LiveInv, TypeOK
<1> HIDE DEF u
<1>6. ListIsWhole'  BY <1>2, <1>3, <1>5, PatchedTypes DEF LiveInv, ListIsWhole
<1>7. ASSUME NEW g \in Files  PROVE (Said(g) /\ LastIsRight(g) /\ WillKnow(g))'
  <2>1. Said(g) /\ LastIsRight(g) /\ WillKnow(g)  BY DEF LiveInv
  <2>2. /\ Tells(wire, g) <=> u[1] = g \/ Tells(wire', g)
        /\ TellsLast(wire, g, row[g]) => TellsLast(wire', g, row[g]) /\ (u[1] = g /\ ~Tells(wire', g) => u[2] = row[g])
        /\ Opens(wire) <=> Opens(wire')
        /\ Shots(wire', g, row[g])
    BY <1>2, <1>4, WireShortened DEF u
  <2>3. Said(g)'  BY <1>2, <2>1 DEF Said
  <2>4. LastIsRight(g)'  BY <1>2, <1>4, <2>1, <2>2 DEF LastIsRight
  <2>5. WillKnow(g)'
    <3>1. CASE u[1] # g
      <4>1. listed'[g] = listed[g]  BY <1>2, <1>5, <3>1, PatchedTypes
      <4> QED  BY <1>2, <1>3, <2>1, <2>2, <3>1, <4>1 DEF WillKnow, Settled
    <3>2. CASE u[1] = g
      <4>1. CASE fetch'.step = "asked"  BY <4>1 DEF WillKnow, Settled
      <4>2. CASE g \in missed'  BY <4>2 DEF WillKnow
      <4>3. CASE g \in unsaid \/ <<g, row[g]>> \in unsent \/ Mentions(queue, g) \/ Tells(wire', g)
        BY <1>2, <4>3 DEF WillKnow
      <4>4. CASE /\ fetch' = fetch /\ fetch.step = "none" /\ g \notin unsaid /\ <<g, row[g]>> \notin unsent
                 /\ ~Mentions(queue, g) /\ ~Tells(wire', g)
        <5>1. u[2] = row[g]  BY <1>4, <2>1, <2>2, <3>2, <4>4 DEF LastIsRight
        <5>2. listed[g] # Unloaded  BY <4>4 DEF LiveInv, ListIsWhole
        <5>3. (\E x \in {u} : x[1] = g) /\ \A x \in {u} : x[1] = g => x[2] = row[g]  BY <3>2, <5>1
        <5>4. Patched(listed, {u})[g] = row[g]  BY <1>5, <5>2, <5>3, PatchedTo
        <5>5. listed'[g] = row[g]  BY <1>2, <5>4
        <5> QED  BY <1>2, <4>4, <5>5 DEF WillKnow, Settled
      <4> QED  BY <1>3, <3>2, <4>1, <4>2, <4>3, <4>4
    <3> QED  BY <3>1, <3>2
  <2> QED  BY <2>3, <2>4, <2>5
<1> QED  BY <1>1, <1>4, <1>6, <1>7 DEF LiveInv

LEMMA ListFilesKeeps ==
  ASSUME LiveInv, ListFiles
  PROVE  LiveInv'
<1>1. TypeOK'  BY TabTypes DEF LiveInv
<1>2. /\ UNCHANGED <<row, unsent, sent, queue, stream, read, pending, wire, listed, opened, unsaid>>
      /\ fetch' = [step |-> "answered", rows |-> row]
  BY DEF ListFiles, service, gateway
<1>3. InOrder'  BY <1>2 DEF LiveInv, InOrder
<1>4. fetch'.step = "answered" /\ fetch'.rows = row  BY <1>2
<1>5. ListIsWhole'
  <2>1. \A f \in Files : row[f] \in Versions  BY DEF LiveInv, TypeOK
  <2> QED  BY <1>4, <2>1, TheVersions DEF ListIsWhole
<1>6. ASSUME NEW g \in Files  PROVE (Said(g) /\ LastIsRight(g) /\ WillKnow(g))'
  <2>1. Said(g) /\ LastIsRight(g)  BY DEF LiveInv
  <2> QED  BY <1>2, <1>4, <2>1 DEF Said, LastIsRight, WillKnow, Settled
<1> QED  BY <1>1, <1>3, <1>5, <1>6 DEF LiveInv

LEMMA ShowFilesKeeps ==
  ASSUME LiveInv, ShowFiles
  PROVE  LiveInv'
<1>1. TypeOK'  BY TabTypes DEF LiveInv
<1>2. /\ UNCHANGED <<row, unsent, sent, queue, stream, read, pending, wire, opened, unsaid, missed>>
      /\ fetch.step = "answered" /\ fetch'.step = "none" /\ listed' = fetch.rows
  BY DEF ShowFiles, NoFetch, service, gateway, ghosts
<1>3. InOrder'  BY <1>2 DEF LiveInv, InOrder
<1>4. ListIsWhole'  BY <1>2 DEF LiveInv, ListIsWhole
<1>5. ASSUME NEW g \in Files  PROVE (Said(g) /\ LastIsRight(g) /\ WillKnow(g))'
  <2>1. Said(g) /\ LastIsRight(g) /\ WillKnow(g)  BY DEF LiveInv
  <2> QED  BY <1>2, <2>1 DEF Said, LastIsRight, WillKnow, Settled
<1> QED  BY <1>1, <1>3, <1>4, <1>5 DEF LiveInv

LEMMA RemountKeeps ==
  ASSUME LiveInv, Remount
  PROVE  LiveInv'
<1>1. TypeOK'  BY TabTypes DEF LiveInv
<1>2. /\ UNCHANGED <<row, unsent, sent, queue, listed, unsaid>>
      /\ stream' = "closed" /\ wire' = <<>> /\ pending' = <<>> /\ read' = {} /\ ~opened'
  BY DEF Remount, service
<1>3. \/ fetch'.step = "asked"
      \/ fetch' = fetch /\ Files \subseteq missed'
      \/ fetch' = fetch /\ fetch.step = "none" /\ stream = "live" /\ wire = <<>> /\ missed' = missed
  BY InvalidatedTypes DEF Remount, Refetch, LiveInv
<1>4. Functional({}) /\ SnapshotFirst(<<>>)  BY DEF Functional, SnapshotFirst
<1>5. InOrder'  BY <1>2, <1>4 DEF InOrder
<1>6. ListIsWhole'  BY <1>2, <1>3 DEF LiveInv, ListIsWhole
<1>7. ASSUME NEW g \in Files  PROVE (Said(g) /\ LastIsRight(g) /\ WillKnow(g))'
  <2>1. Said(g) /\ LastIsRight(g) /\ WillKnow(g)  BY DEF LiveInv
  <2>2. Said(g)'  BY <1>2, <2>1 DEF Said
  <2>3. LastIsRight(g)'  BY <1>2, <2>1, EmptyQueue DEF LastIsRight
  <2>4. WillKnow(g)'
    <3>1. CASE fetch'.step = "asked" \/ Files \subseteq missed'  BY <3>1 DEF WillKnow, Settled
    <3>2. CASE fetch' = fetch /\ fetch.step = "none" /\ stream = "live" /\ wire = <<>> /\ missed' = missed
      <4>1. pending = <<>>  BY <3>2 DEF LiveInv, TypeOK
      <4>2. ~Mentions(pending, g) /\ ~Tells(wire, g) /\ ~Opens(wire)  BY <3>2, <4>1, EmptyQueue
      <4> QED  BY <1>2, <2>1, <3>2, <4>2 DEF WillKnow, Settled
    <3> QED  BY <1>3, <3>1, <3>2
  <2> QED  BY <2>2, <2>3, <2>4
<1> QED  BY <1>1, <1>5, <1>6, <1>7 DEF LiveInv

-------------------------------------------------------------------------------
(* What the run checks.                                                         *)

LEMMA LiveInit == Init => LiveInv
<1> SUFFICES ASSUME Init  PROVE LiveInv
  OBVIOUS
<1> USE TheVersions
<1>1. <<>> \in Seq(Updates) /\ <<>> \in Seq(Messages)
  OBVIOUS
<1>2. fetch.step = "asked" /\ fetch \in [step : {"none", "asked", "answered"}, rows : [Files -> Versions \union {Unloaded}]]
  BY DEF Init, NoFetch
<1>3. TypeOK  BY <1>1, <1>2 DEF Init, TypeOK
<1>4. InOrder  BY DEF Init, InOrder, Functional, SnapshotFirst
<1>5. ListIsWhole  BY <1>2 DEF ListIsWhole
<1>6. ASSUME NEW g \in Files  PROVE Said(g) /\ LastIsRight(g) /\ WillKnow(g)
  <2>1. Said(g)  BY DEF Init, Said, Unloaded
  <2>2. LastIsRight(g)  BY EmptyQueue DEF Init, LastIsRight
  <2>3. WillKnow(g)  BY <1>2 DEF WillKnow, Settled
  <2> QED  BY <2>1, <2>2, <2>3
<1> QED  BY <1>3, <1>4, <1>5, <1>6 DEF LiveInv

LEMMA LiveStep == LiveInv /\ [Next]_vars => LiveInv'
<1>1. LiveInv /\ UNCHANGED vars => LiveInv'
  BY DEF LiveInv, vars, service, gateway, tab, ghosts, TypeOK, InOrder, ListIsWhole, Said, LastIsRight, WillKnow, Settled
<1> QED
  BY <1>1, ApplyStageChangeKeeps, ReportProgressKeeps, PublishUpdatedKeeps, PublicationLostKeeps, BrokerLostKeeps,
     BrokerBackKeeps, DeliverKeeps, ListenKeeps, ActiveFilesKeeps, GoLiveKeeps, StreamLostKeeps, OnOpenKeeps,
     OnSnapshotKeeps, OnUpdateKeeps, ListFilesKeeps, ShowFilesKeeps, RemountKeeps DEF Next

LEMMA LiveInvHolds == Spec => []LiveInv
BY LiveInit, LiveStep, PTL DEF Spec

\* What is queued, held back and sent keeps its type, and the gateway holds updates back only for
\* a stream that is not open yet.
THEOREM LiveTypeCorrect == Spec => []TypeOK
<1>1. LiveInv => TypeOK  BY DEF LiveInv
<1> QED  BY <1>1, LiveInvHolds, PTL

\* "Subscribing before the snapshot means no update is lost between the two"
\* (events.controller.ts:27): whatever connections fail, and however long the queues are, a tab to
\* which all was delivered shows every file as it is, but for what it was never told or missed.
THEOREM TabsConverge == Spec => []TabConverges
<1>1. LiveInv => TabConverges
  <2> SUFFICES ASSUME LiveInv, Quiet, NEW f \in Files, f \notin missed \union unsaid
               PROVE  listed[f] = row[f]
    BY DEF TabConverges
  <2>1. pending = <<>>  BY DEF LiveInv, TypeOK, Quiet
  <2>2. ~Mentions(queue, f) /\ ~Mentions(pending, f) /\ ~Tells(wire, f) /\ ~Opens(wire)
    BY <2>1, EmptyQueue DEF Quiet
  <2> QED  BY <2>2 DEF LiveInv, WillKnow, Settled, Quiet
<1> QED  BY <1>1, LiveInvHolds, PTL
================================================================================
