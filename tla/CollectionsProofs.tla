---------------------------- MODULE CollectionsProofs ----------------------------
(* No deletion of a tree leaves chat-manager in the dark, and only moves that were  *)
(* checked against an older tree close a cycle, for all requests and collections.   *)
EXTENDS Collections, TLAPS

\* A collection is below one that is there.
ParentsExist == \A d \in Collections : parent[d] # Absent => Exists(parent[d])

\* What a deletion listed, and what came below it since, is all there is below the listed
\* collections that are still there.
Deleting(a) == op[a].pc \in {"collect", "files", "drop"}
Listed(a) ==
  Deleting(a) => \A t \in op[a].tree : Exists(t) => Tree(t) \subseteq op[a].tree \union op[a].late
Given(a) == op[a].tree \union op[a].late \subseteq drawn

\* The check of a move stands, unless another move was written since.
Moving(a) ==
  At(a, "move") =>
    /\ op[a].at \in drawn /\ op[a].to \in drawn /\ op[a].at # op[a].to
    /\ ~op[a].stale => op[a].to \notin Tree(op[a].at)

CollectionsInv ==
  /\ TypeOK /\ ParentsExist
  /\ \A a \in Actors : Listed(a) /\ Given(a) /\ Moving(a)
  /\ GoneAreAnnounced

-------------------------------------------------------------------------------
(* The collections below one.                                                   *)

LEMMA Ids == Top \notin Collections /\ Absent \notin Collections /\ Top # Absent
BY CollectionsAssumption DEF CollectionsAssumption

LEMMA TreeClosed ==
  ASSUME NEW c \in Collections
  PROVE  c \in Tree(c) /\ Tree(c) \subseteq Collections /\ Closed(Tree(c))
<1>1. c \in Tree(c) /\ Tree(c) \subseteq Collections
  BY DEF Tree
<1>2. ASSUME NEW d \in Collections, parent[d] \in Tree(c) PROVE d \in Tree(c)
  <2>1. ASSUME NEW found \in SUBSET Collections, c \in found, Closed(found) PROVE d \in found
    <3>1. parent[d] \in found
      BY <1>2, <2>1 DEF Tree
    <3> QED BY <3>1, <2>1 DEF Closed
  <2> QED BY <2>1 DEF Tree
<1> QED BY <1>1, <1>2 DEF Closed

LEMMA TreeLeast ==
  ASSUME NEW c \in Collections, NEW found \in SUBSET Collections, c \in found, Closed(found)
  PROVE  Tree(c) \subseteq found
BY DEF Tree

LEMMA TreeLeastNext ==
  ASSUME NEW c \in Collections, NEW found \in SUBSET Collections, c \in found,
         \A d \in Collections : parent'[d] \in found => d \in found
  PROVE  Tree(c)' \subseteq found
BY DEF Tree, Closed

LEMMA TreeBelow ==
  ASSUME NEW c \in Collections, NEW d \in Tree(c)
  PROVE  Tree(d) \subseteq Tree(c)
BY TreeClosed, TreeLeast

\* What is below a collection that is there, is there.
LEMMA TreeExists ==
  ASSUME NEW c \in Collections, Exists(c)
  PROVE  \A d \in Tree(c) : parent[d] # Absent
<1> DEFINE there == {d \in Tree(c) : parent[d] # Absent}
<1>1. c \in there /\ there \subseteq Collections
  BY TreeClosed, Ids DEF Exists
<1>2. Closed(there)
  <2> SUFFICES ASSUME NEW d \in Collections, parent[d] \in there PROVE d \in there
    BY DEF Closed
  <2>1. d \in Tree(c)
    BY TreeClosed DEF Closed
  <2>2. parent[d] # Absent
    BY <1>1, Ids
  <2> QED BY <2>1, <2>2
<1> HIDE DEF there
<1>3. Tree(c) \subseteq there
  BY <1>1, <1>2, TreeLeast
<1> QED BY <1>3 DEF there

\* No collection comes below another: each keeps its place, goes to the top, or goes.
Shrinks == \A d \in Collections : parent'[d] = parent[d] \/ parent'[d] \notin Collections

LEMMA TreeShrinks == ASSUME Shrinks, NEW c \in Collections PROVE Tree(c)' \subseteq Tree(c)
<1>1. c \in Tree(c) /\ Tree(c) \in SUBSET Collections /\ Closed(Tree(c))
  BY TreeClosed
<1>2. \A d \in Collections : parent'[d] \in Tree(c) => d \in Tree(c)
  BY <1>1 DEF Shrinks, Closed
<1> QED BY <1>1, <1>2, TreeLeastNext

\* One collection comes below another, with all that is below it.
Grafts(c, p) == c \in Collections /\ parent' = [parent EXCEPT ![c] = p]

LEMMA TreeGrafts ==
  ASSUME parent \in [Collections -> Collections \union {Top, Absent}], NEW c, NEW p, Grafts(c, p),
         NEW t \in Collections
  PROVE  /\ p \notin Tree(t) => Tree(t)' \subseteq Tree(t)
         /\ Tree(t)' \subseteq Tree(t) \union Tree(c)
<1>1. /\ t \in Tree(t) /\ Tree(t) \in SUBSET Collections /\ Closed(Tree(t))
      /\ c \in Tree(c) /\ Tree(c) \in SUBSET Collections /\ Closed(Tree(c)) /\ c \in Collections
  BY TreeClosed DEF Grafts
<1>2. parent'[c] = p /\ \A d \in Collections \ {c} : parent'[d] = parent[d]
  BY DEF Grafts
<1>3. ASSUME p \notin Tree(t) PROVE Tree(t)' \subseteq Tree(t)
  <2>1. \A d \in Collections : parent'[d] \in Tree(t) => d \in Tree(t)
    BY <1>1, <1>2, <1>3 DEF Closed
  <2> QED BY <2>1, <1>1, TreeLeastNext
<1>4. Tree(t)' \subseteq Tree(t) \union Tree(c)
  <2> DEFINE both == Tree(t) \union Tree(c)
  <2>1. \A d \in Collections : parent'[d] \in both => d \in both
    BY <1>1, <1>2 DEF Closed
  <2>2. t \in both /\ both \in SUBSET Collections
    BY <1>1
  <2> HIDE DEF both
  <2>3. Tree(t)' \subseteq both
    BY <2>1, <2>2, TreeLeastNext
  <2> QED BY <2>3 DEF both
<1> QED BY <1>3, <1>4

-------------------------------------------------------------------------------
(* Cycles.                                                                      *)

LEMMA ForestShrinks == ASSUME Shrinks, IsForest PROVE IsForest'
<1> SUFFICES ASSUME NEW c \in Collections PROVE parent'[c] \notin Tree(c)'
  BY DEF IsForest, QueryEnds
<1>1. Tree(c)' \subseteq Tree(c) /\ Tree(c) \subseteq Collections
  BY TreeShrinks, TreeClosed
<1>2. parent[c] \notin Tree(c)
  BY DEF IsForest, QueryEnds
<1> QED BY <1>1, <1>2 DEF Shrinks

LEMMA ForestGrafts ==
  ASSUME parent \in [Collections -> Collections \union {Top, Absent}], NEW c, NEW p, Grafts(c, p),
         p \notin Tree(c), IsForest
  PROVE  IsForest'
<1> SUFFICES ASSUME NEW d \in Collections PROVE parent'[d] \notin Tree(d)'
  BY DEF IsForest, QueryEnds
<1>1. c \in Collections /\ parent'[c] = p /\ \A e \in Collections \ {c} : parent'[e] = parent[e]
  BY DEF Grafts
<1>2. parent[d] \notin Tree(d)
  BY DEF IsForest, QueryEnds
<1>3. CASE d = c
  BY <1>1, <1>3, TreeGrafts
<1>4. CASE d # c /\ p \notin Tree(d)
  BY <1>1, <1>2, <1>4, TreeGrafts
<1>5. CASE d # c /\ p \in Tree(d)
  <2>1. parent[d] \notin Tree(c)
    <3> SUFFICES ASSUME parent[d] \in Tree(c) PROVE FALSE
      OBVIOUS
    <3>1. d \in Tree(c)
      BY <1>1, TreeClosed DEF Closed
    <3>2. Tree(d) \subseteq Tree(c)
      BY <3>1, <1>1, TreeBelow
    <3> QED BY <3>2, <1>5
  <2> QED BY <2>1, <1>1, <1>2, <1>5, TreeGrafts
<1> QED BY <1>3, <1>4, <1>5

-------------------------------------------------------------------------------
(* What a step keeps of each request, and of the announcements.                  *)

Ops == [pc : Steps, at : Collections \union {Top}, to : Collections \union {Top},
        tree : SUBSET Collections, late : SUBSET Collections, files : SUBSET Files, stale : BOOLEAN]

LEMMA IdleOp == Idle \in Ops /\ Idle.pc = "idle" /\ Idle.tree = {} /\ Idle.late = {} /\ ~Idle.stale
BY DEF Idle, Ops, Steps

LEMMA Typed ==
  ASSUME TypeOK
  PROVE  /\ parent \in [Collections -> Collections \union {Top, Absent}]
         /\ op \in [Actors -> Ops]
         /\ \A c \in Collections : parent[c] # Absent => c \in drawn
         /\ drawn \subseteq Collections
BY DEF TypeOK, Ops

LEMMA SameForest ==
  ASSUME parent' = parent
  PROVE  /\ \A c : Tree(c)' = Tree(c) /\ (Exists(c)' <=> Exists(c))
         /\ ParentsExist => ParentsExist'
BY DEF Tree, Closed, Exists, ParentsExist

LEMMA OneTurns ==
  ASSUME op \in [Actors -> Ops], NEW a \in Actors, NEW m \in Ops, op' = [op EXCEPT ![a] = m]
  PROVE  op' \in [Actors -> Ops] /\ op'[a] = m /\ \A b \in Actors \ {a} : op'[b] = op[b]
OBVIOUS

Kept(b) == Listed(b) /\ Given(b) /\ Moving(b)

\* A request with nothing listed and no move under way.
LEMMA NothingKept ==
  ASSUME NEW b \in Actors, op'[b].pc \notin {"collect", "files", "drop", "move"},
         op'[b].tree \union op'[b].late \subseteq drawn'
  PROVE  Kept(b)'
BY DEF Kept, Listed, Deleting, Given, Moving, At

\* The other requests, while no collection moves.
LEMMA KeptStays ==
  ASSUME NEW b \in Actors, Kept(b), op'[b] = op[b], parent' = parent, drawn \subseteq drawn'
  PROVE  Kept(b)'
<1>1. \A c : Tree(c)' = Tree(c) /\ (Exists(c)' <=> Exists(c))
  BY SameForest
<1>2. Listed(b)'
  BY <1>1 DEF Kept, Listed, Deleting
<1>3. Given(b)'
  BY DEF Kept, Given
<1>4. Moving(b)'
  <2> SUFFICES ASSUME op[b].pc = "move"
               PROVE  /\ op[b].at \in drawn' /\ op[b].to \in drawn' /\ op[b].at # op[b].to
                      /\ ~op[b].stale => op[b].to \notin Tree(op[b].at)'
    BY DEF Moving, At
  <2>1. /\ op[b].at \in drawn /\ op[b].to \in drawn /\ op[b].at # op[b].to
        /\ ~op[b].stale => op[b].to \notin Tree(op[b].at)
    BY DEF Kept, Moving, At
  <2>2. Tree(op[b].at)' = Tree(op[b].at)
    BY SameForest DEF Tree, Closed
  <2> QED BY <2>1, <2>2
<1> QED BY <1>2, <1>3, <1>4 DEF Kept

LEMMA GoneStays ==
  ASSUME GoneAreAnnounced, announced \subseteq announced', orphaned \subseteq orphaned',
         \A c \in drawn' : parent'[c] = Absent => c \in drawn /\ parent[c] = Absent,
         \A b \in Actors : op[b].pc = "announce" =>
           op[b].tree \subseteq announced' \union orphaned' \/ (op'[b].pc = "announce" /\ op'[b].tree = op[b].tree)
  PROVE  GoneAreAnnounced'
BY DEF GoneAreAnnounced, At

-------------------------------------------------------------------------------
(* The steps.                                                                   *)

\* What a request has under way, once a branch came below p.
UnseenSpec(x, branch, p, b) ==
  /\ x \in Ops /\ x.pc = op[b].pc /\ x.at = op[b].at /\ x.to = op[b].to
  /\ x.tree = op[b].tree /\ x.stale = op[b].stale
  /\ op[b].late \subseteq x.late /\ x.late \subseteq op[b].late \union branch
  /\ (Deleting(b) /\ \E t \in op[b].tree : Exists(t) /\ p \in Tree(t)) => branch \subseteq x.tree \union x.late

LEMMA UnseenIs ==
  ASSUME TypeOK, NEW branch \in SUBSET Collections, NEW p, NEW b \in Actors
  PROVE  UnseenSpec(Unseen(branch, p)[b], branch, p, b)
<1> DEFINE below == op[b].pc \in {"collect", "files", "drop"} /\ \E t \in op[b].tree : Exists(t) /\ p \in Tree(t)
           late  == op[b].late \union (branch \ op[b].tree)
<1>1. Unseen(branch, p)[b] = IF below THEN [op[b] EXCEPT !.late = late] ELSE op[b]
  BY DEF Unseen
<1>2. op[b] \in Ops
  BY Typed
<1>3. CASE below
  <2>1. late \in SUBSET Collections
    BY <1>2 DEF Ops
  <2>2. Unseen(branch, p)[b] = [op[b] EXCEPT !.late = late]
    BY <1>1, <1>3
  <2> HIDE DEF below
  <2>3. op[b].late \subseteq late /\ late \subseteq op[b].late \union branch /\ branch \subseteq op[b].tree \union late
    OBVIOUS
  <2> HIDE DEF late
  <2> QED BY <1>2, <2>1, <2>2, <2>3 DEF Ops, UnseenSpec
<1>4. CASE ~below
  BY <1>1, <1>2, <1>4 DEF Deleting, UnseenSpec
<1> QED BY <1>3, <1>4

LEMMA GraftKeeps ==
  ASSUME TypeOK, NEW b \in Actors, Kept(b), NEW c, NEW p, Grafts(c, p), Tree(c) \subseteq drawn', drawn \subseteq drawn',
         \A t \in op[b].tree : Exists(t)' => Exists(t),
         op'[b].pc = op[b].pc, op'[b].tree = op[b].tree, op'[b].late = Unseen(Tree(c), p)[b].late
  PROVE  Listed(b)' /\ Given(b)'
<1>1. c \in Collections /\ Tree(c) \in SUBSET Collections /\ op[b].tree \subseteq Collections
  BY TreeClosed, Typed DEF Grafts, Ops
<1>2. /\ op[b].late \subseteq op'[b].late /\ op'[b].late \subseteq op[b].late \union Tree(c)
      /\ (Deleting(b) /\ \E t \in op[b].tree : Exists(t) /\ p \in Tree(t)) =>
           Tree(c) \subseteq op[b].tree \union op'[b].late
  <2>1. UnseenSpec(Unseen(Tree(c), p)[b], Tree(c), p, b)
    BY <1>1, UnseenIs
  <2> QED BY <2>1 DEF UnseenSpec
<1>3. Given(b)'
  BY <1>2 DEF Kept, Given
<1>4. ASSUME Deleting(b)', NEW t \in op[b].tree, Exists(t)' PROVE Tree(t)' \subseteq op'[b].tree \union op'[b].late
  <2>1. Deleting(b) /\ Exists(t)
    BY <1>4 DEF Deleting
  <2>2. Tree(t) \subseteq op[b].tree \union op[b].late
    BY <2>1 DEF Kept, Listed
  <2>3. /\ p \notin Tree(t) => Tree(t)' \subseteq Tree(t)
        /\ Tree(t)' \subseteq Tree(t) \union Tree(c)
    BY <1>1, Typed, TreeGrafts
  <2>4. CASE p \in Tree(t)
    BY <1>2, <2>1, <2>2, <2>3, <2>4
  <2>5. CASE p \notin Tree(t)
    BY <1>2, <2>2, <2>3, <2>5
  <2> QED BY <2>4, <2>5
<1>5. Listed(b)'
  BY <1>4 DEF Listed
<1> QED BY <1>3, <1>5

LEMMA CreateKeeps == ASSUME CollectionsInv, NEW p \in Collections \union {Top}, Create(p) PROVE CollectionsInv'
<1> DEFINE c == Fresh
<1>0. TypeOK /\ ParentsExist /\ GoneAreAnnounced /\ \A b \in Actors : Kept(b)
  BY DEF CollectionsInv, Kept
<1>1. c \in Collections \ drawn
  <2>1. \E d \in Collections : d \notin drawn
    BY <1>0, Typed DEF Create
  <2> QED BY <2>1 DEF Fresh
<1>2. /\ Exists(p) /\ drawn' = drawn \union {c} /\ parent' = [parent EXCEPT ![c] = p] /\ op' = Unseen({c}, p)
      /\ UNCHANGED <<stored, members, announced, orphaned>>
  BY DEF Create
<1> HIDE DEF c
<1>3. /\ parent \in [Collections -> Collections \union {Top, Absent}] /\ parent[c] = Absent /\ p # c
      /\ parent'[c] = p /\ \A d \in Collections \ {c} : parent'[d] = parent[d]
  BY <1>0, <1>1, <1>2, Typed, Ids DEF Exists
<1>4. \A d \in Collections : parent[d] # c
  BY <1>0, <1>1, <1>3, Ids DEF ParentsExist, Exists
<1>5. Tree(c) = {c}
  <2>1. Closed({c})
    BY <1>4 DEF Closed
  <2> QED BY <2>1, <1>1, TreeLeast, TreeClosed
<1>6. Grafts(c, p)
  BY <1>1, <1>2 DEF Grafts
<1>7. \A b \in Actors :
        /\ op'[b] \in Ops /\ op'[b].pc = op[b].pc /\ op'[b].at = op[b].at /\ op'[b].to = op[b].to
        /\ op'[b].tree = op[b].tree /\ op'[b].stale = op[b].stale /\ op'[b].late = Unseen({c}, p)[b].late
  <2>1. ASSUME NEW b \in Actors PROVE UnseenSpec(Unseen({c}, p)[b], {c}, p, b)
    <3>1. {c} \in SUBSET Collections
      BY <1>1
    <3> QED BY <3>1, <1>0, UnseenIs
  <2> QED BY <2>1, <1>2 DEF UnseenSpec
<1>8. TypeOK'
  <2>1. parent' \in [Collections -> Collections \union {Top, Absent}]
    BY <1>1, <1>2, <1>3
  <2>2. op' \in [Actors -> Ops]
    BY <1>2, <1>7 DEF Unseen
  <2>3. drawn' \subseteq Collections /\ Collections \ drawn' \subseteq {d \in Collections : parent'[d] = Absent}
    BY <1>0, <1>1, <1>2, <1>3 DEF TypeOK
  <2>4. members' \subseteq stored' \X {d \in Collections : parent'[d] # Absent}
    <3>1. {d \in Collections : parent[d] # Absent} \subseteq {d \in Collections : parent'[d] # Absent}
      BY <1>3
    <3>2. members \subseteq stored \X {d \in Collections : parent[d] # Absent}
      BY <1>0 DEF TypeOK
    <3> QED BY <3>1, <3>2, <1>2
  <2>5. stored' \subseteq Files /\ announced' \subseteq drawn' /\ orphaned' \subseteq drawn'
    BY <1>0, <1>2 DEF TypeOK
  <2> QED BY <2>1, <2>2, <2>3, <2>4, <2>5 DEF TypeOK, Ops
<1>9. ParentsExist'
  BY <1>0, <1>2, <1>3, Ids DEF ParentsExist, Exists
<1>10. ASSUME NEW b \in Actors PROVE Kept(b)'
  <2>1. Listed(b)' /\ Given(b)'
    <3>1. \A t \in op[b].tree : Exists(t)' => Exists(t)
      BY <1>0, <1>1, <1>3, Typed DEF Kept, Given, Exists, Ops
    <3>2. Kept(b) /\ Tree(c) \subseteq drawn' /\ drawn \subseteq drawn'
      BY <1>0, <1>2, <1>5
    <3> QED BY <3>1, <3>2, <1>0, <1>5, <1>6, <1>7, GraftKeeps
  <2>2. Moving(b)'
    <3> SUFFICES ASSUME op[b].pc = "move"
                 PROVE  /\ op[b].at \in drawn' /\ op[b].to \in drawn' /\ op[b].at # op[b].to
                        /\ ~op[b].stale => op[b].to \notin Tree(op[b].at)'
      BY <1>7 DEF Moving, At
    <3>1. /\ op[b].at \in drawn /\ op[b].to \in drawn /\ op[b].at # op[b].to
          /\ ~op[b].stale => op[b].to \notin Tree(op[b].at)
      BY <1>0 DEF Kept, Moving, At
    <3>2. \A t \in Collections : Tree(t)' \subseteq Tree(t) \union {c}
      BY <1>3, <1>5, <1>6, TreeGrafts
    <3>3. op[b].at \in Collections /\ op[b].to # c /\ op'[b].at = op[b].at
      BY <1>0, <1>1, <1>7, <3>1, Typed
    <3>4. Tree(op[b].at)' \subseteq Tree(op[b].at) \union {c}
      BY <3>2, <3>3 DEF Tree
    <3> QED BY <1>2, <3>1, <3>3, <3>4
  <2> QED BY <2>1, <2>2 DEF Kept
<1>11. GoneAreAnnounced'
  <2>1. \A d \in drawn' : parent'[d] = Absent => d \in drawn /\ parent[d] = Absent
    BY <1>0, <1>2, <1>3, Typed, Ids DEF TypeOK
  <2> QED BY <2>1, <1>0, <1>2, <1>7, GoneStays
<1> QED BY <1>8, <1>9, <1>10, <1>11 DEF CollectionsInv, Kept

\* Nothing that is gone comes back, and nothing comes below another.
LEMMA ShrinkKeeps ==
  ASSUME TypeOK, NEW b \in Actors, Kept(b), Shrinks, op'[b] = op[b], drawn \subseteq drawn',
         \A t \in Collections : parent'[t] # Absent => parent[t] # Absent
  PROVE  Kept(b)'
<1>1. \A t \in Collections : Tree(t)' \subseteq Tree(t)
  BY TreeShrinks
<1>2. op[b] \in Ops /\ drawn \subseteq Collections
  BY Typed
<1>3. Listed(b)'
  <2> SUFFICES ASSUME Deleting(b)', NEW t \in op[b].tree, Exists(t)'
               PROVE  Tree(t)' \subseteq op[b].tree \union op[b].late
    BY DEF Listed
  <2>1. t \in Collections
    BY <1>2 DEF Ops
  <2>2. Deleting(b) /\ Exists(t)
    BY <2>1, Ids DEF Deleting, Exists
  <2> QED BY <1>1, <2>1, <2>2 DEF Kept, Listed
<1>4. Given(b)'
  BY DEF Kept, Given
<1>5. Moving(b)'
  <2> SUFFICES ASSUME op[b].pc = "move"
               PROVE  /\ op[b].at \in drawn' /\ op[b].to \in drawn' /\ op[b].at # op[b].to
                      /\ ~op[b].stale => op[b].to \notin Tree(op[b].at)'
    BY DEF Moving, At
  <2>1. /\ op[b].at \in drawn /\ op[b].to \in drawn /\ op[b].at # op[b].to
        /\ ~op[b].stale => op[b].to \notin Tree(op[b].at)
    BY DEF Kept, Moving, At
  <2>2. Tree(op[b].at)' \subseteq Tree(op[b].at)
    BY <1>1, <1>2, <2>1 DEF Tree
  <2> QED BY <2>1, <2>2
<1> QED BY <1>3, <1>4, <1>5 DEF Kept

LEMMA MoveToTopKeeps == ASSUME CollectionsInv, NEW c \in Collections, MoveToTop(c) PROVE CollectionsInv' /\ Shrinks
<1>0. TypeOK /\ ParentsExist /\ GoneAreAnnounced /\ \A b \in Actors : Kept(b)
  BY DEF CollectionsInv, Kept
<1>1. /\ parent \in [Collections -> Collections \union {Top, Absent}] /\ parent[c] # Absent
      /\ parent'[c] = Top /\ \A d \in Collections \ {c} : parent'[d] = parent[d]
      /\ parent' \in [Collections -> Collections \union {Top, Absent}]
      /\ UNCHANGED <<drawn, stored, members, announced, op, orphaned>>
  BY <1>0, Typed DEF MoveToTop
<1>2. Shrinks /\ \A t \in Collections : parent'[t] # Absent <=> parent[t] # Absent
  BY <1>1, Ids DEF Shrinks
<1>3. TypeOK'
  <2>1. {d \in Collections : parent'[d] # Absent} = {d \in Collections : parent[d] # Absent}
    BY <1>2
  <2>2. {d \in Collections : parent'[d] = Absent} = {d \in Collections : parent[d] = Absent}
    BY <1>2
  <2> QED BY <2>1, <2>2, <1>0, <1>1 DEF TypeOK
<1>4. ParentsExist'
  BY <1>0, <1>1, <1>2 DEF ParentsExist, Exists
<1>5. ASSUME NEW b \in Actors PROVE Kept(b)'
  BY <1>0, <1>1, <1>2, ShrinkKeeps
<1>6. GoneAreAnnounced'
  <2>1. \A d \in drawn' : parent'[d] = Absent => d \in drawn /\ parent[d] = Absent
    BY <1>0, <1>1, <1>2, Typed
  <2> QED BY <2>1, <1>0, <1>1, GoneStays
<1> QED BY <1>2, <1>3, <1>4, <1>5, <1>6 DEF CollectionsInv, Kept

LEMMA WriteMoveKeeps == ASSUME CollectionsInv, NEW a \in Actors, WriteMove(a) PROVE CollectionsInv'
<1> DEFINE c == op[a].at
           p == op[a].to
<1>0. TypeOK /\ ParentsExist /\ GoneAreAnnounced /\ \A b \in Actors : Kept(b)
  BY DEF CollectionsInv, Kept
<1>1. /\ op[a].pc = "move" /\ c \in drawn /\ p \in drawn /\ c # p
      /\ UNCHANGED <<drawn, stored, members, announced, orphaned>>
      /\ op \in [Actors -> Ops] /\ drawn \subseteq Collections
      /\ parent \in [Collections -> Collections \union {Top, Absent}]
  BY <1>0, Typed DEF WriteMove, At, Kept, Moving
<1>2. CASE ~(Exists(c) /\ Exists(p))
  <2>1. parent' = parent /\ op' = [op EXCEPT ![a] = Idle]
    BY <1>2 DEF WriteMove, Return
  <2>2. op' \in [Actors -> Ops] /\ op'[a] = Idle /\ \A b \in Actors \ {a} : op'[b] = op[b]
    BY <2>1, <1>1, IdleOp, OneTurns
  <2>3. TypeOK' /\ ParentsExist'
    BY <2>1, <2>2, <1>0, <1>1, SameForest DEF TypeOK, Ops
  <2>4. ASSUME NEW b \in Actors PROVE Kept(b)'
    <3>1. CASE b = a
      BY <3>1, <2>2, IdleOp, NothingKept
    <3>2. CASE b # a
      BY <3>2, <2>1, <2>2, <1>0, <1>1, KeptStays
    <3> QED BY <3>1, <3>2
  <2>5. GoneAreAnnounced'
    BY <2>1, <2>2, <1>0, <1>1, GoneStays
  <2> QED BY <2>3, <2>4, <2>5 DEF CollectionsInv, Kept
<1>3. CASE Exists(c) /\ Exists(p)
  <2> DEFINE unseen == Unseen(Tree(c), p)
  <2>1. /\ parent' = [parent EXCEPT ![c] = p]
        /\ op' = [b \in Actors |-> IF b = a THEN Idle ELSE [unseen[b] EXCEPT !.stale = At(b, "move")]]
    BY <1>3 DEF WriteMove
  <2> HIDE DEF c, p
  <2>2. /\ c \in Collections /\ Grafts(c, p) /\ parent[c] # Absent /\ parent[p] # Absent /\ p \in Collections
        /\ Tree(c) \in SUBSET Collections /\ Tree(c) \subseteq drawn
    <3>1. c \in Collections /\ p \in Collections /\ parent[c] # Absent /\ parent[p] # Absent
      BY <1>1, <1>3, Ids DEF Exists
    <3>2. Tree(c) \subseteq drawn /\ Tree(c) \in SUBSET Collections
      BY <3>1, <1>0, <1>3, TreeExists, TreeClosed, Typed
    <3> QED BY <3>1, <3>2, <2>1 DEF Grafts
  <2>3. ASSUME NEW b \in Actors PROVE UnseenSpec(unseen[b], Tree(c), p, b)
    BY <1>0, <2>2, UnseenIs
  <2> HIDE DEF unseen
  <2>4. op'[a] = Idle /\ \A b \in Actors \ {a} : op'[b] = [unseen[b] EXCEPT !.stale = At(b, "move")]
    BY <2>1
  <2>5. \A b \in Actors \ {a} :
          /\ op'[b] \in Ops /\ op'[b].pc = op[b].pc /\ op'[b].at = op[b].at /\ op'[b].to = op[b].to
          /\ op'[b].tree = op[b].tree /\ op'[b].late = unseen[b].late /\ op'[b].stale = At(b, "move")
    <3> SUFFICES ASSUME NEW b \in Actors \ {a}
                 PROVE  /\ op'[b] \in Ops /\ op'[b].pc = op[b].pc /\ op'[b].at = op[b].at /\ op'[b].to = op[b].to
                        /\ op'[b].tree = op[b].tree /\ op'[b].late = unseen[b].late /\ op'[b].stale = At(b, "move")
      OBVIOUS
    <3>1. At(b, "move") \in BOOLEAN
      BY DEF At
    <3>2. UnseenSpec(unseen[b], Tree(c), p, b)
      BY <2>3
    <3> QED BY <3>1, <3>2, <2>4 DEF UnseenSpec, Ops
  <2>6. /\ \A t \in Collections : parent'[t] # Absent <=> parent[t] # Absent
        /\ parent' \in [Collections -> Collections \union {Top, Absent}]
        /\ parent'[c] = p /\ \A d \in Collections \ {c} : parent'[d] = parent[d]
    BY <2>1, <2>2, <1>1, Ids
  <2>7. TypeOK'
    <3>1. {d \in Collections : parent'[d] # Absent} = {d \in Collections : parent[d] # Absent}
      BY <2>6
    <3>2. {d \in Collections : parent'[d] = Absent} = {d \in Collections : parent[d] = Absent}
      BY <2>6
    <3>3. op' \in [Actors -> Ops]
      BY <2>1, <2>4, <2>5, IdleOp
    <3> QED BY <3>1, <3>2, <3>3, <2>6, <1>0, <1>1 DEF TypeOK, Ops
  <2>8. ParentsExist'
    BY <1>0, <1>3, <2>2, <2>6 DEF ParentsExist, Exists
  <2>9. ASSUME NEW b \in Actors PROVE Kept(b)'
    <3>1. CASE b = a
      BY <3>1, <2>4, IdleOp, NothingKept
    <3>2. CASE b # a
      <4>1. Listed(b)' /\ Given(b)'
        <5>1. \A t \in op[b].tree : Exists(t)' => Exists(t)
          BY <1>1, <2>6, Ids DEF Exists, Ops
        <5>2. Kept(b) /\ Tree(c) \subseteq drawn' /\ drawn \subseteq drawn'
          BY <1>0, <1>1, <2>2
        <5> QED BY <5>1, <5>2, <3>2, <1>0, <2>2, <2>5, GraftKeeps DEF unseen
      <4>2. Moving(b)'
        <5> SUFFICES ASSUME op[b].pc = "move"
                     PROVE  op[b].at \in drawn' /\ op[b].to \in drawn' /\ op[b].at # op[b].to /\ op'[b].stale
          BY <3>2, <2>5 DEF Moving, At
        <5> QED BY <3>2, <1>0, <1>1, <2>5 DEF Kept, Moving, At
      <4> QED BY <4>1, <4>2 DEF Kept
    <3> QED BY <3>1, <3>2
  <2>10. GoneAreAnnounced'
    <3>1. \A d \in drawn' : parent'[d] = Absent => d \in drawn /\ parent[d] = Absent
      BY <1>1, <2>6
    <3>2. \A b \in Actors : op[b].pc = "announce" => b # a
      BY <1>1
    <3> QED BY <3>1, <3>2, <1>0, <1>1, <2>5, GoneStays
  <2> QED BY <2>7, <2>8, <2>9, <2>10 DEF CollectionsInv, Kept
<1> QED BY <1>2, <1>3

\* A move that was checked against the tree as it is closes no cycle.
LEMMA FreshMoveKeepsForest ==
  ASSUME CollectionsInv, NEW a \in Actors, WriteMove(a), ~op[a].stale, IsForest
  PROVE  IsForest'
<1> DEFINE c == op[a].at
           p == op[a].to
<1>1. /\ c \in Collections /\ p \notin Tree(c) /\ parent \in [Collections -> Collections \union {Top, Absent}]
  BY Typed DEF CollectionsInv, Moving, WriteMove, At
<1>2. CASE parent' = parent
  BY <1>2, SameForest DEF IsForest, QueryEnds
<1>3. CASE parent' = [parent EXCEPT ![c] = p]
  <2>1. Grafts(c, p)
    BY <1>1, <1>3 DEF Grafts
  <2> HIDE DEF c, p
  <2> QED BY <1>1, <2>1, ForestGrafts
<1> QED BY <1>2, <1>3 DEF WriteMove

\* The steps that leave every collection where it is.
Still == parent' = parent /\ drawn' = drawn

LEMMA StillTyped ==
  ASSUME TypeOK, Still, op' \in [Actors -> Ops], stored' \subseteq Files, announced' \subseteq drawn, orphaned' \subseteq drawn,
         members' \subseteq stored' \X {c \in Collections : parent[c] # Absent}
  PROVE  TypeOK'
BY DEF TypeOK, Ops, Still

LEMMA StillKeeps ==
  ASSUME CollectionsInv, Still, TypeOK', announced \subseteq announced', orphaned \subseteq orphaned',
         \A b \in Actors : op'[b] = op[b] \/ Kept(b)',
         \A b \in Actors : op[b].pc = "announce" =>
           op[b].tree \subseteq announced' \union orphaned' \/ (op'[b].pc = "announce" /\ op'[b].tree = op[b].tree)
  PROVE  CollectionsInv'
<1>1. ParentsExist'
  BY SameForest DEF CollectionsInv, Still
<1>2. ASSUME NEW b \in Actors PROVE Kept(b)'
  <2>1. Kept(b)
    BY DEF CollectionsInv, Kept
  <2> QED BY <2>1, KeptStays DEF Still
<1>3. GoneAreAnnounced'
  BY GoneStays DEF CollectionsInv, Still
<1> QED BY <1>1, <1>2, <1>3 DEF CollectionsInv, Kept

\* One request goes on, and only its progress changes.
LEMMA GoesOnKeeps ==
  ASSUME CollectionsInv, Still, NEW a \in Actors, NEW m \in Ops, op' = [op EXCEPT ![a] = m],
         UNCHANGED <<announced, orphaned>>, stored' \subseteq Files,
         members' \subseteq stored' \X {c \in Collections : parent[c] # Absent},
         op[a].pc # "announce", op'[a] = m => Kept(a)'
  PROVE  CollectionsInv'
<1>1. TypeOK /\ op \in [Actors -> Ops]
  BY Typed DEF CollectionsInv
<1>2. op' \in [Actors -> Ops] /\ op'[a] = m /\ \A b \in Actors \ {a} : op'[b] = op[b]
  BY <1>1, OneTurns
<1>3. TypeOK'
  <2>1. announced' \subseteq drawn /\ orphaned' \subseteq drawn
    BY <1>1 DEF TypeOK
  <2> QED BY <2>1, <1>1, <1>2, StillTyped
<1> QED BY <1>2, <1>3, StillKeeps

LEMMA MembersOf ==
  ASSUME CollectionsInv
  PROVE  /\ members \subseteq stored \X {c \in Collections : parent[c] # Absent} /\ stored \subseteq Files
         /\ op \in [Actors -> Ops]
BY Typed DEF CollectionsInv, TypeOK

LEMMA FilesKeep ==
  ASSUME CollectionsInv, NEW f \in Files,
         (\E c \in Collections : AddFile(c, f) \/ RemoveFile(c, f)) \/ DeleteFile(f)
  PROVE  CollectionsInv'
<1>1. Still /\ UNCHANGED <<announced, op, orphaned>>
  BY DEF AddFile, RemoveFile, DeleteFile, Still
<1>2. stored' \subseteq Files /\ members' \subseteq stored' \X {d \in Collections : parent[d] # Absent}
  <2>1. CASE DeleteFile(f)
    BY <2>1, MembersOf DEF DeleteFile, EraseFile
  <2>2. CASE \E c \in Collections : AddFile(c, f) \/ RemoveFile(c, f)
    BY <2>2, MembersOf DEF AddFile, RemoveFile
  <2> QED BY <2>1, <2>2
<1>3. TypeOK'
  <2>1. TypeOK /\ announced' \subseteq drawn /\ orphaned' \subseteq drawn
    BY <1>1 DEF CollectionsInv, TypeOK
  <2>2. op' \in [Actors -> Ops]
    BY <1>1, MembersOf
  <2> QED BY <2>1, <2>2, <1>1, <1>2, StillTyped
<1> QED BY <1>1, <1>3, StillKeeps

LEMMA MoveKeeps ==
  ASSUME CollectionsInv, NEW a \in Actors, NEW c \in Collections, NEW p \in Collections, Move(a, c, p)
  PROVE  CollectionsInv'
<1>1. /\ op[a].pc = "idle" /\ parent[c] # Absent /\ parent[p] # Absent /\ p # c /\ Still
      /\ UNCHANGED <<stored, members, announced, orphaned>>
      /\ op[a] \in Ops
  BY MembersOf DEF Move, At, Still, library
<1>2. CASE QueryEnds(c)
  <2> DEFINE m == [Idle EXCEPT !.pc = "move", !.at = c, !.to = p]
  <2>1. p \notin Descendants(c) /\ op' = [op EXCEPT ![a] = m]
    BY <1>2 DEF Move
  <2>2. m \in Ops /\ m.pc = "move" /\ m.at = c /\ m.to = p /\ m.tree = {} /\ m.late = {} /\ ~m.stale
    BY DEF Idle, Ops, Steps
  <2> HIDE DEF m
  <2>3. p \notin Tree(c)
    <3> DEFINE all == {c} \union Descendants(c)
    <3>1. all \in SUBSET Collections /\ c \in all
      BY TreeClosed DEF Descendants
    <3>2. Closed(all)
      <4> SUFFICES ASSUME NEW d \in Collections, parent[d] \in all PROVE d \in all
        BY DEF Closed
      <4>1. CASE parent[d] = c
        BY <4>1, TreeClosed DEF Descendants
      <4>2. CASE parent[d] \in Descendants(c)
        <5>1. PICK e \in Collections : parent[e] = c /\ parent[d] \in Tree(e)
          BY <4>2 DEF Descendants
        <5>2. d \in Tree(e)
          BY <5>1, TreeClosed DEF Closed
        <5> QED BY <5>1, <5>2 DEF Descendants
      <4> QED BY <4>1, <4>2
    <3> HIDE DEF all
    <3>3. Tree(c) \subseteq all
      BY <3>1, <3>2, TreeLeast
    <3> QED BY <3>3, <2>1, <1>1 DEF all
  <2>4. ASSUME op'[a] = m PROVE Kept(a)'
    <3>1. c \in drawn /\ p \in drawn
      BY <1>1, Typed DEF CollectionsInv
    <3>2. Tree(c)' = Tree(c)
      BY <1>1, SameForest DEF Still
    <3>3. Listed(a)' /\ Given(a)'
      BY <2>2, <2>4 DEF Listed, Deleting, Given
    <3>4. op'[a].at = c /\ op'[a].to = p /\ op'[a].pc = "move"
      BY <2>2, <2>4
    <3>5. Tree(op[a].at)' = Tree(c)
      BY <3>2, <3>4 DEF Tree
    <3>6. Moving(a)'
      BY <1>1, <2>3, <3>1, <3>4, <3>5 DEF Moving, At, Still
    <3> QED BY <3>3, <3>6 DEF Kept
  <2> QED BY <1>1, <2>1, <2>2, <2>4, MembersOf, GoesOnKeeps
<1>3. CASE ~QueryEnds(c)
  <2> DEFINE m == [op[a] EXCEPT !.pc = "hung"]
  <2>1. op' = [op EXCEPT ![a] = m]
    BY <1>3 DEF Move, Goto
  <2>2. m \in Ops /\ m.pc = "hung" /\ m.tree = op[a].tree /\ m.late = op[a].late
    BY <1>1 DEF Ops, Steps
  <2> HIDE DEF m
  <2>3. ASSUME op'[a] = m PROVE Kept(a)'
    <3>1. op[a].tree \union op[a].late \subseteq drawn'
      BY <1>1 DEF CollectionsInv, Given, Still
    <3> QED BY <2>2, <2>3, <3>1, NothingKept
  <2> QED BY <1>1, <2>1, <2>2, <2>3, MembersOf, GoesOnKeeps
<1> QED BY <1>2, <1>3

LEMMA DeleteKeeps ==
  ASSUME CollectionsInv, NEW a \in Actors, NEW c \in Collections, NEW withFiles \in BOOLEAN, Delete(a, c, withFiles)
  PROVE  CollectionsInv'
<1>1. /\ op[a].pc = "idle" /\ parent[c] # Absent /\ Still /\ UNCHANGED <<stored, members, announced, orphaned>>
  BY DEF Delete, At, Still, library
<1>2. CASE QueryEnds(c)
  <2> DEFINE m == [Idle EXCEPT !.at = c, !.tree = Tree(c), !.pc = IF withFiles THEN "collect" ELSE "drop"]
  <2>1. op' = [op EXCEPT ![a] = m]
    BY <1>2 DEF Delete
  <2>2. m \in Ops /\ m.pc \in {"collect", "drop"} /\ m.tree = Tree(c) /\ m.late = {}
    <3>1. Tree(c) \in SUBSET Collections
      BY TreeClosed
    <3>2. (IF withFiles THEN "collect" ELSE "drop") \in Steps \cap {"collect", "drop"}
      BY DEF Steps
    <3> QED BY <3>1, <3>2 DEF Idle, Ops
  <2> HIDE DEF m
  <2>3. ASSUME op'[a] = m PROVE Kept(a)'
    <3>1. op'[a].tree = Tree(c) /\ op'[a].late = {} /\ op'[a].pc # "move"
      BY <2>2, <2>3
    <3>2. Tree(c) \subseteq drawn
      BY <1>1, TreeExists, TreeClosed, Typed DEF CollectionsInv, Exists
    <3>3. Given(a)' /\ Moving(a)'
      BY <1>1, <3>1, <3>2 DEF Given, Moving, At, Still
    <3>4. ASSUME NEW t \in Tree(c) PROVE Tree(t)' \subseteq Tree(c)
      <4>1. Tree(t)' = Tree(t)
        BY <1>1, SameForest DEF Still
      <4> QED BY <4>1, TreeBelow
    <3>5. Listed(a)'
      BY <3>1, <3>4 DEF Listed
    <3> QED BY <3>3, <3>5 DEF Kept
  <2> QED BY <1>1, <2>1, <2>2, <2>3, MembersOf, GoesOnKeeps
<1>3. CASE ~QueryEnds(c)
  <2> DEFINE m == [Idle EXCEPT !.pc = "hung"]
  <2>1. op' = [op EXCEPT ![a] = m]
    BY <1>3 DEF Delete
  <2>2. m \in Ops /\ m.pc = "hung" /\ m.tree = {} /\ m.late = {}
    BY DEF Idle, Ops, Steps
  <2> HIDE DEF m
  <2>3. ASSUME op'[a] = m PROVE Kept(a)'
    BY <2>2, <2>3, NothingKept
  <2> QED BY <1>1, <2>1, <2>2, <2>3, MembersOf, GoesOnKeeps
<1> QED BY <1>2, <1>3

\* A deletion goes on with what it listed.
LEMMA DeletionGoesOn ==
  ASSUME CollectionsInv, Still, NEW a \in Actors, Deleting(a), op'[a].pc \in {"collect", "files", "drop"},
         op'[a].tree = op[a].tree, op'[a].late = op[a].late
  PROVE  Kept(a)'
<1>1. Listed(a) /\ Given(a)
  BY DEF CollectionsInv
<1>2. ASSUME NEW t \in op[a].tree, Exists(t)' PROVE Tree(t)' \subseteq op[a].tree \union op[a].late
  <2>1. Tree(t)' = Tree(t) /\ Exists(t)
    BY <1>2, SameForest DEF Still
  <2> QED BY <1>1, <2>1 DEF Listed
<1>3. Listed(a)'
  BY <1>2 DEF Listed
<1>4. Given(a)' /\ Moving(a)'
  BY <1>1 DEF Given, Moving, At, Still
<1> QED BY <1>3, <1>4 DEF Kept

LEMMA CollectKeeps == ASSUME CollectionsInv, NEW a \in Actors, Collect(a) PROVE CollectionsInv'
<1>1. /\ op[a].pc = "collect" /\ Still /\ UNCHANGED <<stored, members, announced, orphaned>> /\ op[a] \in Ops
  BY MembersOf DEF Collect, At, Still, library
<1>2. PICK some \in SUBSET Exclusive(op[a].tree) :
        op' = [op EXCEPT ![a].files = some, ![a].pc = IF some = {} THEN "drop" ELSE "files"]
  BY DEF Collect
<1> DEFINE m == [op[a] EXCEPT !.files = some, !.pc = IF some = {} THEN "drop" ELSE "files"]
<1>3. op' = [op EXCEPT ![a] = m]
  BY <1>2
<1>4. m \in Ops /\ m.pc \in {"drop", "files"} /\ m.tree = op[a].tree /\ m.late = op[a].late
  <2>1. some \in SUBSET Files
    BY MembersOf DEF Exclusive
  <2>2. (IF some = {} THEN "drop" ELSE "files") \in Steps \cap {"drop", "files"}
    BY DEF Steps
  <2> QED BY <1>1, <2>1, <2>2 DEF Ops
<1> HIDE DEF m
<1>5. ASSUME op'[a] = m PROVE Kept(a)'
  BY <1>1, <1>4, <1>5, DeletionGoesOn DEF Deleting
<1> QED BY <1>1, <1>3, <1>4, <1>5, MembersOf, GoesOnKeeps

LEMMA EraseNextKeeps == ASSUME CollectionsInv, NEW a \in Actors, EraseNext(a) PROVE CollectionsInv'
<1>1. /\ op[a].pc = "files" /\ Still /\ UNCHANGED <<announced, orphaned>> /\ op[a] \in Ops
      /\ members \subseteq stored \X {c \in Collections : parent[c] # Absent} /\ stored \subseteq Files
  BY MembersOf DEF EraseNext, At, Still
<1>2. PICK f \in op[a].files :
       IF f \in stored
       THEN /\ EraseFile(f)
            /\ op' = [op EXCEPT ![a].files = @ \ {f}, ![a].pc = IF op[a].files = {f} THEN "collect" ELSE "files"]
       ELSE Return(a) /\ UNCHANGED <<stored, members>>
  BY DEF EraseNext
<1>3. CASE f \in stored
  <2> DEFINE m == [op[a] EXCEPT !.files = @ \ {f}, !.pc = IF op[a].files = {f} THEN "collect" ELSE "files"]
  <2>1. op' = [op EXCEPT ![a] = m] /\ EraseFile(f)
    BY <1>2, <1>3
  <2>2. m \in Ops /\ m.pc \in {"collect", "files"} /\ m.tree = op[a].tree /\ m.late = op[a].late
    <3>1. (IF op[a].files = {f} THEN "collect" ELSE "files") \in Steps \cap {"collect", "files"}
      BY DEF Steps
    <3> QED BY <1>1, <3>1 DEF Ops
  <2> HIDE DEF m
  <2>3. ASSUME op'[a] = m PROVE Kept(a)'
    BY <1>1, <2>2, <2>3, DeletionGoesOn DEF Deleting
  <2>4. stored' \subseteq Files /\ members' \subseteq stored' \X {c \in Collections : parent[c] # Absent}
    BY <1>1, <2>1 DEF EraseFile
  <2> QED BY <1>1, <2>1, <2>2, <2>3, <2>4, GoesOnKeeps
<1>4. CASE f \notin stored
  <2>1. op' = [op EXCEPT ![a] = Idle] /\ UNCHANGED <<stored, members>>
    BY <1>2, <1>4 DEF Return
  <2>2. ASSUME op'[a] = Idle PROVE Kept(a)'
    BY <2>2, IdleOp, NothingKept
  <2> QED BY <1>1, <2>1, <2>2, IdleOp, GoesOnKeeps
<1> QED BY <1>3, <1>4

\* A request ends; what it listed and did not announce is accounted for.
LEMMA EndsKeeps ==
  ASSUME CollectionsInv, Still, NEW a \in Actors, Return(a), UNCHANGED <<stored, members>>,
         announced \subseteq announced', announced' \subseteq announced \union op[a].tree,
         orphaned \subseteq orphaned', orphaned' \subseteq orphaned \union op[a].tree,
         op[a].pc = "announce" => op[a].tree \subseteq announced' \union orphaned'
  PROVE  CollectionsInv'
<1>1. TypeOK /\ op \in [Actors -> Ops] /\ Given(a)
  BY MembersOf DEF CollectionsInv
<1>2. op' \in [Actors -> Ops] /\ op'[a] = Idle /\ \A b \in Actors \ {a} : op'[b] = op[b]
  BY <1>1, OneTurns, IdleOp DEF Return
<1>3. TypeOK'
  <2>1. announced' \subseteq drawn /\ orphaned' \subseteq drawn
    BY <1>1 DEF TypeOK, Given
  <2> QED BY <2>1, <1>1, <1>2, MembersOf, StillTyped
<1>4. Kept(a)'
  BY <1>2, IdleOp, NothingKept
<1> QED BY <1>2, <1>3, <1>4, StillKeeps

LEMMA AnnounceKeeps == ASSUME CollectionsInv, NEW a \in Actors, Announce(a) PROVE CollectionsInv'
BY EndsKeeps DEF Announce, Still

LEMMA CutKeeps == ASSUME CollectionsInv, NEW a \in Actors, Cut(a) PROVE CollectionsInv'
<1>1. Still /\ Return(a) /\ UNCHANGED <<stored, members, announced>>
  BY DEF Cut, Still, library
<1>2. orphaned \subseteq orphaned' /\ orphaned' \subseteq orphaned \union op[a].tree
  BY DEF Cut
<1>3. op[a].pc = "announce" => op[a].tree \subseteq orphaned'
  BY DEF Cut, At
<1> QED BY <1>1, <1>2, <1>3, EndsKeeps

LEMMA DropKeeps == ASSUME CollectionsInv, NEW a \in Actors, Drop(a) PROVE CollectionsInv' /\ Shrinks
<1> DEFINE gone == {d \in UNION {Tree(c) : c \in {t \in op[a].tree : Exists(t)}} : Exists(d)}
<1>0. TypeOK /\ ParentsExist /\ GoneAreAnnounced /\ \A b \in Actors : Kept(b)
  BY DEF CollectionsInv, Kept
<1>1. /\ op[a].pc = "drop" /\ UNCHANGED <<drawn, stored, announced>>
      /\ parent' = [d \in Collections |-> IF d \in gone THEN Absent ELSE parent[d]]
      /\ members' = {m \in members : m[2] \notin gone}
      /\ orphaned' = orphaned \union (gone \intersect op[a].late)
      /\ op' = [op EXCEPT ![a].pc = "announce", ![a].late = {}]
  BY DEF Drop, At
<1>2. /\ parent \in [Collections -> Collections \union {Top, Absent}] /\ op \in [Actors -> Ops]
      /\ drawn \subseteq Collections /\ op[a] \in Ops
      /\ \A c \in Collections : parent[c] # Absent => c \in drawn
  BY <1>0, Typed
<1>3. gone \subseteq Collections /\ gone \subseteq drawn /\ gone \subseteq op[a].tree \union op[a].late
  <2> SUFFICES ASSUME NEW d \in gone PROVE d \in Collections /\ d \in drawn /\ d \in op[a].tree \union op[a].late
    OBVIOUS
  <2>1. PICK t \in op[a].tree : Exists(t) /\ d \in Tree(t) /\ Exists(d)
    OBVIOUS
  <2>2. t \in Collections
    BY <1>2 DEF Ops
  <2>3. d \in Collections /\ parent[d] # Absent
    BY <2>1, <2>2, TreeClosed, TreeExists
  <2>4. Tree(t) \subseteq op[a].tree \union op[a].late
    BY <1>0, <1>1, <2>1 DEF Kept, Listed, Deleting
  <2> QED BY <1>2, <2>1, <2>3, <2>4
<1>4. \A d \in Collections : parent[d] \in gone /\ parent[d] # Absent => d \in gone
  <2> SUFFICES ASSUME NEW d \in Collections, parent[d] \in gone PROVE d \in gone
    OBVIOUS
  <2>1. PICK t \in op[a].tree : Exists(t) /\ parent[d] \in Tree(t)
    OBVIOUS
  <2>2. t \in Collections
    BY <1>2 DEF Ops
  <2>3. d \in Tree(t)
    BY <2>1, <2>2, TreeClosed DEF Closed
  <2>4. Exists(d)
    BY <2>1, <2>2, <2>3, TreeExists DEF Exists
  <2> QED BY <2>1, <2>3, <2>4
<1> HIDE DEF gone
<1>5. /\ \A d \in Collections : d \in gone => parent'[d] = Absent
      /\ \A d \in Collections : d \notin gone => parent'[d] = parent[d]
      /\ parent' \in [Collections -> Collections \union {Top, Absent}]
  BY <1>1, <1>2
<1>6. Shrinks /\ \A t \in Collections : parent'[t] # Absent => parent[t] # Absent
  BY <1>5, Ids DEF Shrinks
<1> DEFINE m == [op[a] EXCEPT !.pc = "announce", !.late = {}]
<1>7. op' = [op EXCEPT ![a] = m]
  BY <1>1
<1>8. m \in Ops /\ m.pc = "announce" /\ m.late = {} /\ m.tree = op[a].tree
  BY <1>2 DEF Ops, Steps
<1> HIDE DEF m
<1>9. op' \in [Actors -> Ops] /\ op'[a] = m /\ \A b \in Actors \ {a} : op'[b] = op[b]
  BY <1>2, <1>7, <1>8, OneTurns
<1>10. TypeOK'
  <2>1. members' \subseteq stored' \X {d \in Collections : parent'[d] # Absent}
    <3> SUFFICES ASSUME NEW x \in members' PROVE x \in stored \X {d \in Collections : parent'[d] # Absent}
      BY <1>1
    <3>1. x \in members /\ x[2] \notin gone
      BY <1>1
    <3>2. x \in stored \X {d \in Collections : parent[d] # Absent}
      BY <3>1, MembersOf
    <3>3. x[2] \in Collections /\ parent[x[2]] # Absent
      BY <3>2
    <3>4. parent'[x[2]] # Absent
      BY <3>1, <3>3, <1>5
    <3> QED BY <3>2, <3>3, <3>4
  <2>2. Collections \ drawn' \subseteq {d \in Collections : parent'[d] = Absent}
    BY <1>1, <1>2, <1>6
  <2>3. announced' \subseteq drawn' /\ orphaned' \subseteq drawn' /\ stored' \subseteq Files /\ drawn' \subseteq Collections
    BY <1>0, <1>1, <1>3 DEF TypeOK
  <2> QED BY <2>1, <2>2, <2>3, <1>5, <1>9 DEF TypeOK, Ops
<1>11. ParentsExist'
  <2> SUFFICES ASSUME NEW d \in Collections, parent'[d] # Absent PROVE Exists(parent[d])' /\ parent'[d] = parent[d]
    BY DEF ParentsExist, Exists
  <2>1. d \notin gone /\ parent'[d] = parent[d] /\ parent[d] # Absent
    BY <1>5
  <2>2. parent[d] \notin gone
    BY <1>4, <2>1
  <2>3. parent[d] = Top \/ (parent[d] \in Collections /\ parent[parent[d]] # Absent)
    BY <1>0, <2>1 DEF ParentsExist, Exists
  <2>4. parent'[d] = Top \/ (parent'[d] \in Collections /\ parent'[parent'[d]] # Absent)
    BY <1>5, <2>1, <2>2, <2>3
  <2> QED BY <2>1, <2>4 DEF Exists
<1>12. ASSUME NEW b \in Actors PROVE Kept(b)'
  <2>1. CASE b = a
    <3>1. op'[a].tree \union op'[a].late \subseteq drawn'
      BY <1>0, <1>1, <1>8, <1>9 DEF Kept, Given
    <3> QED BY <2>1, <3>1, <1>8, <1>9, NothingKept
  <2>2. CASE b # a
    BY <2>2, <1>0, <1>1, <1>6, <1>9, ShrinkKeeps
  <2> QED BY <2>1, <2>2
<1>13. GoneAreAnnounced'
  <2> SUFFICES ASSUME NEW d \in drawn, parent'[d] = Absent
               PROVE  d \in announced \union orphaned' \/ \E b \in Actors : op'[b].pc = "announce" /\ d \in op'[b].tree
    BY <1>1 DEF GoneAreAnnounced, At
  <2>1. CASE parent[d] = Absent
    <3>1. CASE d \in announced \union orphaned
      BY <3>1, <1>1
    <3>2. CASE \E b \in Actors : op[b].pc = "announce" /\ d \in op[b].tree
      <4>1. PICK b \in Actors : op[b].pc = "announce" /\ d \in op[b].tree
        BY <3>2
      <4>2. b # a
        BY <4>1, <1>1
      <4> QED BY <4>1, <4>2, <1>9
    <3> QED BY <2>1, <3>1, <3>2, <1>0 DEF GoneAreAnnounced, At
  <2>2. CASE parent[d] # Absent
    <3>1. d \in gone
      BY <2>2, <1>2, <1>5
    <3>2. d \in op[a].tree \/ d \in orphaned'
      BY <3>1, <1>1, <1>3
    <3> QED BY <3>2, <1>8, <1>9
  <2> QED BY <2>1, <2>2
<1> QED BY <1>6, <1>10, <1>11, <1>12, <1>13 DEF CollectionsInv, Kept

-------------------------------------------------------------------------------
(* The invariant holds throughout.                                              *)

LEMMA CollectionsStart == ASSUME Init PROVE CollectionsInv
<1>1. TypeOK
  BY IdleOp DEF Init, TypeOK, Ops
<1>2. ParentsExist
  BY DEF Init, ParentsExist
<1>3. \A a \in Actors : Listed(a) /\ Given(a) /\ Moving(a)
  BY IdleOp DEF Init, Listed, Deleting, Given, Moving, At
<1>4. GoneAreAnnounced
  BY DEF Init, GoneAreAnnounced
<1> QED BY <1>1, <1>2, <1>3, <1>4 DEF CollectionsInv

LEMMA CollectionsStutter == ASSUME CollectionsInv, UNCHANGED vars PROVE CollectionsInv'
<1>1. Still /\ UNCHANGED <<stored, members, announced, op, orphaned>>
  BY DEF vars, library, Still
<1>2. TypeOK'
  BY <1>1 DEF CollectionsInv, TypeOK, Still
<1> QED BY <1>1, <1>2, StillKeeps

LEMMA CollectionsStep == ASSUME CollectionsInv, [Next]_vars PROVE CollectionsInv'
<1>1. CASE UNCHANGED vars
  BY <1>1, CollectionsStutter
<1>2. ASSUME NEW p \in Collections \union {Top}, Create(p) PROVE CollectionsInv'
  BY <1>2, CreateKeeps
<1>3. ASSUME NEW c \in Collections, NEW f \in Files, AddFile(c, f) \/ RemoveFile(c, f) PROVE CollectionsInv'
  BY <1>3, FilesKeep
<1>4. ASSUME NEW f \in Files, DeleteFile(f) PROVE CollectionsInv'
  BY <1>4, FilesKeep
<1>5. ASSUME NEW c \in Collections, MoveToTop(c) PROVE CollectionsInv'
  BY <1>5, MoveToTopKeeps
<1>6. ASSUME NEW a \in Actors, NEW c \in Collections, NEW p \in Collections, Move(a, c, p) PROVE CollectionsInv'
  BY <1>6, MoveKeeps
<1>7. ASSUME NEW a \in Actors, NEW c \in Collections, NEW withFiles \in BOOLEAN, Delete(a, c, withFiles)
      PROVE  CollectionsInv'
  BY <1>7, DeleteKeeps
<1>8. ASSUME NEW a \in Actors, Step(a) \/ Cut(a) PROVE CollectionsInv'
  BY <1>8, WriteMoveKeeps, CollectKeeps, EraseNextKeeps, DropKeeps, AnnounceKeeps, CutKeeps DEF Step
<1> QED BY <1>1, <1>2, <1>3, <1>4, <1>5, <1>6, <1>7, <1>8 DEF Next

\* The invariant the theorems rest on, in every state of every behaviour.
THEOREM CollectionsInvariant == Spec => []CollectionsInv
<1>1. Init => CollectionsInv
  BY CollectionsStart
<1>2. CollectionsInv /\ [Next]_vars => CollectionsInv'
  BY CollectionsStep
<1> QED BY <1>1, <1>2, PTL DEF Spec

-------------------------------------------------------------------------------
(* What the run checks.                                                         *)

\* The tables and the requests in progress keep to their types: no file is in a collection
\* that is gone, and only ids that were given have a row.
THEOREM CollectionsTypeCorrect == Spec => []TypeOK
<1>1. CollectionsInv => TypeOK
  BY DEF CollectionsInv
<1> QED BY <1>1, CollectionsInvariant, PTL

\* Every collection that goes is named by a collectionDeleted, or will be, unless the
\* announcement was cut off or the collection came into the tree after it was listed
\* (collections.service.ts delete).
THEOREM DeletionsAreAnnounced == Spec => []GoneAreAnnounced
<1>1. CollectionsInv => GoneAreAnnounced
  BY DEF CollectionsInv
<1> QED BY <1>1, CollectionsInvariant, PTL

\* A step that closes a cycle is a move whose check is older than another move
\* (collections.service.ts update): creations, moves to the top and deletions never do.
LEMMA StepKeepsForest ==
  ASSUME CollectionsInv, Next, parent' # parent, IsForest
  PROVE  IsForest' \/ \E a \in Actors : op[a].stale /\ op'[a] = Idle
<1>1. ASSUME NEW p \in Collections \union {Top}, Create(p) PROVE IsForest'
  <2> DEFINE c == Fresh
  <2>1. c \in Collections \ drawn
    <3>1. \E d \in Collections : d \notin drawn
      BY <1>1, Typed DEF Create, CollectionsInv
    <3> QED BY <3>1 DEF Fresh
  <2>2. Grafts(c, p) /\ Exists(p)
    BY <1>1, <2>1 DEF Create, Grafts
  <2> HIDE DEF c
  <2>3. /\ parent \in [Collections -> Collections \union {Top, Absent}] /\ parent[c] = Absent /\ p # c
    BY <2>1, <2>2, Typed, Ids DEF CollectionsInv, Exists
  <2>4. Closed({c})
    BY <2>1, <2>3, Ids DEF CollectionsInv, ParentsExist, Exists, Closed
  <2>5. p \notin Tree(c)
    BY <2>1, <2>3, <2>4, TreeLeast
  <2> QED BY <2>2, <2>3, <2>5, ForestGrafts
<1>2. ASSUME NEW c \in Collections, MoveToTop(c) PROVE IsForest'
  BY <1>2, MoveToTopKeeps, ForestShrinks
<1>3. ASSUME NEW a \in Actors, Drop(a) PROVE IsForest'
  BY <1>3, DropKeeps, ForestShrinks
<1>4. ASSUME NEW a \in Actors, WriteMove(a) PROVE IsForest' \/ (op[a].stale /\ op'[a] = Idle)
  <2>1. op'[a] = Idle
    BY <1>4, MembersOf DEF WriteMove, Return
  <2> QED BY <1>4, <2>1, FreshMoveKeepsForest
<1>5. ASSUME NEW a \in Actors, Collect(a) \/ EraseNext(a) \/ Announce(a) \/ Cut(a) PROVE FALSE
  BY <1>5 DEF Collect, EraseNext, Announce, Cut, library
<1>6. ASSUME NEW c \in Collections, NEW f \in Files, AddFile(c, f) \/ RemoveFile(c, f) PROVE FALSE
  BY <1>6 DEF AddFile, RemoveFile
<1>7. ASSUME NEW f \in Files, DeleteFile(f) PROVE FALSE
  BY <1>7 DEF DeleteFile
<1>8. ASSUME NEW a \in Actors, NEW c \in Collections, NEW p \in Collections, Move(a, c, p) PROVE FALSE
  BY <1>8 DEF Move, library
<1>9. ASSUME NEW a \in Actors, NEW c \in Collections, NEW withFiles \in BOOLEAN, Delete(a, c, withFiles) PROVE FALSE
  BY <1>9 DEF Delete, library
<1> QED BY <1>1, <1>2, <1>3, <1>4, <1>5, <1>6, <1>7, <1>8, <1>9 DEF Next, Step

\* "A collection cannot be moved inside its own sub-collection": only a move whose check
\* is older than another move, written in between, ever closes a cycle.
THEOREM OnlyStaleMovesCycle == Spec => OnlyStaleMovesCloseCycles
<1>1. CollectionsInv /\ [Next]_vars =>
        [parent' # parent /\ IsForest => IsForest' \/ \E a \in Actors : op[a].stale /\ op'[a] = Idle]_vars
  BY StepKeepsForest
<1> QED BY <1>1, CollectionsInvariant, PTL DEF Spec, OnlyStaleMovesCloseCycles
================================================================================
