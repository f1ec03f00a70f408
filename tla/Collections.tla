------------------------------ MODULE Collections ------------------------------
(* The collections of one user in upload-manager: a forest of collections, the  *)
(* files in them, and the deletion of a whole tree with the files that are in   *)
(* no other collection (upload-manager/src/collections/collections.service.ts). *)
(* No operation holds a transaction: each reads the tree, and writes later what *)
(* it decided from it, while other requests move, add and delete.               *)
EXTENDS Integers, FiniteSets

CONSTANTS
  Actors,      \* requests in progress at once
  Collections, \* ids of collections
  Top,         \* the parent of a top-level collection
  Absent,      \* the parent of an id that is not in the table
  Files,
  Batch        \* DELETE_BATCH: files read, then deleted, in one round

ASSUME CollectionsAssumption ==
  /\ Top \notin Collections /\ Absent \notin Collections /\ Top # Absent
  /\ Batch \in Nat \ {0}

VARIABLES
  parent,    \* of each collection
  drawn,     \* ids already given to a collection
  stored,    \* files that are there
  members,   \* <<file, collection>>: the rows of file_collections
  announced, \* collections named by a collectionDeleted
  op,        \* what each actor is doing
  orphaned   \* collections that went with a tree they came into late, or whose announcement was cut off

library == <<parent, drawn, stored, members, announced>>
vars    == <<library, op, orphaned>>

Steps == {"idle", "move", "collect", "files", "drop", "announce", "hung"}

Idle == [pc |-> "idle", at |-> Top, to |-> Top, tree |-> {}, late |-> {}, files |-> {}, stale |-> FALSE]

TypeOK ==
  /\ parent \in [Collections -> Collections \union {Top, Absent}]
  /\ drawn \subseteq Collections /\ Collections \ drawn \subseteq {c \in Collections : parent[c] = Absent}
  /\ stored \subseteq Files
  /\ members \subseteq stored \X {c \in Collections : parent[c] # Absent}
  /\ announced \subseteq drawn /\ orphaned \subseteq drawn
  /\ op \in [Actors -> [pc : Steps, at : Collections \union {Top}, to : Collections \union {Top},
                        tree : SUBSET Collections, late : SUBSET Collections, files : SUBSET Files, stale : BOOLEAN]]

Init ==
  /\ parent = [c \in Collections |-> Absent]
  /\ drawn = {}
  /\ stored = Files
  /\ members = {}
  /\ announced = {}
  /\ op = [a \in Actors |-> Idle]
  /\ orphaned = {}

-------------------------------------------------------------------------------
Exists(c) == c \in {Top} \union {d \in Collections : parent[d] # Absent}

\* c and everything below it: what the recursive query finds, which starts from c and adds the
\* collections below those it has until there are no more.
Closed(found) == \A d \in Collections : parent[d] \in found => d \in found
Tree(c) == {d \in Collections : \A found \in SUBSET Collections : c \in found /\ Closed(found) => d \in found}

Descendants(c) == UNION {Tree(d) : d \in {e \in Collections : parent[e] = c}}

\* UNION ALL follows a cycle for ever: the query answers for a tree only.
QueryEnds(c) == parent[c] \notin Tree(c)

\* The files of the tree that are in no collection outside it.
Exclusive(tree) ==
  {f \in stored : /\ \E c \in tree : <<f, c>> \in members
                  /\ \A c \in Collections \ tree : <<f, c>> \notin members}

\* The id of the next collection.
Fresh == CHOOSE c \in Collections : c \notin drawn

At(a, pc) == op[a].pc = pc
Goto(a, pc) == op' = [op EXCEPT ![a].pc = pc]
Return(a) == op' = [op EXCEPT ![a] = Idle]

\* What each actor has under way once the collections of branch came below p: its check
\* of a move did not see them, or the tree it listed for deletion lacks them.
Unseen(branch, p) ==
  [a \in Actors |->
     IF op[a].pc \in {"collect", "files", "drop"} /\ \E t \in op[a].tree : Exists(t) /\ p \in Tree(t)
     THEN [op[a] EXCEPT !.late = @ \union (branch \ op[a].tree)]
     ELSE op[a]]

-------------------------------------------------------------------------------
(* Requests. The reads that an insertion or an update by id checks again, by its  *)
(* foreign keys or because its row must be there, make one step with it.          *)

Create(p) ==
  /\ Exists(p) /\ drawn # Collections
  /\ drawn' = drawn \union {Fresh}
  /\ parent' = [parent EXCEPT ![Fresh] = p]
  /\ op' = Unseen({Fresh}, p)
  /\ UNCHANGED <<stored, members, announced, orphaned>>

MoveToTop(c) ==
  /\ parent[c] # Absent
  /\ parent' = [parent EXCEPT ![c] = Top]
  /\ UNCHANGED <<drawn, stored, members, announced, op, orphaned>>

\* Mutant: only the collections right below are looked at.
MoveOutOfChildren(a, c, p) ==
  /\ At(a, "idle") /\ parent[c] # Absent /\ parent[p] # Absent /\ p # c
  /\ IF QueryEnds(c)
     THEN parent[p] # c /\ op' = [op EXCEPT ![a] = [Idle EXCEPT !.pc = "move", !.at = c, !.to = p]]
     ELSE Goto(a, "hung")
  /\ UNCHANGED <<library, orphaned>>

\* A move into p reads what is below c, and refuses p there; the query of a cycle does not return.
Move(a, c, p) ==
  /\ At(a, "idle") /\ parent[c] # Absent /\ parent[p] # Absent /\ p # c
  /\ IF QueryEnds(c)
     THEN p \notin Descendants(c) /\ op' = [op EXCEPT ![a] = [Idle EXCEPT !.pc = "move", !.at = c, !.to = p]]
     ELSE Goto(a, "hung")
  /\ UNCHANGED <<library, orphaned>>

\* The update is by id; it fails when the collection or its new parent is gone.
WriteMove(a) ==
  LET c == op[a].at
      p == op[a].to
  IN /\ At(a, "move")
     /\ IF Exists(c) /\ Exists(p)
        THEN /\ parent' = [parent EXCEPT ![c] = p]
             /\ LET unseen == Unseen(Tree(c), p)
                IN  op' = [b \in Actors |-> IF b = a THEN Idle
                                            ELSE [unseen[b] EXCEPT !.stale = At(b, "move")]]
        ELSE UNCHANGED parent /\ Return(a)
     /\ UNCHANGED <<drawn, stored, members, announced, orphaned>>

AddFile(c, f) ==
  /\ parent[c] # Absent /\ f \in stored
  /\ members' = members \union {<<f, c>>}
  /\ UNCHANGED <<parent, drawn, stored, announced, op, orphaned>>

RemoveFile(c, f) ==
  /\ <<f, c>> \in members
  /\ members' = members \ {<<f, c>>}
  /\ UNCHANGED <<parent, drawn, stored, announced, op, orphaned>>

\* FilesService.delete removes the row, and its memberships with it.
EraseFile(f) ==
  /\ f \in stored
  /\ stored' = stored \ {f}
  /\ members' = {m \in members : m[1] # f}

DeleteFile(f) ==
  /\ EraseFile(f)
  /\ UNCHANGED <<parent, drawn, announced, op, orphaned>>

-------------------------------------------------------------------------------
(* The deletion of a tree.                                                     *)

Delete(a, c, withFiles) ==
  /\ At(a, "idle") /\ parent[c] # Absent
  /\ op' = [op EXCEPT ![a] =
       IF QueryEnds(c)
       THEN [Idle EXCEPT !.at = c, !.tree = Tree(c), !.pc = IF withFiles THEN "collect" ELSE "drop"]
       ELSE [Idle EXCEPT !.pc = "hung"]]
  /\ UNCHANGED <<library, orphaned>>

Collect(a) ==
  /\ At(a, "collect")
  /\ \E some \in SUBSET Exclusive(op[a].tree) :
       /\ some = Exclusive(op[a].tree) \/ Cardinality(some) = Batch
       /\ Cardinality(some) <= Batch
       /\ op' = [op EXCEPT ![a].files = some, ![a].pc = IF some = {} THEN "drop" ELSE "files"]
  /\ UNCHANGED <<library, orphaned>>

\* A file that another request deleted meanwhile is not found: the whole deletion fails.
EraseNext(a) ==
  /\ At(a, "files")
  /\ \E f \in op[a].files :
       IF f \in stored
       THEN /\ EraseFile(f)
            /\ op' = [op EXCEPT ![a].files = @ \ {f}, ![a].pc = IF op[a].files = {f} THEN "collect" ELSE "files"]
       ELSE Return(a) /\ UNCHANGED <<stored, members>>
  /\ UNCHANGED <<parent, drawn, announced, orphaned>>

\* Mutant: the memberships stay.
DropCollectionsOnly(a) ==
  LET gone == {d \in UNION {Tree(c) : c \in {t \in op[a].tree : Exists(t)}} : Exists(d)}
  IN /\ At(a, "drop")
     /\ parent' = [d \in Collections |-> IF d \in gone THEN Absent ELSE parent[d]]
     /\ orphaned' = orphaned \union (gone \intersect op[a].late)
     /\ op' = [op EXCEPT ![a].pc = "announce", ![a].late = {}]
     /\ UNCHANGED <<drawn, stored, members, announced>>

\* One statement; the foreign keys take what is below the listed collections, and the memberships.
Drop(a) ==
  LET gone == {d \in UNION {Tree(c) : c \in {t \in op[a].tree : Exists(t)}} : Exists(d)}
  IN /\ At(a, "drop")
     /\ parent' = [d \in Collections |-> IF d \in gone THEN Absent ELSE parent[d]]
     /\ members' = {m \in members : m[2] \notin gone}
     /\ orphaned' = orphaned \union (gone \intersect op[a].late)
     /\ op' = [op EXCEPT ![a].pc = "announce", ![a].late = {}]
     /\ UNCHANGED <<drawn, stored, announced>>

\* Mutant: the event names the collection that was asked for.
AnnounceRoot(a) ==
  /\ At(a, "announce")
  /\ announced' = announced \union {op[a].at}
  /\ Return(a)
  /\ UNCHANGED <<parent, drawn, stored, members, orphaned>>

\* The event names the collections that were listed.
Announce(a) ==
  /\ At(a, "announce")
  /\ announced' = announced \union op[a].tree
  /\ Return(a)
  /\ UNCHANGED <<parent, drawn, stored, members, orphaned>>

\* A crash, or a call that throws, ends a request where it stands.
Cut(a) ==
  /\ op[a].pc \notin {"idle", "hung"}
  /\ orphaned' = IF At(a, "announce") THEN orphaned \union op[a].tree ELSE orphaned
  /\ Return(a)
  /\ UNCHANGED library

-------------------------------------------------------------------------------
Step(a) == WriteMove(a) \/ Collect(a) \/ EraseNext(a) \/ Drop(a) \/ Announce(a)

Next ==
  \/ \E p \in Collections \union {Top} : Create(p)
  \/ \E c \in Collections, f \in Files : AddFile(c, f) \/ RemoveFile(c, f)
  \/ \E f \in Files : DeleteFile(f)
  \/ \E c \in Collections : MoveToTop(c)
  \/ \E a \in Actors, c, p \in Collections : Move(a, c, p)
  \/ \E a \in Actors, c \in Collections, withFiles \in BOOLEAN : Delete(a, c, withFiles)
  \/ \E a \in Actors : Step(a) \/ Cut(a)

Spec == Init /\ [][Next]_vars

-------------------------------------------------------------------------------
(* Properties.                                                                 *)

\* "A collection cannot be moved inside its own sub-collection"
\* (collections.service.ts:178): only a move whose check is older than another move
\* of that moment, written in between, ever closes a cycle.
IsForest == \A c \in Collections : QueryEnds(c)
OnlyStaleMovesCloseCycles ==
  [][parent' # parent /\ IsForest => IsForest' \/ \E a \in Actors : op[a].stale /\ op'[a] = Idle]_vars

\* chat-manager learns of every collection that goes, unless the announcement was cut off
\* or the collection came into the tree after it was listed and went with the cascade.
GoneAreAnnounced ==
  \A c \in drawn : parent[c] = Absent =>
    c \in announced \union orphaned \/ \E a \in Actors : At(a, "announce") /\ c \in op[a].tree
================================================================================
