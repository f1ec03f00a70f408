------------------------------- MODULE LiveFiles -------------------------------
(* How a tab of the frontend follows the state of the user's files: upload-     *)
(* manager publishes file.updated, an instance of api-gateway takes it from its *)
(* own exclusive queue and forwards it on the event stream of the tab, and the  *)
(* tab patches the list it fetched over REST                                    *)
(* (api-gateway/src/controllers/events.controller.ts, api-gateway/src/events/   *)
(* file-updates.service.ts, frontend/src/hooks/useFileEvents.ts). The state of  *)
(* a file is the number of writes its row has seen; some of those states are    *)
(* terminal, and the snapshot of the stream leaves the files in them out.       *)
EXTENDS Integers, Sequences, FiniteSets

CONSTANTS
  Files,
  MaxVersion,  \* bound: writes of a row
  Terminal,    \* versions whose status is COMPLETED or FAILED
  MaxQueue     \* bound: updates in the queue, and messages between gateway and tab

ASSUME LiveAssumption == MaxVersion \in Nat /\ Terminal \subseteq Nat /\ MaxQueue \in Nat

Versions == 0..MaxVersion
Unloaded == -1
Updates  == Files \X Versions

VARIABLES
  row,     \* version of each file in the database
  unsent,  \* updates that a handler of upload-manager has yet to publish
  sent,    \* the latest version published of each file
  bound,   \* the gateway is connected to the broker and its queue exists
  queue,   \* the gateway's queue
  stream,  \* the gateway's side of the tab's event stream
  read,    \* the files read so far for its snapshot
  pending, \* updates that arrived while the snapshot was read
  wire,    \* messages on their way to the tab
  opened,  \* the tab's stream opened since the page was mounted
  listed,  \* version of each file in the tab's list
  fetch,   \* the tab's request for the list: its step and the versions read
  unsaid,  \* files whose state the queue does not hold last: it was lost, or published behind a later one
  missed   \* files of which an update did not reach the tab, or was overwritten there

service == <<row, unsent, sent>>
gateway == <<bound, queue, stream, read, pending>>
tab     == <<opened, listed, fetch>>
ghosts  == <<unsaid, missed>>
vars    == <<service, gateway, wire, tab, ghosts>>

Messages == [kind : {"open"}] \union [kind : {"snapshot"}, files : SUBSET Updates]
            \union [kind : {"update"}, of : Updates]

NoFetch == [step |-> "none", rows |-> [f \in Files |-> Unloaded]]

TypeOK ==
  /\ row \in [Files -> Versions] /\ sent \in [Files -> Versions \union {Unloaded}]
  /\ unsent \subseteq Updates /\ \A u \in unsent : u[2] <= row[u[1]]
  /\ bound \in BOOLEAN /\ opened \in BOOLEAN
  /\ queue \in Seq(Updates) /\ pending \in Seq(Updates) /\ wire \in Seq(Messages)
  /\ stream \in {"closed", "listening", "read", "live"}
  /\ read \subseteq Updates
  /\ pending # <<>> => stream \in {"listening", "read"}
  /\ listed \in [Files -> Versions \union {Unloaded}]
  /\ fetch \in [step : {"none", "asked", "answered"}, rows : [Files -> Versions \union {Unloaded}]]
  /\ missed \subseteq Files /\ unsaid \subseteq Files

Init ==
  /\ row = [f \in Files |-> 0]
  /\ unsent = {}
  /\ sent = [f \in Files |-> Unloaded]
  /\ bound = TRUE
  /\ queue = <<>>
  /\ stream = "closed"
  /\ read = {}
  /\ pending = <<>>
  /\ wire = <<>>
  /\ opened = FALSE
  /\ listed = [f \in Files |-> Unloaded]
  /\ fetch = [NoFetch EXCEPT !.step = "asked"]
  /\ missed = {}
  /\ unsaid = {}

-------------------------------------------------------------------------------
(* upload-manager.                                                             *)

\* A handler writes the row and will publish what it wrote.
ApplyStageChange(f) ==
  /\ row[f] < MaxVersion
  /\ row' = [row EXCEPT ![f] = @ + 1]
  /\ unsent' = unsent \union {<<f, row[f] + 1>>}
  /\ UNCHANGED <<sent, gateway, wire, tab, ghosts>>

\* A report of progress writes nothing and will publish the row as it was read.
ReportProgress(f) ==
  /\ unsent' = unsent \union {<<f, row[f]>>}
  /\ UNCHANGED <<row, sent, gateway, wire, tab, ghosts>>

\* Handlers run side by side: one may publish what it read before another wrote.
\* Without a queue of the gateway the broker drops the update.
PublishUpdated(u) ==
  /\ u \in unsent /\ Len(queue) < MaxQueue
  /\ unsent' = unsent \ {u}
  /\ sent' = [sent EXCEPT ![u[1]] = IF u[2] > @ THEN u[2] ELSE @]
  /\ queue' = IF bound THEN Append(queue, u) ELSE queue
  /\ unsaid' = CASE ~bound \/ u[2] < sent[u[1]] -> unsaid \union {u[1]}
                 [] bound /\ u[2] = row[u[1]] -> unsaid \ {u[1]}
                 [] OTHER -> unsaid
  /\ UNCHANGED <<row, bound, stream, read, pending, wire, tab, missed>>

\* upload-manager stops between the write and the publication.
PublicationLost(u) ==
  /\ u \in unsent
  /\ unsent' = unsent \ {u}
  /\ unsaid' = unsaid \union {u[1]}
  /\ UNCHANGED <<row, sent, gateway, wire, tab, missed>>

-------------------------------------------------------------------------------
(* The gateway.                                                                *)

\* The exclusive queue goes with the connection, and all that is in it.
BrokerLost ==
  /\ bound
  /\ bound' = FALSE
  /\ queue' = <<>>
  /\ unsaid' = unsaid \union {queue[i][1] : i \in DOMAIN queue}
  /\ UNCHANGED <<service, stream, read, pending, wire, tab, missed>>

BrokerBack ==
  /\ ~bound
  /\ bound' = TRUE
  /\ UNCHANGED <<service, queue, stream, read, pending, wire, tab, ghosts>>

Full == Len(wire) + Len(pending) >= MaxQueue

\* An update goes to the listeners of its user: to a stream, or to the buffer of one that reads
\* its snapshot. Without a listener it is gone; a tab whose stream was open before will
\* fetch its list again, one whose stream opens for the first time will not.
Deliver ==
  /\ queue # <<>> /\ ~Full
  /\ queue' = Tail(queue)
  /\ pending' = IF stream \in {"listening", "read"} THEN Append(pending, Head(queue)) ELSE pending
  /\ wire' = IF stream = "live" THEN Append(wire, [kind |-> "update", of |-> Head(queue)]) ELSE wire
  /\ missed' = IF stream = "closed" /\ ~opened THEN missed \union {Head(queue)[1]} ELSE missed
  /\ UNCHANGED <<service, bound, stream, read, tab, unsaid>>

\* The tab connects and the gateway registers its listener.
Listen ==
  /\ stream = "closed"
  /\ stream' = "listening"
  /\ UNCHANGED <<service, bound, queue, read, pending, wire, tab, ghosts>>

\* Mutant: the snapshot first, the listener afterwards.
SnapshotBeforeListening ==
  /\ stream = "listening" /\ pending' = <<>>
  /\ read' = {<<f, row[f]>> : f \in {g \in Files : row[g] \notin Terminal}}
  /\ stream' = "read"
  /\ UNCHANGED <<service, bound, queue, wire, tab, ghosts>>

\* The files of the snapshot are those that are not in a terminal state.
ActiveFiles ==
  /\ stream = "listening"
  /\ read' = {<<f, row[f]>> : f \in {g \in Files : row[g] \notin Terminal}}
  /\ stream' = "read"
  /\ UNCHANGED <<service, bound, queue, pending, wire, tab, ghosts>>

\* Mutant: the buffer is not handed over to the stream.
GoLiveKeepingPending ==
  /\ stream = "read"
  /\ wire' = wire \o <<[kind |-> "open"], [kind |-> "snapshot", files |-> read]>>
  /\ stream' = "live" /\ read' = {}
  /\ UNCHANGED <<service, bound, queue, pending, tab, ghosts>>

\* The stream opens, and brings the snapshot and then what arrived while it was read.
GoLive ==
  /\ stream = "read"
  /\ wire' = wire \o <<[kind |-> "open"], [kind |-> "snapshot", files |-> read]>>
                  \o [i \in DOMAIN pending |-> [kind |-> "update", of |-> pending[i]]]
  /\ stream' = "live" /\ pending' = <<>> /\ read' = {}
  /\ UNCHANGED <<service, bound, queue, tab, ghosts>>

\* The connection fails, before or after it opened, with all that was on it.
StreamLost ==
  /\ stream # "closed"
  /\ stream' = "closed" /\ pending' = <<>> /\ read' = {} /\ wire' = <<>>
  /\ missed' = IF opened THEN missed ELSE missed \union {pending[i][1] : i \in DOMAIN pending}
                 \union {m.of[1] : m \in {wire[i] : i \in {j \in DOMAIN wire : wire[j].kind = "update"}}}
  /\ UNCHANGED <<service, bound, queue, tab, unsaid>>

-------------------------------------------------------------------------------
(* The tab.                                                                    *)

Loaded == \E f \in Files : listed[f] # Unloaded

\* External (TanStack Query): invalidating a list fetches it again in place of a request under
\* way; a first request, with no data to show yet, is left to finish instead.
Invalidated ==
  IF Loaded \/ fetch.step = "none" THEN [NoFetch EXCEPT !.step = "asked"] ELSE fetch

\* The tab takes a list that may be read already for a new one.
Refetch(files) ==
  /\ fetch' = Invalidated
  /\ missed' = IF fetch' = fetch THEN missed \union files ELSE missed

\* A list on its way may answer with older rows than what it will overwrite.
Patch(updates) ==
  /\ fetch' = fetch
  /\ missed' = IF fetch.step = "none" THEN missed ELSE missed \union {u[1] : u \in updates}

Patched(list, updates) ==
  [f \in Files |->
     IF \E u \in updates : u[1] = f /\ list[f] # Unloaded
     THEN (CHOOSE u \in updates : u[1] = f)[2] ELSE list[f]]

\* Opening again fetches the list again.
OnOpen ==
  /\ wire # <<>> /\ Head(wire).kind = "open"
  /\ wire' = Tail(wire)
  /\ opened' = TRUE
  /\ IF opened THEN Refetch(Files) ELSE Patch({})
  /\ UNCHANGED <<service, gateway, listed, unsaid>>

OnSnapshot ==
  /\ wire # <<>> /\ Head(wire).kind = "snapshot"
  /\ wire' = Tail(wire)
  /\ listed' = Patched(listed, Head(wire).files)
  /\ Patch(Head(wire).files)
  /\ UNCHANGED <<service, gateway, opened, unsaid>>

\* A terminal update also asks for the list again.
OnUpdate ==
  LET u == Head(wire).of
  IN /\ wire # <<>> /\ Head(wire).kind = "update"
     /\ wire' = Tail(wire)
     /\ listed' = Patched(listed, {u})
     /\ IF u[2] \in Terminal THEN Refetch({u[1]}) ELSE Patch({u})
     /\ UNCHANGED <<service, gateway, opened, unsaid>>

\* Reading the rows makes up for what was missed before.
ListFiles ==
  /\ fetch.step = "asked"
  /\ fetch' = [step |-> "answered", rows |-> row]
  /\ missed' = {}
  /\ UNCHANGED <<service, gateway, wire, opened, listed, unsaid>>

ShowFiles ==
  /\ fetch.step = "answered"
  /\ listed' = fetch.rows
  /\ fetch' = NoFetch
  /\ UNCHANGED <<service, gateway, wire, opened, ghosts>>

\* The page is left and entered again; a list of less than five seconds ago is kept as it is.
Remount ==
  /\ stream' = "closed" /\ pending' = <<>> /\ read' = {} /\ wire' = <<>>
  /\ opened' = FALSE
  /\ \/ Refetch(Files)
     \/ fetch.step = "none" /\ Loaded /\ fetch' = fetch
        /\ missed' = IF stream = "live" /\ wire = <<>> THEN missed ELSE Files
  /\ UNCHANGED <<service, bound, queue, listed, unsaid>>

-------------------------------------------------------------------------------
Next ==
  \/ \E f \in Files : ApplyStageChange(f) \/ ReportProgress(f)
  \/ \E u \in Updates : PublishUpdated(u) \/ PublicationLost(u)
  \/ BrokerLost \/ BrokerBack \/ Deliver
  \/ Listen \/ ActiveFiles \/ GoLive \/ StreamLost
  \/ OnOpen \/ OnSnapshot \/ OnUpdate \/ ListFiles \/ ShowFiles \/ Remount

Spec == Init /\ [][Next]_vars

-------------------------------------------------------------------------------
(* Properties.                                                                 *)

Quiet ==
  /\ unsent = {} /\ queue = <<>> /\ wire = <<>>
  /\ stream = "live" /\ fetch.step = "none"

\* "Subscribing before the snapshot means no update is lost between the two"
\* (events.controller.ts:27), and nothing else loses one: once all is delivered the tab shows
\* each file as it is, unless an update of it was never queued, was published behind a later
\* one, found the tab before its stream first opened, or was overwritten by a list on its way.
TabConverges == Quiet => \A f \in Files : listed[f] = row[f] \/ f \in missed \union unsaid
================================================================================
