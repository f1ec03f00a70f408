-------------------------- MODULE SubscriptionsProofs --------------------------
(* What a user's subscriptions promise, for any number of handlers, provider    *)
(* subscriptions, plans, events and billing periods, with either provider. The   *)
(* effects a handler has left to do are the heart of the invariant: which of    *)
(* them may take a subscription off its row, and what stands before or after    *)
(* them in the handler. What is said of a handler h takes the state as           *)
(* arguments (db the rows, pv the provider, mis the mishaps), so that a lemma    *)
(* serves before a step and after it.                                            *)
EXTENDS Subscriptions, SequenceTheorems, FiniteSetTheorems, WellFoundedInduction, TLAPS

Ops     == {"checkout", "pay", "change", "cancelAtEnd", "uncancel", "cancelNow", "pause", "resume", "renew",
            "decline", "recover", "lapse"}
Events  == {"created", "updated", "cancelled", "expired", "resumed", "paused", "failed", "activated", "charged"}
Changes == {Unscheduled} \union [to : Plans, at : Nat]
Row     == [status : Statuses, plan : Plans, limits : Plans \union {-1}, ext : Subs \union {NoSub},
            change : Changes, end : Nat]
Views   == [state : States, plan : Plans, end : 0..Horizon + 1]
Mail    == [event : Events, sub : Subs, status : States, plan : Plans, end : 0..Horizon + 1]

\* What handlers write: a row that ends is cleared of its provider subscription.
Columns == {"status", "plan", "limits", "ext", "change", "end"}
Values  == Statuses \union Plans \union {-1} \union Subs \union {NoSub} \union Changes \union Nat
Sane(set) ==
  /\ "status" \in DOMAIN set => set.status \in Statuses
  /\ "plan" \in DOMAIN set => set.plan \in Plans
  /\ "limits" \in DOMAIN set => set.limits \in Plans
  /\ "ext" \in DOMAIN set => set.ext = NoSub
  /\ "change" \in DOMAIN set => set.change \in Changes
  /\ "end" \in DOMAIN set => set.end \in Nat
  /\ "status" \in DOMAIN set /\ set.status \in {"EXPIRED", "DELETED"} => "ext" \in DOMAIN set
  /\ "ext" \in DOMAIN set => "change" \in DOMAIN set /\ set.change = Unscheduled
Patches == {set \in UNION {[D -> Values] : D \in SUBSET Columns} : Sane(set)}

\* Of a row that the handler creates itself it writes only quotas and the end of the period.
Writes  == {w \in [do : {"write"}, row : Nat, set : Patches, skip : BOOLEAN] :
              w.row = 0 \/ w.skip => DOMAIN w.set \subseteq {"limits", "end"}}
Creates == [do : {"create"}, set : {row \in Row : row.status = "ACTIVE" /\ row.change = Unscheduled}]
Calls   == {c \in [do : {"call"}, op : Ops, sub : Subs, row : Nat, plan : Plans, onFail : {"throw", "log", "revert"}] :
              c.onFail = "revert" => c.row # 0}
Others  == [do : {"settle", "remember"}, sub : Subs] \union [do : {"erase"}, known : Nat]
           \union [do : {"processed"}]
Effects  == Writes \union Creates \union Calls \union Others
Handlers == [todo : Seq(Effects), msg : Mail \union {NoMail}]

Types ==
  /\ gateway \in Gateways /\ rows \in Seq(Row)
  /\ account \in {"open", "deleted", "purged"} /\ pending \subseteq Subs
  /\ provider \in [Subs -> Views] /\ mail \subseteq Mail
  /\ job \in [Actors -> Handlers]
  /\ now \in 0..Horizon /\ events \in Nat

RowsAreUnique  == \A q, r \in 1..Len(rows) : rows[q].ext # NoSub /\ rows[q].ext = rows[r].ext => q = r
EndedIsCleared == \A r \in 1..Len(rows) : rows[r].ext # NoSub => rows[r].status \notin {"EXPIRED", "DELETED"}

\* A webhook is in one handler at a time and kept until it is acknowledged.
Kept(a) == job[a].msg # NoMail => job[a].msg \in mail /\ \A b \in Actors : job[b].msg = job[a].msg => a = b

-------------------------------------------------------------------------------
(* News of the providers.                                                       *)

Withdrawn(e) == <<"withdrawn", e>> \in mishaps

\* What a webhook says was so, and what no longer is was withdrawn.
SaysSo(m) ==
  /\ m.event \in {"created", "activated", "charged", "resumed"} => m.status = "active"
  /\ m.event = "updated" => m.status \in {"active", "ending"}
  /\ m.event = "paused" => m.status = "paused"
  /\ m.event = "failed" => m.status = "late"
  /\ m.event \in {"cancelled", "expired"} => m.status \in {"ending", "dead"}
  /\ m.status = "dead" => provider[m.sub].state = "dead" /\ m.end <= now
  /\ m.status = "ending" => provider[m.sub].state \in {"ending", "dead"} \/ Withdrawn(m.sub)
  /\ gateway = "razorpay" => m.event \notin {"created", "expired"} /\ (m.event = "cancelled" => m.status = "dead")
  /\ m.event = "expired" => m.status = "dead"
  /\ provider[m.sub].state \notin {"none", "open"}

\* The dedupe key of a webhook that must not be missed is used once.
SaidOnce(e, event) ==
  /\ \A m, n \in mail : (m.sub = e /\ n.sub = e /\ m.event = event /\ n.event = event) => m = n
  /\ <<event, e>> \in log => \A m \in mail : m.sub = e => m.event # event
DedupeIsSafe ==
  gateway = "razorpay" => \A e \in Subs :
    /\ SaidOnce(e, "cancelled") /\ SaidOnce(e, "activated")
    /\ <<"cancelled", e>> \in log => provider[e].state = "dead"
    /\ <<"activated", e>> \in log => provider[e].state \notin {"none", "open"}

\* No row names a subscription that was never paid.
HasRow(e) == \E r \in 1..Len(rows) : rows[r].ext = e
Unborn(e) == provider[e].state \in {"none", "open"} => ~HasRow(e)

-------------------------------------------------------------------------------
(* What a handler still does.                                                    *)

Firm(pv, mis, e) == pv[e].state \in {"active", "paused", "late"} /\ <<"withdrawn", e>> \notin mis
Dead(pv, e)      == pv[e].state = "dead"

Makes(x, e)      == x.do = "create" /\ x.set.ext = e
Cancelling(x, e) == x.do = "call" /\ x.op = "cancelNow" /\ x.sub = e /\ x.onFail = "log"
Asks(x, op, e)   == x.do = "call" /\ x.op = op /\ x.sub = e /\ x.onFail = "throw"
Clears(x, r)     == x.do = "write" /\ x.row = r /\ "ext" \in DOMAIN x.set
Dooms(x, r)      == x.do = "write" /\ x.row = r /\ "change" \in DOMAIN x.set /\ x.set.change.to = 0
Cancels(x, r)    == x.do = "write" /\ x.row = r /\ "status" \in DOMAIN x.set /\ x.set.status = "CANCELLED"
                    /\ "ext" \notin DOMAIN x.set

\* The rows it writes are there, the acknowledgement of a webhook, and an erasure, come last.
InPlace(h, db) ==
  \A i \in 1..Len(h.todo) : LET x == h.todo[i] IN
    /\ x.do \in {"write", "call"} => x.row <= Len(db)
    /\ x.do \in {"processed", "erase"} => i = Len(h.todo)
    /\ x.do = "processed" => h.msg # NoMail
    /\ x.do = "erase" => x.known <= Len(db)
    /\ x.do = "call" => (x.onFail = "revert" => h.msg = NoMail)

\* It makes a row of what was paid only.
OfBorn(h, pv) ==
  \A i \in 1..Len(h.todo) : \A e \in Subs : Makes(h.todo[i], e) => pv[e].state \notin {"none", "open"}

\* It takes a subscription the provider goes on charging for off its row only to cancel it next,
\* and has the row end only when the provider agrees.
Careful(h, db, pv, mis) ==
  \A r \in 1..Len(db) : db[r].ext # NoSub /\ Firm(pv, mis, db[r].ext) =>
    \A i \in 1..Len(h.todo) :
      /\ Clears(h.todo[i], r) => i < Len(h.todo) /\ Cancelling(h.todo[i + 1], db[r].ext)
      /\ Dooms(h.todo[i], r) => Asks(h.todo[1], "cancelAtEnd", db[r].ext)

\* It writes that a row is cancelled if the provider agrees, or said so.
Told(h, db, pv) ==
  \A r \in 1..Len(db) : db[r].ext # NoSub =>
    \A i \in 1..Len(h.todo) : Cancels(h.todo[i], r) =>
      \/ Asks(h.todo[1], "cancelNow", db[r].ext) \/ Dead(pv, db[r].ext)
      \/ h.msg # NoMail /\ h.msg.sub = db[r].ext /\ h.msg.status \in {"ending", "dead"}

\* Before it erases the rows it saw it cancels their subscriptions.
Purging(h, db, pv, mis) ==
  \A i \in 1..Len(h.todo) : h.todo[i].do = "erase" =>
    \A r \in 1..h.todo[i].known : db[r].ext # NoSub =>
      \/ <<"slipped", db[r].ext>> \in mis \/ Dead(pv, db[r].ext)
      \/ \E j \in 1..Len(h.todo) : Cancelling(h.todo[j], db[r].ext)

Sound(h, db, pv, mis) ==
  InPlace(h, db) /\ OfBorn(h, pv) /\ Careful(h, db, pv, mis) /\ Told(h, db, pv) /\ Purging(h, db, pv, mis)

\* If it handles m it still makes a row of e, or clears row r.
Adopts(h, m, e) == h.msg = m => \E i \in 1..Len(h.todo) : Makes(h.todo[i], e)
Closes(h, m, r) == h.msg = m => \E i \in 1..Len(h.todo) : Clears(h.todo[i], r)

-------------------------------------------------------------------------------
(* What a subscription that is charged for, or over, can count on.              *)

RowStands(r) ==
  rows[r].ext # NoSub /\ Firm(provider, mishaps, rows[r].ext) =>
    rows[r].status # "CANCELLED" /\ rows[r].change.to # 0

Excused(mis, e) == \E kind \in {"slipped", "withdrawn", "erased"} : <<kind, e>> \in mis
Welcome(m, e)   == m.sub = e /\ m.event \in {"created", "activated"}
Leaving(h, e)   == h.todo # <<>> /\ Cancelling(h.todo[1], e)
Covered(e) ==
  Paying(e) =>
    \/ HasRow(e) \/ Excused(mishaps, e)
    \/ \E a \in Actors : Leaving(job[a], e)
    \/ \E m \in mail : Welcome(m, e) /\ \A b \in Actors : Adopts(job[b], m, e)

Final(m, e) == m.sub = e /\ m.status = "dead" /\ m.event = (IF gateway = "razorpay" THEN "cancelled" ELSE "expired")
EndIsNews(r) ==
  LET e == rows[r].ext IN
  e # NoSub /\ Dead(provider, e) =>
    <<"overtaken", e>> \in mishaps \/ \E m \in mail : Final(m, e) /\ \A b \in Actors : Closes(job[b], m, r)

ErasedIsPurged == \A e \in Subs : <<"erased", e>> \in mishaps => account = "purged"

BillingInv ==
  /\ Types /\ RowsAreUnique /\ EndedIsCleared /\ \A a \in Actors : Kept(a)
  /\ \A m \in mail : SaysSo(m)
  /\ DedupeIsSafe /\ \A e \in Subs : Unborn(e)
  /\ \A a \in Actors : Sound(job[a], rows, provider, mishaps)
  /\ \A r \in 1..Len(rows) : RowStands(r) /\ EndIsNews(r)
  /\ \A e \in Subs : Covered(e)
  /\ ErasedIsPurged

-------------------------------------------------------------------------------
(* Rows, what is written over them, and what a handler has left to do.          *)

LEMMA StatesFacts ==
  /\ Unscheduled \in Changes /\ Unscheduled.to = -1 /\ \A c \in [to : Plans, at : Nat] : c \in Changes
  /\ 0 \in Plans /\ 1 \in Plans /\ Plans \subseteq Nat
BY PlansAssumption DEF Changes, Unscheduled

LEMMA PatchIs ==
  ASSUME NEW D \in SUBSET Columns, NEW set \in [D -> Values], Sane(set)
  PROVE  set \in Patches
BY DEF Patches

LEMMA TypedPatches ==
  ASSUME NEW s \in Statuses \ {"EXPIRED", "DELETED"}, NEW p \in Plans, NEW c \in Changes, NEW n \in Nat,
         NEW t \in Statuses
  PROVE  /\ [limits |-> p] \in Patches /\ [end |-> n] \in Patches
         /\ [status |-> s] \in Patches /\ [change |-> c] \in Patches
         /\ [plan |-> p, change |-> c] \in Patches /\ [status |-> s, change |-> c] \in Patches
         /\ [status |-> s, end |-> n] \in Patches
         /\ [status |-> s, end |-> n, plan |-> p, change |-> c] \in Patches
         /\ Ended(t) \in Patches
         /\ [status |-> t, change |-> Unscheduled, ext |-> NoSub] \in Patches
<1> USE StatesFacts
<1>0. /\ s \in Statuses /\ s \in Values /\ p \in Values /\ c \in Values /\ n \in Values /\ t \in Values
      /\ NoSub \in Values /\ 0 \in Values /\ Unscheduled \in Values
  BY DEF Values
<1>1. [limits |-> p] \in Patches
  <2>1. [limits |-> p] \in [{"limits"} -> Values]  BY <1>0
  <2>2. Sane([limits |-> p])  BY DEF Sane
  <2> QED  BY <2>1, <2>2, PatchIs DEF Columns
<1>2. [end |-> n] \in Patches
  <2>1. [end |-> n] \in [{"end"} -> Values]  BY <1>0
  <2>2. Sane([end |-> n])  BY DEF Sane
  <2> QED  BY <2>1, <2>2, PatchIs DEF Columns
<1>3. [status |-> s] \in Patches
  <2>1. [status |-> s] \in [{"status"} -> Values]  BY <1>0
  <2>2. Sane([status |-> s])  BY DEF Sane
  <2> QED  BY <2>1, <2>2, PatchIs DEF Columns
<1>4. [change |-> c] \in Patches
  <2>1. [change |-> c] \in [{"change"} -> Values]  BY <1>0
  <2>2. Sane([change |-> c])  BY DEF Sane
  <2> QED  BY <2>1, <2>2, PatchIs DEF Columns
<1>5. [plan |-> p, change |-> c] \in Patches
  <2>1. [plan |-> p, change |-> c] \in [{"plan", "change"} -> Values]  BY <1>0
  <2>2. Sane([plan |-> p, change |-> c])  BY DEF Sane
  <2> QED  BY <2>1, <2>2, PatchIs DEF Columns
<1>6. [status |-> s, change |-> c] \in Patches
  <2>1. [status |-> s, change |-> c] \in [{"status", "change"} -> Values]  BY <1>0
  <2>2. Sane([status |-> s, change |-> c])  BY <1>0 DEF Sane
  <2> QED  BY <2>1, <2>2, PatchIs DEF Columns
<1>7. [status |-> s, end |-> n] \in Patches
  <2>1. [status |-> s, end |-> n] \in [{"status", "end"} -> Values]  BY <1>0
  <2>2. Sane([status |-> s, end |-> n])  BY <1>0 DEF Sane
  <2> QED  BY <2>1, <2>2, PatchIs DEF Columns
<1>8. [status |-> s, end |-> n, plan |-> p, change |-> c] \in Patches
  <2>1. [status |-> s, end |-> n, plan |-> p, change |-> c] \in [{"status", "end", "plan", "change"} -> Values]
    BY <1>0
  <2>2. Sane([status |-> s, end |-> n, plan |-> p, change |-> c])  BY <1>0 DEF Sane
  <2> QED  BY <2>1, <2>2, PatchIs DEF Columns
<1>9. Ended(t) \in Patches
  <2>1. Ended(t) \in [{"status", "plan", "change", "ext"} -> Values]  BY <1>0 DEF Ended
  <2>2. Sane(Ended(t))  BY DEF Sane, Ended
  <2> QED  BY <2>1, <2>2, PatchIs DEF Columns
<1>10. [status |-> t, change |-> Unscheduled, ext |-> NoSub] \in Patches
  <2>1. [status |-> t, change |-> Unscheduled, ext |-> NoSub] \in [{"status", "change", "ext"} -> Values]  BY <1>0
  <2>2. Sane([status |-> t, change |-> Unscheduled, ext |-> NoSub])  BY DEF Sane
  <2> QED  BY <2>1, <2>2, PatchIs DEF Columns
<1> QED  BY <1>1, <1>2, <1>3, <1>4, <1>5, <1>6, <1>7, <1>8, <1>9, <1>10

LEMMA PatchTypes ==
  LET live == Statuses \ {"EXPIRED", "DELETED"} IN
  /\ \A p \in Plans : [limits |-> p] \in Patches
  /\ \A n \in Nat : [end |-> n] \in Patches
  /\ \A s \in live : [status |-> s] \in Patches
  /\ \A c \in Changes : [change |-> c] \in Patches
  /\ \A p \in Plans : \A c \in Changes : [plan |-> p, change |-> c] \in Patches
  /\ \A s \in live : \A c \in Changes : [status |-> s, change |-> c] \in Patches
  /\ \A s \in live : \A n \in Nat : [status |-> s, end |-> n] \in Patches
  /\ \A s \in live : \A n \in Nat : \A p \in Plans : \A c \in Changes :
       [status |-> s, end |-> n, plan |-> p, change |-> c] \in Patches
  /\ \A t \in Statuses : Ended(t) \in Patches
  /\ \A t \in Statuses : [status |-> t, change |-> Unscheduled, ext |-> NoSub] \in Patches
<1>1. "ACTIVE" \in Statuses \ {"EXPIRED", "DELETED"} /\ 0 \in Plans /\ Unscheduled \in Changes /\ 0 \in Nat
      /\ "ACTIVE" \in Statuses
  BY StatesFacts DEF Statuses
<1> QED  BY <1>1, TypedPatches

LEMMA PatchFacts ==
  ASSUME NEW set \in Patches
  PROVE  Sane(set)
BY DEF Patches

LEMMA UpdatedRow ==
  ASSUME NEW row \in Row, NEW set \in Patches
  PROVE  /\ Updated(row, set) \in Row
         /\ Updated(row, set).ext = IF "ext" \in DOMAIN set THEN NoSub ELSE row.ext
         /\ Updated(row, set).status = IF "status" \in DOMAIN set THEN set.status ELSE row.status
         /\ Updated(row, set).change = IF "change" \in DOMAIN set THEN set.change ELSE row.change
<1> Sane(set)  BY PatchFacts
<1>1. DOMAIN row = Columns  BY DEF Row, Columns
<1>2. /\ Updated(row, set).ext = IF "ext" \in DOMAIN set THEN set.ext ELSE row.ext
      /\ Updated(row, set).status = IF "status" \in DOMAIN set THEN set.status ELSE row.status
      /\ Updated(row, set).change = IF "change" \in DOMAIN set THEN set.change ELSE row.change
      /\ Updated(row, set).plan = IF "plan" \in DOMAIN set THEN set.plan ELSE row.plan
      /\ Updated(row, set).limits = IF "limits" \in DOMAIN set THEN set.limits ELSE row.limits
      /\ Updated(row, set).end = IF "end" \in DOMAIN set THEN set.end ELSE row.end
  BY <1>1 DEF Updated, Columns
<1>3. Updated(row, set) = [status |-> Updated(row, set).status, plan |-> Updated(row, set).plan,
         limits |-> Updated(row, set).limits, ext |-> Updated(row, set).ext, change |-> Updated(row, set).change,
         end |-> Updated(row, set).end]
  BY <1>1 DEF Updated, Columns
<1>4. /\ Updated(row, set).status \in Statuses /\ Updated(row, set).plan \in Plans
      /\ Updated(row, set).limits \in Plans \union {-1} /\ Updated(row, set).ext \in Subs \union {NoSub}
      /\ Updated(row, set).change \in Changes /\ Updated(row, set).end \in Nat
  BY <1>2 DEF Row, Sane
<1>5. Updated(row, set) \in Row  BY <1>3, <1>4 DEF Row
<1> QED  BY <1>2, <1>5 DEF Sane

LEMMA EffectKinds ==
  ASSUME NEW x \in Effects
  PROVE  /\ x.do \in {"write", "create", "call", "settle", "remember", "erase", "processed"}
         /\ x.do = "write" => x \in Writes
         /\ x.do = "create" => x \in Creates
         /\ x.do = "call" => x \in Calls
         /\ x.do \in {"settle", "remember"} => x.sub \in Subs
         /\ x.do = "erase" => x.known \in Nat
BY DEF Effects, Writes, Creates, Calls, Others

LEMMA WriteFacts ==
  ASSUME NEW x \in Writes
  PROVE  /\ x.do = "write" /\ x.row \in Nat /\ x.set \in Patches /\ Sane(x.set) /\ x.skip \in BOOLEAN
         /\ x.row = 0 \/ x.skip => DOMAIN x.set \subseteq {"limits", "end"}
BY PatchFacts DEF Writes

LEMMA TailFacts ==
  ASSUME NEW S, NEW s \in Seq(S), s # <<>>
  PROVE  /\ Tail(s) \in Seq(S) /\ Len(Tail(s)) = Len(s) - 1 /\ Len(s) \in Nat /\ Len(s) >= 1
         /\ \A i \in 1..Len(s) - 1 : Tail(s)[i] = s[i + 1]
         /\ Head(s) = s[1] /\ \A i \in 1..Len(s) : s[i] \in S
OBVIOUS

\* What a handler is once it has only these effects left.
After(h, effects) == IF effects = <<>> THEN Idle ELSE [h EXCEPT !.todo = effects]

LEMMA AfterFacts ==
  ASSUME NEW h \in Handlers, NEW effects \in Seq(Effects)
  PROVE  /\ After(h, effects) \in Handlers /\ After(h, effects).todo = effects
         /\ After(h, effects).msg = NoMail \/ After(h, effects).msg = h.msg
         /\ effects # <<>> => After(h, effects).msg = h.msg
         /\ effects = <<>> => After(h, effects) = Idle
BY DEF After, Handlers, Idle

LEMMA IdleFacts ==
  /\ Idle \in Handlers /\ Idle.todo = <<>> /\ Len(Idle.todo) = 0 /\ Idle.msg = NoMail
  /\ \A m \in Mail : m # NoMail
  /\ \A db, pv, mis : Sound(Idle, db, pv, mis)
<1>1. Idle \in Handlers /\ Idle.todo = <<>> /\ Len(Idle.todo) = 0 /\ Idle.msg = NoMail
  BY DEF Idle, Handlers
<1>2. \A m \in Mail : m # NoMail  BY DEF Mail, NoMail, Events
<1>3. \A i \in 1..Len(Idle.todo) : FALSE  BY <1>1
<1>4. ASSUME NEW db, NEW pv, NEW mis
      PROVE  Sound(Idle, db, pv, mis)
  BY <1>3 DEF Sound, InPlace, OfBorn, Careful, Told, Purging
<1> QED  BY <1>1, <1>2, <1>4

-------------------------------------------------------------------------------
(* A handler stays sound while the rows, the provider and the mishaps go on, and *)
(* as it goes on itself.                                                         *)

\* Rows keep their subscription or lose it, and what is over stays over.
GoesOn(db, pv, mis, db2, pv2, mis2) ==
  /\ Len(db) \in Nat /\ Len(db2) \in Nat /\ Len(db) <= Len(db2)
  /\ \A r \in 1..Len(db) : db2[r].ext \in {db[r].ext, NoSub}
  /\ \A e \in Subs : Dead(pv, e) => Dead(pv2, e)
  /\ \A e \in Subs : pv[e].state \notin {"none", "open"} => pv2[e].state \notin {"none", "open"}
  /\ \A e \in Subs : <<"slipped", e>> \in mis => <<"slipped", e>> \in mis2

\* No row becomes firm again unless the handler has nothing to do to it.
FirmWasFirm(h, db, pv, mis, db2, pv2, mis2) ==
  \A r \in 1..Len(db) : (db2[r].ext # NoSub /\ Firm(pv2, mis2, db2[r].ext)) =>
    \/ Firm(pv, mis, db2[r].ext)
    \/ \A i \in 1..Len(h.todo) : ~Clears(h.todo[i], r) /\ ~Dooms(h.todo[i], r)

LEMMA SoundKept ==
  ASSUME NEW h \in Handlers, NEW db, NEW pv, NEW mis, NEW db2, NEW pv2, NEW mis2,
         \A r \in 1..Len(db2) : db2[r].ext \in Subs \union {NoSub},
         Sound(h, db, pv, mis), GoesOn(db, pv, mis, db2, pv2, mis2),
         FirmWasFirm(h, db, pv, mis, db2, pv2, mis2)
  PROVE  Sound(h, db2, pv2, mis2)
<1> USE DEF GoesOn
<1>0. /\ InPlace(h, db) /\ OfBorn(h, pv) /\ Careful(h, db, pv, mis) /\ Told(h, db, pv)
      /\ Purging(h, db, pv, mis)
  BY DEF Sound
<1>a. /\ Len(h.todo) \in Nat /\ \A i \in 1..Len(h.todo) : h.todo[i] \in Effects
  BY DEF Handlers
<1>b. \A i \in 1..Len(h.todo) : \A r \in 1..Len(db2) :
        (Clears(h.todo[i], r) \/ Dooms(h.todo[i], r) \/ Cancels(h.todo[i], r)) => r \in 1..Len(db)
  BY <1>0, <1>a DEF InPlace, Clears, Dooms, Cancels
<1>1. InPlace(h, db2)
  <2>1. ASSUME NEW i \in 1..Len(h.todo)
        PROVE  /\ h.todo[i].do \in {"write", "call"} => h.todo[i].row \in Nat
               /\ h.todo[i].do = "erase" => h.todo[i].known \in Nat
    <3>1. h.todo[i] \in Effects  BY <1>a
    <3> QED  BY <3>1, EffectKinds, WriteFacts DEF Calls
  <2> QED  BY <1>0, <2>1 DEF InPlace
<1>2. OfBorn(h, pv2)  BY <1>0 DEF OfBorn
<1>3. Careful(h, db2, pv2, mis2)
  <2> SUFFICES ASSUME NEW r \in 1..Len(db2), db2[r].ext # NoSub, Firm(pv2, mis2, db2[r].ext),
                      NEW i \in 1..Len(h.todo)
               PROVE  /\ Clears(h.todo[i], r) => i < Len(h.todo) /\ Cancelling(h.todo[i + 1], db2[r].ext)
                      /\ Dooms(h.todo[i], r) => Asks(h.todo[1], "cancelAtEnd", db2[r].ext)
    BY DEF Careful
  <2>1. CASE r \in 1..Len(db)
    <3>1. db2[r].ext = db[r].ext  BY <2>1
    <3> QED  BY <1>0, <2>1, <3>1 DEF Careful, FirmWasFirm
  <2>2. CASE r \notin 1..Len(db)  BY <2>2, <1>b
  <2> QED  BY <2>1, <2>2
<1>4. Told(h, db2, pv2)
  <2> SUFFICES ASSUME NEW r \in 1..Len(db2), db2[r].ext # NoSub, NEW i \in 1..Len(h.todo), Cancels(h.todo[i], r)
               PROVE  \/ Asks(h.todo[1], "cancelNow", db2[r].ext) \/ Dead(pv2, db2[r].ext)
                      \/ h.msg # NoMail /\ h.msg.sub = db2[r].ext /\ h.msg.status \in {"ending", "dead"}
    BY DEF Told
  <2>1. r \in 1..Len(db)  BY <1>b
  <2>2. db2[r].ext = db[r].ext /\ db[r].ext \in Subs  BY <2>1
  <2> QED  BY <1>0, <2>1, <2>2 DEF Told
<1>5. Purging(h, db2, pv2, mis2)
  <2> SUFFICES ASSUME NEW i \in 1..Len(h.todo), h.todo[i].do = "erase", NEW r \in 1..h.todo[i].known,
                      db2[r].ext # NoSub
               PROVE  \/ <<"slipped", db2[r].ext>> \in mis2 \/ Dead(pv2, db2[r].ext)
                      \/ \E j \in 1..Len(h.todo) : Cancelling(h.todo[j], db2[r].ext)
    BY DEF Purging
  <2>1. h.todo[i].known \in Nat /\ h.todo[i].known <= Len(db)  BY <1>0, <1>a, EffectKinds DEF InPlace
  <2>2. r \in 1..Len(db) /\ r \in 1..Len(db2)  BY <2>1
  <2>3. db2[r].ext = db[r].ext /\ db[r].ext \in Subs  BY <2>2
  <2> QED  BY <1>0, <2>3 DEF Purging
<1> QED  BY <1>1, <1>2, <1>3, <1>4, <1>5 DEF Sound

LEMMA TailIsSound ==
  ASSUME NEW h \in Handlers, h.todo # <<>>, NEW db, NEW pv, NEW mis, Len(db) \in Nat, Sound(h, db, pv, mis),
         \A r \in 1..Len(db) : db[r].ext \in Subs \union {NoSub},
         \A e \in Subs : /\ Asks(h.todo[1], "cancelAtEnd", e) => ~Firm(pv, mis, e)
                         /\ Asks(h.todo[1], "cancelNow", e) => Dead(pv, e)
                         /\ Cancelling(h.todo[1], e) => Dead(pv, e) \/ <<"slipped", e>> \in mis
  PROVE  After(h, Tail(h.todo)) \in Handlers /\ Sound(After(h, Tail(h.todo)), db, pv, mis)
<1> DEFINE t == Tail(h.todo)
           k == After(h, t)
<1>0. /\ InPlace(h, db) /\ OfBorn(h, pv) /\ Careful(h, db, pv, mis) /\ Told(h, db, pv)
      /\ Purging(h, db, pv, mis)
  BY DEF Sound
<1>a. h.todo \in Seq(Effects)  BY DEF Handlers
<1>b. /\ t \in Seq(Effects) /\ Len(t) = Len(h.todo) - 1 /\ Len(h.todo) \in Nat /\ Len(h.todo) >= 1
      /\ \A i \in 1..Len(t) : t[i] = h.todo[i + 1] /\ i + 1 \in 1..Len(h.todo)
  BY <1>a, TailFacts
<1> HIDE DEF t
<1>c. k \in Handlers /\ k.todo = t /\ (t # <<>> => k.msg = h.msg) /\ (t = <<>> => k = Idle)
  BY <1>b, AfterFacts DEF k
<1>d. CASE t = <<>>  BY <1>c, <1>d, IdleFacts DEF k, t
<1>e. CASE t # <<>>
  <2>0. k.msg = h.msg  BY <1>c, <1>e
  <2> HIDE DEF k
  <2>1. InPlace(k, db)
    <3> SUFFICES ASSUME NEW i \in 1..Len(t)
                 PROVE  /\ t[i].do \in {"write", "call"} => t[i].row <= Len(db)
                        /\ t[i].do \in {"processed", "erase"} => i = Len(t)
                        /\ t[i].do = "processed" => h.msg # NoMail
                        /\ t[i].do = "erase" => t[i].known <= Len(db)
                        /\ t[i].do = "call" => (t[i].onFail = "revert" => h.msg = NoMail)
      BY <1>c, <2>0 DEF InPlace
    <3>1. t[i] = h.todo[i + 1] /\ i + 1 \in 1..Len(h.todo)  BY <1>b
    <3> DEFINE x == h.todo[i + 1]
    <3>2. /\ x.do \in {"write", "call"} => x.row <= Len(db)
          /\ x.do \in {"processed", "erase"} => i + 1 = Len(h.todo)
          /\ x.do = "processed" => h.msg # NoMail
          /\ x.do = "erase" => x.known <= Len(db)
          /\ x.do = "call" => (x.onFail = "revert" => h.msg = NoMail)
      BY <1>0, <3>1 DEF InPlace
    <3> QED  BY <3>1, <3>2, <1>b
  <2>2. OfBorn(k, pv)  BY <1>0, <1>b, <1>c DEF OfBorn
  <2>3. Careful(k, db, pv, mis)
    <3> SUFFICES ASSUME NEW r \in 1..Len(db), db[r].ext # NoSub, Firm(pv, mis, db[r].ext), NEW i \in 1..Len(t)
                 PROVE  /\ Clears(t[i], r) => i < Len(t) /\ Cancelling(t[i + 1], db[r].ext)
                        /\ Dooms(t[i], r) => Asks(t[1], "cancelAtEnd", db[r].ext)
      BY <1>c DEF Careful
    <3>1. t[i] = h.todo[i + 1] /\ i + 1 \in 1..Len(h.todo) /\ db[r].ext \in Subs  BY <1>b
    <3>2. /\ Clears(t[i], r) => i + 1 < Len(h.todo) /\ Cancelling(h.todo[i + 1 + 1], db[r].ext)
          /\ Dooms(t[i], r) => Asks(h.todo[1], "cancelAtEnd", db[r].ext)
      BY <1>0, <3>1 DEF Careful
    <3>3. i + 1 < Len(h.todo) => i < Len(t) /\ i + 1 \in 1..Len(t)  BY <1>b
    <3>4. i + 1 \in 1..Len(t) => t[i + 1] = h.todo[i + 1 + 1]  BY <1>b
    <3> QED  BY <3>1, <3>2, <3>3, <3>4
  <2>4. Told(k, db, pv)
    <3> SUFFICES ASSUME NEW r \in 1..Len(db), db[r].ext # NoSub, NEW i \in 1..Len(t), Cancels(t[i], r)
                 PROVE  \/ Dead(pv, db[r].ext)
                        \/ h.msg # NoMail /\ h.msg.sub = db[r].ext /\ h.msg.status \in {"ending", "dead"}
      BY <1>c, <2>0 DEF Told
    <3>1. t[i] = h.todo[i + 1] /\ i + 1 \in 1..Len(h.todo) /\ db[r].ext \in Subs  BY <1>b
    <3> QED  BY <1>0, <3>1 DEF Told
  <2>5. Purging(k, db, pv, mis)
    <3> SUFFICES ASSUME NEW i \in 1..Len(t), t[i].do = "erase", NEW r \in 1..t[i].known, db[r].ext # NoSub
                 PROVE  \/ <<"slipped", db[r].ext>> \in mis \/ Dead(pv, db[r].ext)
                        \/ \E j \in 1..Len(t) : Cancelling(t[j], db[r].ext)
      BY <1>c DEF Purging
    <3>1. t[i] = h.todo[i + 1] /\ i + 1 \in 1..Len(h.todo)  BY <1>b
    <3>2. t[i].known \in Nat /\ t[i].known <= Len(db)  BY <1>0, <1>a, <3>1, EffectKinds DEF InPlace
    <3>3. db[r].ext \in Subs  BY <3>2
    <3>4. \/ <<"slipped", db[r].ext>> \in mis \/ Dead(pv, db[r].ext)
          \/ \E j \in 1..Len(h.todo) : Cancelling(h.todo[j], db[r].ext)
      BY <1>0, <3>1 DEF Purging
    <3>5. ASSUME NEW j \in 1..Len(h.todo), Cancelling(h.todo[j], db[r].ext)
          PROVE  \/ <<"slipped", db[r].ext>> \in mis \/ Dead(pv, db[r].ext)
                 \/ \E l \in 1..Len(t) : Cancelling(t[l], db[r].ext)
      <4>1. CASE j = 1  BY <3>3, <3>5, <4>1
      <4>2. CASE j # 1
        <5>1. j - 1 \in 1..Len(t) /\ t[j - 1] = h.todo[j]  BY <1>b, <4>2
        <5> QED  BY <3>5, <5>1
      <4> QED  BY <4>1, <4>2
    <3> QED  BY <3>4, <3>5
  <2> QED  BY <1>c, <2>1, <2>2, <2>3, <2>4, <2>5 DEF Sound, k, t
<1> QED  BY <1>d, <1>e

LEMMA TailKeepsAim ==
  ASSUME NEW h \in Handlers, h.todo # <<>>, NEW m \in Mail
  PROVE  /\ \A e : (Adopts(h, m, e) /\ ~Makes(h.todo[1], e)) => Adopts(After(h, Tail(h.todo)), m, e)
         /\ \A r : (Closes(h, m, r) /\ ~Clears(h.todo[1], r)) => Closes(After(h, Tail(h.todo)), m, r)
<1> DEFINE t == Tail(h.todo)
           k == After(h, t)
<1>a. h.todo \in Seq(Effects)  BY DEF Handlers
<1>b. /\ t \in Seq(Effects) /\ Len(t) = Len(h.todo) - 1 /\ Len(h.todo) \in Nat /\ Len(h.todo) >= 1
      /\ \A i \in 1..Len(h.todo) : i # 1 => i - 1 \in 1..Len(t) /\ t[i - 1] = h.todo[i]
  BY <1>a, TailFacts
<1> HIDE DEF t
<1>c. k.todo = t /\ (k.msg = m => h.msg = m)  BY <1>b, AfterFacts, IdleFacts DEF k
<1> HIDE DEF k
<1>1. ASSUME NEW e, Adopts(h, m, e), ~Makes(h.todo[1], e)
      PROVE  Adopts(k, m, e)
  <2> SUFFICES ASSUME k.msg = m PROVE \E i \in 1..Len(t) : Makes(t[i], e)  BY <1>c DEF Adopts
  <2>1. PICK i \in 1..Len(h.todo) : Makes(h.todo[i], e)  BY <1>1, <1>c DEF Adopts
  <2>2. i # 1  BY <2>1, <1>1
  <2>3. i - 1 \in 1..Len(t) /\ Makes(t[i - 1], e)  BY <1>b, <2>1, <2>2
  <2> QED  BY <2>3
<1>2. ASSUME NEW r, Closes(h, m, r), ~Clears(h.todo[1], r)
      PROVE  Closes(k, m, r)
  <2> SUFFICES ASSUME k.msg = m PROVE \E i \in 1..Len(t) : Clears(t[i], r)  BY <1>c DEF Closes
  <2>1. PICK i \in 1..Len(h.todo) : Clears(h.todo[i], r)  BY <1>2, <1>c DEF Closes
  <2>2. i # 1  BY <2>1, <1>2
  <2>3. i - 1 \in 1..Len(t) /\ Clears(t[i - 1], r)  BY <1>b, <2>1, <2>2
  <2> QED  BY <2>3
<1> QED  BY <1>1, <1>2 DEF k, t

LEMMA ResolveFacts ==
  ASSUME NEW t \in Seq(Effects), NEW r \in Nat, r # 0
  PROVE  /\ Resolve(r, t) \in Seq(Effects) /\ Len(Resolve(r, t)) = Len(t)
         /\ \A i \in 1..Len(t) : LET x == t[i]  y == Resolve(r, t)[i] IN
              /\ y \in Effects /\ y.do = x.do
              /\ x.do # "write" => y = x
              /\ x.do = "write" => y.set = x.set /\ (x.row # 0 => y.row = x.row) /\
                                   (x.row = 0 => y.row = r /\ DOMAIN x.set \subseteq {"limits", "end"})
<1> DEFINE s == Resolve(r, t)
<1>1. DOMAIN s = 1..Len(t) /\ Len(t) \in Nat
  BY DEF Resolve
<1>2. ASSUME NEW i \in 1..Len(t)
      PROVE  /\ s[i] \in Effects /\ s[i].do = t[i].do
             /\ t[i].do # "write" => s[i] = t[i]
             /\ t[i].do = "write" => s[i].set = t[i].set /\ (t[i].row # 0 => s[i].row = t[i].row) /\
                                     (t[i].row = 0 => s[i].row = r /\ DOMAIN t[i].set \subseteq {"limits", "end"})
  <2>1. t[i] \in Effects  BY <1>2
  <2>2. s[i] = IF t[i].do = "write" /\ t[i].row = 0 THEN [t[i] EXCEPT !.row = r] ELSE t[i]
    BY DEF Resolve
  <2>3. CASE t[i].do = "write" /\ t[i].row = 0
    <3>1. t[i] \in Writes  BY <2>1, <2>3, EffectKinds
    <3>2. s[i] = [t[i] EXCEPT !.row = r]  BY <2>2, <2>3
    <3>3. s[i] \in Writes /\ s[i].do = "write" /\ s[i].set = t[i].set /\ s[i].row = r
          /\ DOMAIN t[i].set \subseteq {"limits", "end"}
      BY <3>1, <3>2, <2>3 DEF Writes
    <3> QED  BY <3>3, <2>3 DEF Effects
  <2>4. CASE ~(t[i].do = "write" /\ t[i].row = 0)
    <3>1. s[i] = t[i]  BY <2>2, <2>4
    <3> QED  BY <3>1, <2>1, <2>4
  <2> QED  BY <2>3, <2>4
<1>3. s = [i \in 1..Len(t) |-> s[i]]  BY <1>1 DEF Resolve
<1> HIDE DEF s
<1>4. s \in Seq(Effects) /\ Len(s) = Len(t)  BY <1>1, <1>2, <1>3
<1> QED  BY <1>2, <1>4 DEF s

LEMMA ResolveIsSound ==
  ASSUME NEW h \in Handlers, h.todo # <<>>, NEW db, NEW pv, NEW mis, Len(db) \in Nat, Sound(h, db, pv, mis),
         NEW r \in 1..Len(db), NEW k \in Handlers, k.todo = Resolve(r, h.todo), k.msg = h.msg
  PROVE  Sound(k, db, pv, mis)
<1>0. /\ InPlace(h, db) /\ OfBorn(h, pv) /\ Careful(h, db, pv, mis) /\ Told(h, db, pv)
      /\ Purging(h, db, pv, mis)
  BY DEF Sound
<1> DEFINE n == Len(h.todo)
<1>1. h.todo \in Seq(Effects) /\ n \in Nat /\ n >= 1  BY DEF Handlers
<1>2. /\ k.todo \in Seq(Effects) /\ Len(k.todo) = n
      /\ \A i \in 1..n : LET x == h.todo[i]  y == k.todo[i] IN
              /\ y \in Effects /\ y.do = x.do
              /\ x.do # "write" => y = x
              /\ x.do = "write" => y.set = x.set /\ (x.row # 0 => y.row = x.row) /\
                                   (x.row = 0 => y.row = r /\ DOMAIN x.set \subseteq {"limits", "end"})
  BY <1>1, ResolveFacts
<1>3. ASSUME NEW i \in 1..n
      PROVE  /\ \A e : Makes(k.todo[i], e) <=> Makes(h.todo[i], e)
             /\ \A e : Cancelling(k.todo[i], e) <=> Cancelling(h.todo[i], e)
             /\ \A op, e : Asks(k.todo[i], op, e) <=> Asks(h.todo[i], op, e)
             /\ \A q \in 1..Len(db) : /\ Clears(k.todo[i], q) <=> Clears(h.todo[i], q)
                                      /\ Dooms(k.todo[i], q) <=> Dooms(h.todo[i], q)
                                      /\ Cancels(k.todo[i], q) <=> Cancels(h.todo[i], q)
  BY <1>2 DEF Makes, Cancelling, Asks, Clears, Dooms, Cancels
<1> HIDE DEF n
<1>4. InPlace(k, db)
  <2> SUFFICES ASSUME NEW i \in 1..n
               PROVE  LET y == k.todo[i] IN
                 /\ y.do \in {"write", "call"} => y.row <= Len(db)
                 /\ y.do \in {"processed", "erase"} => i = n
                 /\ y.do = "processed" => k.msg # NoMail
                 /\ y.do = "erase" => y.known <= Len(db)
                 /\ y.do = "call" => (y.onFail = "revert" => k.msg = NoMail)
    BY <1>2 DEF InPlace
  <2>1. LET y == h.todo[i] IN
                 /\ y.do \in {"write", "call"} => y.row <= Len(db)
                 /\ y.do \in {"processed", "erase"} => i = n
                 /\ y.do = "processed" => k.msg # NoMail
                 /\ y.do = "erase" => y.known <= Len(db)
                 /\ y.do = "call" => (y.onFail = "revert" => k.msg = NoMail)
    BY <1>0 DEF InPlace, n
  <2> QED  BY <1>2, <2>1
<1>5. OfBorn(k, pv)  BY <1>0, <1>2, <1>3 DEF OfBorn, n
<1>6. Careful(k, db, pv, mis)
  <2> SUFFICES ASSUME NEW q \in 1..Len(db), db[q].ext # NoSub, Firm(pv, mis, db[q].ext), NEW i \in 1..n
               PROVE  /\ Clears(k.todo[i], q) => i < n /\ Cancelling(k.todo[i + 1], db[q].ext)
                      /\ Dooms(k.todo[i], q) => Asks(k.todo[1], "cancelAtEnd", db[q].ext)
    BY <1>2 DEF Careful
  <2>1. /\ Clears(h.todo[i], q) => i < n /\ Cancelling(h.todo[i + 1], db[q].ext)
        /\ Dooms(h.todo[i], q) => Asks(h.todo[1], "cancelAtEnd", db[q].ext)
    BY <1>0 DEF Careful, n
  <2>2. 1 \in 1..n /\ (i < n => i + 1 \in 1..n)  BY <1>1 DEF n
  <2> QED  BY <1>3, <2>1, <2>2
<1>7. Told(k, db, pv)
  <2> SUFFICES ASSUME NEW q \in 1..Len(db), db[q].ext # NoSub, NEW i \in 1..n, Cancels(k.todo[i], q)
               PROVE  \/ Asks(k.todo[1], "cancelNow", db[q].ext) \/ Dead(pv, db[q].ext)
                      \/ h.msg # NoMail /\ h.msg.sub = db[q].ext /\ h.msg.status \in {"ending", "dead"}
    BY <1>2 DEF Told
  <2>1. Cancels(h.todo[i], q)  BY <1>3
  <2>2. 1 \in 1..n  BY <1>1 DEF n
  <2> QED  BY <1>0, <1>3, <2>1, <2>2 DEF Told, n
<1>8. Purging(k, db, pv, mis)
  <2> SUFFICES ASSUME NEW i \in 1..n, k.todo[i].do = "erase", NEW q \in 1..k.todo[i].known, db[q].ext # NoSub
               PROVE  \/ <<"slipped", db[q].ext>> \in mis \/ Dead(pv, db[q].ext)
                      \/ \E j \in 1..n : Cancelling(k.todo[j], db[q].ext)
    BY <1>2 DEF Purging
  <2>1. h.todo[i].do = "erase" /\ h.todo[i].known = k.todo[i].known  BY <1>2
  <2> QED  BY <1>0, <1>3, <2>1 DEF Purging, n
<1> QED  BY <1>4, <1>5, <1>6, <1>7, <1>8 DEF Sound

-------------------------------------------------------------------------------
(* The operations of the providers, and what they say.                           *)

Charged(state) == state \in {"active", "paused", "late"}
LastWord == IF gateway = "razorpay" THEN "cancelled" ELSE "expired"

\* What an event says of the state it reports.
Fits(event, state) ==
  /\ event \in {"created", "activated", "charged", "resumed"} => state = "active"
  /\ event = "updated" => state \in {"active", "ending"}
  /\ event = "paused" => state = "paused"
  /\ event = "failed" => state = "late"
  /\ event \in {"cancelled", "expired"} => state \in {"ending", "dead"}
  /\ gateway = "razorpay" => event \notin {"created", "expired"} /\ (event = "cancelled" => state = "dead")
  /\ event = "expired" => state = "dead"

Turns(op, e, p, at) ==
  LET s == Outcome(op, e, p, at)  f == provider[e].state  evs == Operation[op][gateway] IN
  /\ s.state \in States /\ s.end \in {provider[e].end, at, at + 1} /\ s.plan \in {provider[e].plan, p}
  /\ f # "dead" /\ (s.state \in {"none", "open"} => f = "none" /\ evs = {})
  /\ evs \subseteq Events
  /\ \A v \in evs : Fits(v, s.state)
  /\ s.state = "dead" => s.end = at /\ LastWord \in evs
  /\ f = "ending" => s.state \in {"ending", "dead"} \/ op = "uncancel"
  /\ Charged(s.state) => Charged(f) \/ op = "uncancel" \/ (f = "open" /\ evs \cap {"created", "activated"} # {})
  /\ (gateway = "razorpay" /\ "activated" \in evs) => f = "open"
  /\ op = "cancelNow" => s.state = "dead"
  /\ op = "cancelAtEnd" => s.state = "ending"

LEMMA GatewayIs == Types => gateway = "lemonSqueezy" \/ gateway = "razorpay"
BY GatewaysAssumption DEF Types

LEMMA RowFacts ==
  ASSUME Types
  PROVE  /\ Len(rows) \in Nat /\ DOMAIN rows = 1..Len(rows)
         /\ \A r \in 1..Len(rows) : /\ rows[r] \in Row /\ rows[r].ext \in Subs \union {NoSub}
                                    /\ rows[r].plan \in Plans /\ rows[r].status \in Statuses
                                    /\ rows[r].change \in Changes /\ rows[r].end \in Nat
<1>1. Len(rows) \in Nat /\ DOMAIN rows = 1..Len(rows) /\ \A r \in 1..Len(rows) : rows[r] \in Row
  BY DEF Types
<1> QED  BY <1>1 DEF Row

LEMMA MaxIsIn ==
  ASSUME NEW n \in Nat, NEW S \in SUBSET (1..n), S # {}
  PROVE  Max(S) \in S /\ \A y \in S : Max(S) >= y
<1> DEFINE T == {k \in Nat : n - k \in S}
<1>1. T # {} /\ T \subseteq Nat
  <2>1. PICK r \in S : TRUE  OBVIOUS
  <2>2. n - r \in Nat /\ n - (n - r) = r  BY <2>1
  <2> QED  BY <2>1, <2>2
<1>2. PICK k \in T : \A j \in T : ~(<<j, k>> \in OpToRel(<, Nat))
  BY <1>1, NatLessThanWellFounded, WFMin
<1>3. \A y \in S : n - k >= y
  <2> SUFFICES ASSUME NEW y \in S PROVE n - k >= y  OBVIOUS
  <2>1. n - y \in T
    <3>1. n - y \in Nat /\ n - (n - y) = y  OBVIOUS
    <3> QED  BY <3>1
  <2>2. ~(n - y < k)  BY <1>1, <1>2, <2>1 DEF OpToRel
  <2> QED  BY <1>1, <2>1, <2>2
<1>4. \E x \in S : \A y \in S : x >= y  BY <1>3
<1> QED  BY <1>4 DEF Max

LEMMA OperationTurns ==
  ASSUME Types, NEW op \in Ops, NEW e \in Subs, NEW p \in Plans, NEW at \in Nat, Accepted(op, e)
  PROVE  Turns(op, e, p, at)
<1> gateway = "lemonSqueezy" \/ gateway = "razorpay"  BY GatewayIs
<1> DEFINE s == Outcome(op, e, p, at)
           f == provider[e].state
<1>0. f \in States /\ f \in Operation[op].from  BY DEF Types, Views, Accepted
<1>a. s.state = Operation[op].to /\ s.plan \in {provider[e].plan, p}  BY DEF Outcome
<1>1. CASE op = "checkout"
  <2>1. s.end = provider[e].end  BY <1>1 DEF Outcome
  <2>2. /\ f \in {"none"} /\ s.state = "open"
        /\ gateway = "lemonSqueezy" => Operation[op][gateway] = {}
        /\ gateway = "razorpay" => Operation[op][gateway] = {}
    BY <1>0, <1>a, <1>1 DEF Operation
  <2> QED  BY <1>a, <1>1, <2>1, <2>2 DEF Turns, Fits, Charged, LastWord, Events, States
<1>2. CASE op = "pay"
  <2>1. s.end = at + 1  BY <1>2 DEF Outcome
  <2>2. /\ f \in {"open"} /\ s.state = "active"
        /\ gateway = "lemonSqueezy" => Operation[op][gateway] = {"created"}
        /\ gateway = "razorpay" => Operation[op][gateway] = {"activated", "charged"}
    BY <1>0, <1>a, <1>2 DEF Operation
  <2> QED  BY <1>a, <1>2, <2>1, <2>2 DEF Turns, Fits, Charged, LastWord, Events, States
<1>3. CASE op = "change"
  <2>1. s.end = provider[e].end  BY <1>3 DEF Outcome
  <2>2. /\ f \in {"active"} /\ s.state = "active"
        /\ gateway = "lemonSqueezy" => Operation[op][gateway] = {"updated"}
        /\ gateway = "razorpay" => Operation[op][gateway] = {"updated"}
    BY <1>0, <1>a, <1>3 DEF Operation
  <2> QED  BY <1>a, <1>3, <2>1, <2>2 DEF Turns, Fits, Charged, LastWord, Events, States
<1>4. CASE op = "cancelAtEnd"
  <2>1. s.end = provider[e].end  BY <1>4 DEF Outcome
  <2>2. /\ f \in {"active"} /\ s.state = "ending"
        /\ gateway = "lemonSqueezy" => Operation[op][gateway] = {"updated", "cancelled"}
        /\ gateway = "razorpay" => Operation[op][gateway] = {}
    BY <1>0, <1>a, <1>4 DEF Operation
  <2> QED  BY <1>a, <1>4, <2>1, <2>2 DEF Turns, Fits, Charged, LastWord, Events, States
<1>5. CASE op = "uncancel"
  <2>1. s.end = provider[e].end  BY <1>5 DEF Outcome
  <2>2. /\ f \in {"ending"} /\ s.state = "active"
        /\ gateway = "lemonSqueezy" => Operation[op][gateway] = {"updated", "resumed"}
        /\ gateway = "razorpay" => Operation[op][gateway] = {}
    BY <1>0, <1>a, <1>5 DEF Operation
  <2> QED  BY <1>a, <1>5, <2>1, <2>2 DEF Turns, Fits, Charged, LastWord, Events, States
<1>6. CASE op = "cancelNow"
  <2>1. s.end = at  BY <1>6 DEF Outcome
  <2>2. /\ f \in {"open", "active", "ending", "paused", "late"} /\ s.state = "dead"
        /\ gateway = "lemonSqueezy" => Operation[op][gateway] = {"cancelled", "expired"}
        /\ gateway = "razorpay" => Operation[op][gateway] = {"cancelled"}
    BY <1>0, <1>a, <1>6 DEF Operation
  <2> QED  BY <1>a, <1>6, <2>1, <2>2 DEF Turns, Fits, Charged, LastWord, Events, States
<1>7. CASE op = "pause"
  <2>1. s.end = provider[e].end  BY <1>7 DEF Outcome
  <2>2. /\ f \in {"active"} /\ s.state = "paused"
        /\ gateway = "lemonSqueezy" => Operation[op][gateway] = {"paused"}
        /\ gateway = "razorpay" => Operation[op][gateway] = {"paused"}
    BY <1>0, <1>a, <1>7 DEF Operation
  <2> QED  BY <1>a, <1>7, <2>1, <2>2 DEF Turns, Fits, Charged, LastWord, Events, States
<1>8. CASE op = "resume"
  <2>1. s.end = provider[e].end  BY <1>8 DEF Outcome
  <2>2. /\ f \in {"paused"} /\ s.state = "active"
        /\ gateway = "lemonSqueezy" => Operation[op][gateway] = {"resumed"}
        /\ gateway = "razorpay" => Operation[op][gateway] = {"resumed"}
    BY <1>0, <1>a, <1>8 DEF Operation
  <2> QED  BY <1>a, <1>8, <2>1, <2>2 DEF Turns, Fits, Charged, LastWord, Events, States
<1>9. CASE op = "renew"
  <2>1. s.end = at + 1  BY <1>9 DEF Outcome
  <2>2. /\ f \in {"active"} /\ s.state = "active"
        /\ gateway = "lemonSqueezy" => Operation[op][gateway] = {"updated"}
        /\ gateway = "razorpay" => Operation[op][gateway] = {"charged"}
    BY <1>0, <1>a, <1>9 DEF Operation
  <2> QED  BY <1>a, <1>9, <2>1, <2>2 DEF Turns, Fits, Charged, LastWord, Events, States
<1>10. CASE op = "decline"
  <2>1. s.end = provider[e].end  BY <1>10 DEF Outcome
  <2>2. /\ f \in {"active"} /\ s.state = "late"
        /\ gateway = "lemonSqueezy" => Operation[op][gateway] = {"failed"}
        /\ gateway = "razorpay" => Operation[op][gateway] = {"failed"}
    BY <1>0, <1>a, <1>10 DEF Operation
  <2> QED  BY <1>a, <1>10, <2>1, <2>2 DEF Turns, Fits, Charged, LastWord, Events, States
<1>11. CASE op = "recover"
  <2>1. s.end = provider[e].end  BY <1>11 DEF Outcome
  <2>2. /\ f \in {"late"} /\ s.state = "active"
        /\ gateway = "lemonSqueezy" => Operation[op][gateway] = {"updated"}
        /\ gateway = "razorpay" => Operation[op][gateway] = {"updated"}
    BY <1>0, <1>a, <1>11 DEF Operation
  <2> QED  BY <1>a, <1>11, <2>1, <2>2 DEF Turns, Fits, Charged, LastWord, Events, States
<1>12. CASE op = "lapse"
  <2>1. s.end = at  BY <1>12 DEF Outcome
  <2>2. /\ f \in {"ending", "late"} /\ s.state = "dead"
        /\ gateway = "lemonSqueezy" => Operation[op][gateway] = {"expired"}
        /\ gateway = "razorpay" => Operation[op][gateway] = {"cancelled"}
    BY <1>0, <1>a, <1>12 DEF Operation
  <2> QED  BY <1>a, <1>12, <2>1, <2>2 DEF Turns, Fits, Charged, LastWord, Events, States
<1> QED  BY <1>1, <1>2, <1>3, <1>4, <1>5, <1>6, <1>7, <1>8, <1>9, <1>10, <1>11, <1>12 DEF Ops

-------------------------------------------------------------------------------
(* What is at the provider goes on: a call, the user's doing there, a period's    *)
(* end, or nothing at all.                                                       *)

SameAt(e) == provider'[e] = provider[e] /\ \A m \in mail' : m.sub = e => m \in mail
TurnedBy(op, e, p) ==
  /\ Accepted(op, e) /\ provider'[e] = Outcome(op, e, p, now')
  /\ News(op, e, p, now') \subseteq mail'
  /\ \A m \in mail' : m.sub = e => m \in mail \/ m \in News(op, e, p, now')
  /\ op = "uncancel" => Withdrawn(e)'

Evolves ==
  /\ UNCHANGED <<gateway, rows, account, log>>
  /\ pending' \subseteq Subs /\ now' \in 0..Horizon /\ now <= now' /\ events' \in Nat
  /\ mishaps \subseteq mishaps'
  /\ \A e \in Subs : \A kind \in {"overtaken", "erased"} : <<kind, e>> \in mishaps' => <<kind, e>> \in mishaps
  /\ mail \subseteq mail' /\ mail' \subseteq Mail /\ provider' \in [Subs -> Views]
  /\ \A e \in Subs : SameAt(e) \/ \E op \in Ops : \E p \in Plans : TurnedBy(op, e, p)

Told1(e, event) == [event |-> event, sub |-> e, status |-> provider'[e].state, plan |-> provider'[e].plan,
                    end |-> provider'[e].end]

\* One subscription changes, and these events tell of it.
Turning(e, evs) ==
  LET s == provider'[e]  f == provider[e].state IN
  /\ f # "dead" /\ (s.state \in {"none", "open"} => f = "none" /\ evs = {})
  /\ \A v \in evs : Fits(v, s.state)
  /\ s.state = "dead" => s.end = now' /\ LastWord \in evs
  /\ f = "ending" => s.state \in {"ending", "dead"} \/ Withdrawn(e)'
  /\ Charged(s.state) => Charged(f) \/ Withdrawn(e)' \/ (f = "open" /\ evs \cap {"created", "activated"} # {})
  /\ (gateway = "razorpay" /\ "activated" \in evs) => f = "open"
  /\ \A m \in mail' : m.sub = e => m \in mail \/ (m.event \in evs /\ m = Told1(e, m.event))
  /\ \A v \in evs : Told1(e, v) \in mail'

LEMMA EvolvesTurns ==
  ASSUME Types, Evolves, NEW e \in Subs
  PROVE  SameAt(e) \/ \E evs \in SUBSET Events : Turning(e, evs)
<1> SUFFICES ASSUME NEW op \in Ops, NEW p \in Plans, TurnedBy(op, e, p)
             PROVE  \E evs \in SUBSET Events : Turning(e, evs)
  BY DEF Evolves
<1> DEFINE evs == Operation[op][gateway]
           s == provider'[e]
<1>1. now' \in Nat  BY DEF Evolves
<1>2. Turns(op, e, p, now')  BY <1>1, OperationTurns DEF TurnedBy
<1>3. s = Outcome(op, e, p, now')  BY DEF TurnedBy
<1>4. News(op, e, p, now') = {Told1(e, v) : v \in evs}
  BY <1>3 DEF News, Told1
<1>5. \A v \in evs : Told1(e, v) \in mail'  BY <1>4 DEF TurnedBy
<1>6. ASSUME NEW m \in mail', m.sub = e, m \notin mail
      PROVE  m.event \in evs /\ m = Told1(e, m.event)
  <2>1. m \in News(op, e, p, now')  BY <1>6 DEF TurnedBy
  <2>2. PICK v \in evs : m = Told1(e, v)  BY <2>1, <1>4
  <2>3. m.event = v  BY <2>2 DEF Told1
  <2> QED  BY <2>2, <2>3
<1>7. evs \subseteq Events  BY <1>2 DEF Turns
<1>8. Turning(e, evs)
  BY <1>2, <1>3, <1>5, <1>6 DEF Turns, Turning, TurnedBy
<1> QED  BY <1>7, <1>8

LEMMA EvolvesGoesOn ==
  ASSUME BillingInv, Evolves
  PROVE  /\ GoesOn(rows, provider, mishaps, rows', provider', mishaps')
         /\ \A e \in Subs : (HasRow(e) /\ Firm(provider', mishaps', e)) => Firm(provider, mishaps, e)
         /\ \A h \in Handlers : Sound(h, rows, provider, mishaps) => Sound(h, rows', provider', mishaps')
<1>0. Types /\ \A e \in Subs : Unborn(e)  BY DEF BillingInv
<1>1. /\ rows' = rows /\ Len(rows) \in Nat /\ \A r \in 1..Len(rows) : rows[r].ext \in Subs \union {NoSub}
  BY <1>0, RowFacts DEF Evolves
<1>2. \A e \in Subs : Dead(provider, e) => Dead(provider', e)
  BY <1>0, EvolvesTurns DEF SameAt, Turning, Dead
<1>3. \A e \in Subs : provider[e].state \notin {"none", "open"} => provider'[e].state \notin {"none", "open"}
  BY <1>0, EvolvesTurns DEF SameAt, Turning
<1>4. GoesOn(rows, provider, mishaps, rows', provider', mishaps')
  BY <1>1, <1>2, <1>3 DEF GoesOn, Evolves
<1>5. ASSUME NEW e \in Subs, HasRow(e), Firm(provider', mishaps', e)
      PROVE  Firm(provider, mishaps, e)
  <2>1. provider[e].state # "open"  BY <1>0, <1>5 DEF Unborn
  <2>2. <<"withdrawn", e>> \notin mishaps /\ ~Withdrawn(e)'  BY <1>5 DEF Firm, Evolves, Withdrawn
  <2>3. Charged(provider'[e].state)  BY <1>5 DEF Firm, Charged
  <2>4. Charged(provider[e].state)
    <3>1. CASE SameAt(e)  BY <2>3, <3>1 DEF SameAt
    <3>2. CASE \E evs \in SUBSET Events : Turning(e, evs)  BY <2>1, <2>2, <2>3, <3>2 DEF Turning
    <3> QED  BY <1>0, <3>1, <3>2, EvolvesTurns
  <2> QED  BY <2>2, <2>4 DEF Firm, Charged
<1>6. ASSUME NEW h \in Handlers, Sound(h, rows, provider, mishaps)
      PROVE  Sound(h, rows', provider', mishaps')
  <2>1. \A r \in 1..Len(rows) : rows[r].ext # NoSub => rows[r].ext \in Subs /\ HasRow(rows[r].ext)
    BY <1>1 DEF HasRow
  <2>2. FirmWasFirm(h, rows, provider, mishaps, rows', provider', mishaps')
    BY <1>1, <1>5, <2>1 DEF FirmWasFirm
  <2>3. \A r \in 1..Len(rows') : rows'[r].ext \in Subs \union {NoSub}  BY <1>1
  <2> QED  BY <1>4, <1>6, <2>2, <2>3, SoundKept
<1> QED  BY <1>4, <1>5, <1>6

\* What becomes of a handler meanwhile.
Follows(h, k) ==
  /\ k \in Handlers /\ k.msg \in {h.msg, NoMail}
  /\ Sound(k, rows', provider', mishaps')
  /\ \A m \in Mail : \A e \in Subs : Adopts(h, m, e) => Adopts(k, m, e)
  /\ \A m \in Mail : \A r \in 1..Len(rows) : Closes(h, m, r) => Closes(k, m, r)
  /\ \A e \in Subs : Leaving(h, e) => \/ Leaving(k, e) \/ Dead(provider', e)
                                      \/ <<"slipped", e>> \in mishaps'

LEMMA EvolvesKeeps ==
  ASSUME BillingInv, Evolves, job' \in [Actors -> Handlers], \A b \in Actors : Follows(job[b], job'[b])
  PROVE  BillingInv'
<1>0. /\ Types /\ RowsAreUnique /\ EndedIsCleared /\ (\A a \in Actors : Kept(a))
      /\ (\A m \in mail : SaysSo(m))
      /\ DedupeIsSafe /\ (\A e \in Subs : Unborn(e))
      /\ (\A a \in Actors : Sound(job[a], rows, provider, mishaps))
      /\ (\A r \in 1..Len(rows) : RowStands(r) /\ EndIsNews(r))
      /\ (\A e \in Subs : Covered(e))
      /\ ErasedIsPurged
  BY DEF BillingInv
<1>a. /\ rows' = rows /\ gateway' = gateway /\ account' = account /\ log' = log
      /\ mail \subseteq mail' /\ mishaps \subseteq mishaps' /\ now <= now' /\ now \in Nat /\ now' \in Nat
      /\ mail' \subseteq Mail /\ mail \subseteq Mail
  BY <1>0 DEF Evolves, Types
<1>b. gateway = "lemonSqueezy" \/ gateway = "razorpay"  BY <1>0, GatewayIs
<1>c. \A e \in Subs : Dead(provider, e) => Dead(provider', e)
  BY EvolvesGoesOn DEF GoesOn
<1>d. \A r \in 1..Len(rows) : rows[r].ext \in Subs \union {NoSub}  BY <1>0, RowFacts
<1>1. Types'  BY <1>0 DEF Evolves, Types
<1>2. RowsAreUnique' /\ EndedIsCleared'  BY <1>0, <1>a DEF RowsAreUnique, EndedIsCleared
<1>3. \A a \in Actors : Kept(a)'
  BY <1>0, <1>a DEF Kept, Follows
<1>4. ASSUME NEW m \in mail'
      PROVE  SaysSo(m)'
  <2>0. m \in Mail /\ m.sub \in Subs /\ m.end \in Int  BY <1>a DEF Mail
  <2> DEFINE e == m.sub
  <2>1. CASE SameAt(e)
    <3>1. m \in mail  BY <2>1, <2>0 DEF SameAt
    <3>2. SaysSo(m)  BY <1>0, <3>1
    <3>3. m.end <= now => m.end <= now'  BY <1>a, <2>0
    <3> QED  BY <3>2, <3>3, <2>1, <1>a DEF SaysSo, SameAt, Withdrawn
  <2>2. ASSUME NEW evs \in SUBSET Events, Turning(e, evs)
        PROVE  SaysSo(m)'
    <3>1. CASE m \in mail
      <4>1. SaysSo(m)  BY <1>0, <3>1
      <4>2. m.status # "dead"  BY <2>2, <4>1 DEF SaysSo, Turning
      <4>3. m.status = "ending" => provider'[e].state \in {"ending", "dead"} \/ Withdrawn(e)'
        BY <1>a, <2>2, <4>1 DEF SaysSo, Turning, Withdrawn
      <4>4. provider'[e].state \notin {"none", "open"}  BY <2>2, <4>1 DEF SaysSo, Turning
      <4> QED  BY <1>a, <4>1, <4>2, <4>3, <4>4 DEF SaysSo
    <3>2. CASE m \notin mail
      <4>1. m.event \in evs /\ m = Told1(e, m.event)  BY <2>2, <3>2, <2>0 DEF Turning
      <4>2. m.status = provider'[e].state /\ m.end = provider'[e].end  BY <4>1 DEF Told1
      <4>3. Fits(m.event, m.status)  BY <2>2, <4>1, <4>2 DEF Turning
      <4>4. provider'[e].state \notin {"none", "open"}  BY <2>2, <4>1 DEF Turning
      <4>5. m.status = "dead" => m.end <= now'  BY <2>2, <4>2, <1>a DEF Turning
      <4> QED  BY <1>a, <4>2, <4>3, <4>4, <4>5 DEF SaysSo, Fits
    <3> QED  BY <3>1, <3>2
  <2> QED  BY <1>0, <2>0, <2>1, <2>2, EvolvesTurns
<1>5. DedupeIsSafe'
  <2> SUFFICES ASSUME gateway = "razorpay", NEW e \in Subs
               PROVE  /\ SaidOnce(e, "cancelled")' /\ SaidOnce(e, "activated")'
                      /\ <<"cancelled", e>> \in log => provider'[e].state = "dead"
                      /\ <<"activated", e>> \in log => provider'[e].state \notin {"none", "open"}
    BY <1>a DEF DedupeIsSafe
  <2>0. /\ SaidOnce(e, "cancelled") /\ SaidOnce(e, "activated")
        /\ <<"cancelled", e>> \in log => provider[e].state = "dead"
        /\ <<"activated", e>> \in log => provider[e].state \notin {"none", "open"}
    BY <1>0 DEF DedupeIsSafe
  <2>1. CASE SameAt(e)  BY <2>0, <2>1, <1>a DEF SameAt, SaidOnce
  <2>2. ASSUME NEW evs \in SUBSET Events, Turning(e, evs)
        PROVE  SaidOnce(e, "cancelled")' /\ SaidOnce(e, "activated")'
    <3>0. provider[e].state # "dead" /\ ("activated" \in evs => provider[e].state = "open")
      BY <2>2 DEF Turning
    <3>1. \A m \in mail : m.sub = e => m.event # "cancelled"
      BY <1>0, <3>0 DEF SaysSo
    <3>2. "activated" \in evs => \A m \in mail : m.sub = e => m.event # "activated"
      BY <1>0, <3>0 DEF SaysSo
    <3>3. \A m \in mail' : m.sub = e => m \in mail \/ (m.event \in evs /\ m = Told1(e, m.event))
      BY <2>2 DEF Turning
    <3>4. <<"cancelled", e>> \notin log  BY <2>0, <3>0
    <3>5. "activated" \in evs => <<"activated", e>> \notin log  BY <2>0, <3>0
    <3>6. SaidOnce(e, "cancelled")'  BY <1>a, <3>1, <3>3, <3>4 DEF SaidOnce
    <3>7. SaidOnce(e, "activated")'  BY <1>a, <2>0, <3>2, <3>3, <3>5 DEF SaidOnce
    <3> QED  BY <3>6, <3>7
  <2>3. /\ <<"cancelled", e>> \in log => provider'[e].state = "dead"
        /\ <<"activated", e>> \in log => provider'[e].state \notin {"none", "open"}
    BY <2>0, EvolvesGoesOn DEF GoesOn, Dead
  <2> QED  BY <1>0, <2>1, <2>2, <2>3, EvolvesTurns
<1>6. \A e \in Subs : Unborn(e)'
  <2>1. \A e \in Subs : provider'[e].state \in {"none", "open"} => provider[e].state \in {"none", "open"}
    BY EvolvesGoesOn DEF GoesOn
  <2> QED  BY <1>0, <1>a, <2>1 DEF Unborn, HasRow
<1>7. \A a \in Actors : Sound(job[a], rows, provider, mishaps)'  BY DEF Follows
<1>8. ASSUME NEW r \in 1..Len(rows')
      PROVE  RowStands(r)' /\ EndIsNews(r)'
  <2>0. r \in 1..Len(rows) /\ RowStands(r) /\ EndIsNews(r)  BY <1>0, <1>a
  <2> DEFINE e == rows[r].ext
  <2>1. RowStands(r)'
    <3>1. e # NoSub => e \in Subs /\ HasRow(e)  BY <1>d, <2>0 DEF HasRow
    <3>2. (e # NoSub /\ Firm(provider', mishaps', e)) => Firm(provider, mishaps, e)  BY <3>1, EvolvesGoesOn
    <3> QED  BY <1>a, <2>0, <3>2 DEF RowStands
  <2>2. EndIsNews(r)'
    <3> SUFFICES ASSUME e # NoSub, Dead(provider', e), <<"overtaken", e>> \notin mishaps
                 PROVE  \E m \in mail' : Final(m, e) /\ \A b \in Actors : Closes(job'[b], m, r)
      BY <1>a DEF EndIsNews, Final
    <3>0. e \in Subs  BY <1>d, <2>0
    <3>1. CASE Dead(provider, e)
      <4>1. PICK m \in mail : Final(m, e) /\ \A b \in Actors : Closes(job[b], m, r)
        BY <2>0, <3>1 DEF EndIsNews
      <4>2. m \in mail' /\ m \in Mail  BY <1>a
      <4>3. \A b \in Actors : Closes(job'[b], m, r)  BY <2>0, <4>1, <4>2 DEF Follows
      <4> QED  BY <4>1, <4>2, <4>3
    <3>2. CASE ~Dead(provider, e)
      <4>1. ~SameAt(e)  BY <3>2 DEF SameAt, Dead
      <4>2. PICK evs \in SUBSET Events : Turning(e, evs)  BY <1>0, <3>0, <4>1, EvolvesTurns
      <4> DEFINE m == Told1(e, LastWord)
      <4>3. m \in mail' /\ m.sub = e /\ m.status = "dead" /\ m.event = LastWord
        BY <4>2 DEF Turning, Dead, Told1
      <4>4. Final(m, e)  BY <4>3 DEF Final, LastWord
      <4>5. m \notin mail  BY <1>0, <3>2, <4>3 DEF SaysSo, Dead
      <4>6. m # NoMail  BY <1>a, <4>3, IdleFacts
      <4> HIDE DEF m
      <4>7. \A b \in Actors : job[b].msg # m  BY <1>0, <4>5, <4>6 DEF Kept
      <4>8. \A b \in Actors : Closes(job'[b], m, r)  BY <4>6, <4>7 DEF Closes, Follows
      <4> QED  BY <4>3, <4>4, <4>8
    <3> QED  BY <3>1, <3>2
  <2> QED  BY <2>1, <2>2
<1>9. ASSUME NEW e \in Subs
      PROVE  Covered(e)'
  <2> SUFFICES ASSUME Charged(provider'[e].state), ~HasRow(e), ~Excused(mishaps', e)
               PROVE  \/ \E a \in Actors : Leaving(job'[a], e)
                      \/ \E m \in mail' : Welcome(m, e) /\ \A b \in Actors : Adopts(job'[b], m, e)
    BY <1>a DEF Covered, Paying, Charged, HasRow
  <2>0. ~Excused(mishaps, e) /\ ~Withdrawn(e)' /\ <<"slipped", e>> \notin mishaps'  BY <1>a DEF Excused, Withdrawn
  <2>1. ~Dead(provider', e)  BY DEF Charged, Dead
  <2>2. CASE Charged(provider[e].state)
    <3>1. \/ \E a \in Actors : Leaving(job[a], e)
          \/ \E m \in mail : Welcome(m, e) /\ \A b \in Actors : Adopts(job[b], m, e)
      BY <1>0, <2>0, <2>2 DEF Covered, Paying, Charged
    <3>2. CASE \E a \in Actors : Leaving(job[a], e)
      BY <2>0, <2>1, <3>2 DEF Follows
    <3>3. ASSUME NEW m \in mail, Welcome(m, e), \A b \in Actors : Adopts(job[b], m, e)
          PROVE  m \in mail' /\ \A b \in Actors : Adopts(job'[b], m, e)
      BY <1>a, <3>3 DEF Follows
    <3> QED  BY <3>1, <3>2, <3>3
  <2>3. CASE ~Charged(provider[e].state)
    <3>1. ~SameAt(e)  BY <2>3 DEF SameAt
    <3>2. PICK evs \in SUBSET Events : Turning(e, evs)  BY <1>0, <3>1, EvolvesTurns
    <3>3. provider[e].state = "open" /\ evs \cap {"created", "activated"} # {}
      BY <2>0, <2>3, <3>2 DEF Turning
    <3>4. PICK v \in evs : v \in {"created", "activated"}  BY <3>3
    <3> DEFINE m == Told1(e, v)
    <3>5. m \in mail' /\ m.sub = e /\ m.event = v  BY <3>2 DEF Turning, Told1
    <3>6. m \notin mail  BY <1>0, <3>3, <3>5 DEF SaysSo
    <3>7. m # NoMail  BY <1>a, <3>5, IdleFacts
    <3>8. Welcome(m, e)  BY <3>4, <3>5 DEF Welcome
    <3> HIDE DEF m
    <3>9. \A b \in Actors : job[b].msg # m  BY <1>0, <3>6, <3>7 DEF Kept
    <3>10. \A b \in Actors : Adopts(job'[b], m, e)  BY <3>7, <3>9 DEF Adopts, Follows
    <3> QED  BY <3>5, <3>8, <3>10
  <2> QED  BY <2>2, <2>3
<1>10. ErasedIsPurged'  BY <1>0, <1>a DEF ErasedIsPurged, Evolves
<1> QED
  BY <1>1, <1>2, <1>3, <1>4, <1>5, <1>6, <1>7, <1>8, <1>9, <1>10 DEF BillingInv

LEMMA FollowsSame ==
  ASSUME BillingInv, Evolves, NEW b \in Actors
  PROVE  Follows(job[b], job[b])
<1>1. job[b] \in Handlers /\ Sound(job[b], rows, provider, mishaps)  BY DEF BillingInv, Types
<1>2. Sound(job[b], rows', provider', mishaps')  BY <1>1, EvolvesGoesOn
<1> QED  BY <1>1, <1>2 DEF Follows

LEMMA FollowsIdle ==
  ASSUME BillingInv, Evolves, NEW b \in Actors,
         \A e \in Subs : Leaving(job[b], e) => <<"slipped", e>> \in mishaps'
  PROVE  Follows(job[b], Idle)
<1>1. \A m \in Mail : Idle.msg # m  BY IdleFacts
<1> QED  BY <1>1, IdleFacts DEF Follows, Adopts, Closes

LEMMA FollowsTail ==
  ASSUME BillingInv, Evolves, NEW b \in Actors, job[b].todo # <<>>,
         job[b].todo[1].do \notin {"write", "create"},
         \A e \in Subs : /\ Asks(job[b].todo[1], "cancelAtEnd", e) => ~Firm(provider', mishaps', e)
                         /\ Asks(job[b].todo[1], "cancelNow", e) => Dead(provider', e)
                         /\ Cancelling(job[b].todo[1], e) => Dead(provider', e) \/ <<"slipped", e>> \in mishaps'
  PROVE  Follows(job[b], After(job[b], Tail(job[b].todo)))
<1> DEFINE h == job[b]
           k == After(h, Tail(h.todo))
<1>0. Types /\ rows' = rows  BY DEF BillingInv, Evolves
<1>1. h \in Handlers /\ Sound(h, rows, provider, mishaps)  BY DEF BillingInv, Types
<1>2. Sound(h, rows', provider', mishaps')  BY <1>1, EvolvesGoesOn
<1>3. Len(rows') \in Nat /\ \A r \in 1..Len(rows') : rows'[r].ext \in Subs \union {NoSub}  BY <1>0, RowFacts
<1>4. k \in Handlers /\ Sound(k, rows', provider', mishaps')
  <2> HIDE DEF h
  <2>1. /\ h.todo # <<>>
        /\ \A e \in Subs : /\ Asks(h.todo[1], "cancelAtEnd", e) => ~Firm(provider', mishaps', e)
                           /\ Asks(h.todo[1], "cancelNow", e) => Dead(provider', e)
                           /\ Cancelling(h.todo[1], e) => Dead(provider', e) \/ <<"slipped", e>> \in mishaps'
    BY DEF h
  <2> QED  BY <1>1, <1>2, <1>3, <2>1, TailIsSound
<1>5. /\ \A e : ~Makes(h.todo[1], e)
      /\ \A r : ~Clears(h.todo[1], r)
  BY DEF Makes, Clears
<1>6. /\ \A m \in Mail : \A e \in Subs : Adopts(h, m, e) => Adopts(k, m, e)
      /\ \A m \in Mail : \A r \in 1..Len(rows) : Closes(h, m, r) => Closes(k, m, r)
  BY <1>1, <1>5, TailKeepsAim
<1>7. k.msg \in {h.msg, NoMail}
  <2>1. Tail(h.todo) \in Seq(Effects)  BY <1>1, TailFacts DEF Handlers
  <2> QED  BY <1>1, <2>1, AfterFacts
<1> QED  BY <1>4, <1>6, <1>7 DEF Follows, Leaving

LEMMA EvolvesOne ==
  ASSUME BillingInv, Evolves, NEW a \in Actors, NEW k, Follows(job[a], k), job' = [job EXCEPT ![a] = k]
  PROVE  BillingInv'
<1>1. job \in [Actors -> Handlers]  BY DEF BillingInv, Types
<1>2. k \in Handlers  BY DEF Follows
<1>3. job' \in [Actors -> Handlers] /\ \A b \in Actors : job'[b] = IF b = a THEN k ELSE job[b]
  BY <1>1, <1>2
<1>4. \A b \in Actors : Follows(job[b], job'[b])  BY <1>3, FollowsSame
<1> QED  BY <1>3, <1>4, EvolvesKeeps

LEMMA EvolvesNone ==
  ASSUME BillingInv, Evolves, job' = job
  PROVE  BillingInv'
<1>1. job' \in [Actors -> Handlers]  BY DEF BillingInv, Types
<1>2. \A b \in Actors : Follows(job[b], job'[b])  BY FollowsSame
<1> QED  BY <1>1, <1>2, EvolvesKeeps

LEMMA StayEvolves ==
  ASSUME Types, UNCHANGED <<gateway, rows, account, provider, mail, log, now>>, pending' \subseteq Subs,
         events' \in Nat, NEW S \in SUBSET Subs, mishaps' = mishaps \union {"slipped"} \X S
  PROVE  Evolves
<1>1. \A e \in Subs : SameAt(e)  BY DEF SameAt
<1>2. now' \in 0..Horizon /\ now <= now'  BY BoundsAssumption DEF Types
<1> QED  BY <1>1, <1>2 DEF Evolves, Types

LEMMA GoOnFacts ==
  ASSUME Types, NEW a \in Actors, Todo(a) # <<>>
  PROVE  /\ job[a] \in Handlers /\ job[a].todo \in Seq(Effects) /\ job[a].todo # <<>>
         /\ Next1(a) = job[a].todo[1] /\ job[a].todo[1] \in Effects
         /\ GoOn(a) => job' = [job EXCEPT ![a] = After(job[a], Tail(job[a].todo))]
         /\ Throw(a) => job' = [job EXCEPT ![a] = Idle]
         /\ \A effects : Continue(a, effects) => job' = [job EXCEPT ![a] = After(job[a], effects)]
<1>1. job[a] \in Handlers /\ job \in [Actors -> Handlers]  BY DEF Types
<1>2. job[a].todo \in Seq(Effects) /\ job[a].todo # <<>>  BY <1>1 DEF Handlers, Todo
<1>3. Next1(a) = job[a].todo[1] /\ job[a].todo[1] \in Effects  BY <1>2, TailFacts DEF Next1, Todo
<1>4. \A effects : Continue(a, effects) => job' = [job EXCEPT ![a] = After(job[a], effects)]
  BY DEF Continue, After
<1>5. GoOn(a) => job' = [job EXCEPT ![a] = After(job[a], Tail(job[a].todo))]
  BY <1>4 DEF GoOn, Todo
<1>6. Throw(a) => job' = [job EXCEPT ![a] = Idle]
  BY DEF Throw, Continue
<1> QED  BY <1>1, <1>2, <1>3, <1>4, <1>5, <1>6

LEMMA SlipFacts ==
  ASSUME Types, NEW a \in Actors
  PROVE  /\ \E S \in SUBSET Subs : Slip(a) = {"slipped"} \X S
         /\ \A e \in Subs : Leaving(job[a], e) => <<"slipped", e>> \in Slip(a)
<1>1. CASE Doing(a, "call") /\ Next1(a).op = "cancelNow" /\ Next1(a).onFail = "log"
  <2>1. Todo(a) # <<>>  BY <1>1 DEF Doing
  <2>2. Next1(a) \in Effects /\ Next1(a) = job[a].todo[1] /\ Next1(a).do = "call"  BY <1>1, <2>1, GoOnFacts DEF Doing
  <2>3. Next1(a).sub \in Subs  BY <2>2, EffectKinds DEF Calls
  <2>4. Slip(a) = {<<"slipped", Next1(a).sub>>}  BY <1>1 DEF Slip
  <2>5. Slip(a) = {"slipped"} \X {Next1(a).sub}  BY <2>4
  <2> QED  BY <2>2, <2>3, <2>4, <2>5 DEF Leaving, Cancelling
<1>2. CASE ~(Doing(a, "call") /\ Next1(a).op = "cancelNow" /\ Next1(a).onFail = "log")
  <2>1. Slip(a) = {"slipped"} \X {}  BY <1>2 DEF Slip
  <2>2. ASSUME NEW e \in Subs, Leaving(job[a], e)
        PROVE  FALSE
    <3>1. Todo(a) # <<>>  BY <2>2 DEF Leaving, Todo
    <3>2. Next1(a) = job[a].todo[1]  BY <3>1, GoOnFacts
    <3> QED  BY <1>2, <2>2, <3>1, <3>2 DEF Leaving, Cancelling, Doing
  <2> QED  BY <2>1, <2>2
<1> QED  BY <1>1, <1>2

\* A handler ends, for whatever reason.
LEMMA EndsKeeps ==
  ASSUME BillingInv, NEW a \in Actors, UNCHANGED <<gateway, rows, account, pending, provider, mail, log, now>>,
         events' \in Nat, mishaps' = mishaps \union Slip(a), job' = [job EXCEPT ![a] = Idle]
  PROVE  BillingInv'
<1>0. Types  BY DEF BillingInv
<1>1. PICK S \in SUBSET Subs : Slip(a) = {"slipped"} \X S  BY <1>0, SlipFacts
<1>2. pending' \subseteq Subs  BY <1>0 DEF Types
<1>3. Evolves  BY <1>0, <1>1, <1>2, StayEvolves
<1>4. Follows(job[a], Idle)  BY <1>0, <1>3, SlipFacts, FollowsIdle
<1> QED  BY <1>3, <1>4, EvolvesOne

LEMMA StopKeeps ==
  ASSUME BillingInv, NEW a \in Actors, Stop(a)
  PROVE  BillingInv'
<1>1. job' = [job EXCEPT ![a] = Idle]  BY DEF Stop, Throw, Continue
<1>2. events' \in Nat  BY DEF BillingInv, Types, Stop
<1> QED  BY <1>1, <1>2, EndsKeeps DEF Stop

LEMMA NewsTyped ==
  ASSUME Types, NEW op \in Ops, NEW e \in Subs, NEW p \in Plans, NEW at \in 0..Horizon, Accepted(op, e)
  PROVE  Outcome(op, e, p, at) \in Views /\ News(op, e, p, at) \subseteq Mail
<1> DEFINE s == Outcome(op, e, p, at)
<1>1. Turns(op, e, p, at)  BY OperationTurns, BoundsAssumption
<1>2. provider[e] \in Views  BY DEF Types
<1>3. s.state \in States /\ s.plan \in Plans /\ s.end \in 0..Horizon + 1
  BY <1>1, <1>2, BoundsAssumption DEF Turns, Views
<1>4. s = [state |-> s.state, plan |-> s.plan, end |-> s.end]  BY DEF Outcome
<1>5. s \in Views  BY <1>3, <1>4 DEF Views
<1>6. Operation[op][gateway] \subseteq Events  BY <1>1 DEF Turns
<1>7. News(op, e, p, at) \subseteq Mail  BY <1>3, <1>6 DEF News, Mail
<1> QED  BY <1>5, <1>7

LEMMA ChangeEvolves ==
  ASSUME Types, NEW op \in Ops, NEW e \in Subs, NEW p \in Plans, Change(op, e, p), Note(op, e),
         UNCHANGED <<gateway, rows, account, pending, log, now>>, events' \in Nat
  PROVE  /\ Evolves
         /\ op = "cancelNow" => Dead(provider', e)
         /\ op = "cancelAtEnd" => ~Firm(provider', mishaps', e)
<1>0. now \in 0..Horizon /\ now' = now /\ Accepted(op, e)  BY DEF Types, Change
<1>1. Outcome(op, e, p, now) \in Views /\ News(op, e, p, now) \subseteq Mail  BY <1>0, NewsTyped
<1>2. /\ provider' \in [Subs -> Views] /\ provider'[e] = Outcome(op, e, p, now)
      /\ \A x \in Subs : x # e => provider'[x] = provider[x]
      /\ mail' = mail \union News(op, e, p, now) /\ mail' \subseteq Mail
  BY <1>1 DEF Change, Types
<1>3. TurnedBy(op, e, p)  BY <1>0, <1>2 DEF TurnedBy, Note, Withdrawn
<1>4. \A m \in News(op, e, p, now) : m.sub = e  BY DEF News
<1>5. \A x \in Subs : x # e => SameAt(x)  BY <1>2, <1>4 DEF SameAt
<1>6. /\ mishaps \subseteq mishaps'
      /\ \A x \in Subs : \A kind \in {"overtaken", "erased"} : <<kind, x>> \in mishaps' => <<kind, x>> \in mishaps
  BY DEF Note
<1>7. now' \in 0..Horizon /\ now <= now'  BY <1>0, BoundsAssumption
<1>8. Evolves  BY <1>2, <1>3, <1>5, <1>6, <1>7 DEF Evolves, Types
<1>9. Turns(op, e, p, now)  BY <1>0, BoundsAssumption, OperationTurns
<1> QED  BY <1>2, <1>8, <1>9 DEF Turns, Dead, Firm

LEMMA AtProviderKeeps ==
  ASSUME BillingInv, NEW e \in Subs, NEW op \in {"pay", "cancelAtEnd", "uncancel", "decline", "recover"},
         AtProvider(op, e)
  PROVE  BillingInv'
<1>0. Types /\ op \in Ops /\ 0 \in Plans  BY StatesFacts DEF BillingInv, Ops
<1>1. events' \in Nat  BY <1>0 DEF Types, AtProvider
<1>2. Evolves  BY <1>0, <1>1, ChangeEvolves DEF AtProvider
<1> QED  BY <1>2, EvolvesNone DEF AtProvider

LEMMA BoundaryKeeps ==
  ASSUME BillingInv, Boundary
  PROVE  BillingInv'
<1>0. Types /\ 0 \in Plans  BY StatesFacts DEF BillingInv
<1>1. now \in 0..Horizon /\ now' = now + 1 /\ now' \in 0..Horizon /\ now <= now'
  BY <1>0, BoundsAssumption DEF Types, Boundary
<1> DEFINE News1(e) == UNION {News(op, e, 0, now + 1) : op \in AtBoundary(e)}
<1>2. ASSUME NEW e \in Subs
      PROVE  /\ provider'[e] \in Views /\ News1(e) \subseteq Mail
             /\ \A m \in News1(e) : m.sub = e
             /\ \/ News1(e) = {} /\ provider'[e] = provider[e]
                \/ \E op \in Ops : Accepted(op, e) /\ provider'[e] = Outcome(op, e, 0, now') /\ op # "uncancel"
                                   /\ News1(e) = News(op, e, 0, now')
  <2>0. provider'[e] = IF AtBoundary(e) = {} THEN provider[e]
                       ELSE Outcome(CHOOSE op \in AtBoundary(e) : TRUE, e, 0, now + 1)
    BY DEF Boundary
  <2>1. CASE AtBoundary(e) = {}
    <3>1. News1(e) = {} /\ provider'[e] = provider[e]  BY <2>0, <2>1
    <3>2. provider'[e] \in Views  BY <1>0, <3>1 DEF Types
    <3> QED  BY <3>1, <3>2
  <2>2. ASSUME NEW op \in {"renew", "lapse"}, AtBoundary(e) = {op}, Accepted(op, e)
        PROVE  /\ provider'[e] \in Views /\ News1(e) \subseteq Mail
               /\ \A m \in News1(e) : m.sub = e
               /\ provider'[e] = Outcome(op, e, 0, now') /\ op # "uncancel" /\ op \in Ops
               /\ News1(e) = News(op, e, 0, now')
    <3>1. provider'[e] = Outcome(op, e, 0, now')  BY <1>1, <2>0, <2>2
    <3>2. News1(e) = News(op, e, 0, now')  BY <1>1, <2>2
    <3>3. op \in Ops  BY DEF Ops
    <3>4. Outcome(op, e, 0, now') \in Views /\ News(op, e, 0, now') \subseteq Mail
      BY <1>0, <1>1, <2>2, <3>3, NewsTyped
    <3>5. \A m \in News(op, e, 0, now') : m.sub = e  BY DEF News
    <3> QED  BY <3>1, <3>2, <3>3, <3>4, <3>5
  <2>3. CASE provider[e].state = "active"
    <3>1. AtBoundary(e) = {"renew"}  BY <2>3 DEF AtBoundary
    <3>2. Accepted("renew", e)  BY <2>3 DEF Accepted, Operation
    <3> QED  BY <3>1, <3>2, <2>2
  <2>4. CASE provider[e].state \in {"ending", "late"}
    <3>1. AtBoundary(e) = {"lapse"}  BY <2>4 DEF AtBoundary
    <3>2. Accepted("lapse", e)  BY <2>4 DEF Accepted, Operation
    <3> QED  BY <3>1, <3>2, <2>2
  <2>5. CASE provider[e].state \notin {"active", "ending", "late"}
    <3>1. AtBoundary(e) = {}  BY <2>5 DEF AtBoundary
    <3> QED  BY <3>1, <2>1
  <2> QED  BY <2>3, <2>4, <2>5
<1>3. mail' = mail \union UNION {News1(e) : e \in Subs}  BY DEF Boundary
<1> HIDE DEF News1
<1>4. mail \subseteq mail' /\ mail' \subseteq Mail  BY <1>0, <1>2, <1>3 DEF Types
<1>5. ASSUME NEW e \in Subs
      PROVE  SameAt(e) \/ \E op \in Ops : \E p \in Plans : TurnedBy(op, e, p)
  <2>1. \A m \in mail' : m.sub = e => m \in mail \/ m \in News1(e)  BY <1>2, <1>3
  <2>2. News1(e) \subseteq mail'  BY <1>3
  <2>3. CASE News1(e) = {} /\ provider'[e] = provider[e]  BY <2>1, <2>3 DEF SameAt
  <2>4. ASSUME NEW op \in Ops, Accepted(op, e), provider'[e] = Outcome(op, e, 0, now'), op # "uncancel",
               News1(e) = News(op, e, 0, now')
        PROVE  TurnedBy(op, e, 0)
    BY <2>1, <2>2, <2>4 DEF TurnedBy
  <2> QED  BY <1>0, <1>2, <2>3, <2>4
<1>6. provider' = [e \in Subs |-> provider'[e]]  BY DEF Boundary
<1>7. provider' \in [Subs -> Views]  BY <1>2, <1>6
<1>8. Evolves  BY <1>0, <1>1, <1>4, <1>5, <1>7 DEF Evolves, Boundary, Types
<1> QED  BY <1>8, EvolvesNone DEF Boundary

-------------------------------------------------------------------------------
(* The steps of a handler, one effect at a time.                                 *)

LEMMA CallKeeps ==
  ASSUME BillingInv, NEW a \in Actors, CallProvider(a)
  PROVE  BillingInv'
<1> DEFINE h == job[a]
           c == Next1(a)
<1>0. Types /\ Todo(a) # <<>> /\ c.do = "call"  BY DEF BillingInv, CallProvider, Doing
<1>1. /\ h \in Handlers /\ h.todo # <<>> /\ c = h.todo[1] /\ c \in Effects
      /\ GoOn(a) => job' = [job EXCEPT ![a] = After(h, Tail(h.todo))]
      /\ Throw(a) => job' = [job EXCEPT ![a] = Idle]
      /\ \A effects : Continue(a, effects) => job' = [job EXCEPT ![a] = After(h, effects)]
  BY <1>0, GoOnFacts
<1>2. c \in Calls  BY <1>0, <1>1, EffectKinds
<1>3. /\ c.op \in Ops /\ c.sub \in Subs /\ c.plan \in Plans /\ c.row \in Nat
      /\ c.onFail \in {"throw", "log", "revert"} /\ (c.onFail = "revert" => c.row # 0)
  BY <1>2 DEF Calls
<1>4. UNCHANGED <<gateway, rows, account, pending, log, now>>  BY DEF CallProvider
<1>5. CASE Change(c.op, c.sub, c.plan) /\ GoOn(a) /\ UNCHANGED events /\ Note(c.op, c.sub)
  <2>1. events' \in Nat  BY <1>0, <1>5 DEF Types
  <2>2. /\ Evolves
        /\ c.op = "cancelNow" => Dead(provider', c.sub)
        /\ c.op = "cancelAtEnd" => ~Firm(provider', mishaps', c.sub)
    BY <1>0, <1>3, <1>4, <1>5, <2>1, ChangeEvolves
  <2>3. /\ job[a].todo # <<>> /\ job[a].todo[1].do \notin {"write", "create"}
        /\ \A e \in Subs : /\ Asks(job[a].todo[1], "cancelAtEnd", e) => ~Firm(provider', mishaps', e)
                           /\ Asks(job[a].todo[1], "cancelNow", e) => Dead(provider', e)
                           /\ Cancelling(job[a].todo[1], e) => Dead(provider', e) \/ <<"slipped", e>> \in mishaps'
    BY <1>0, <1>1, <2>2 DEF Asks, Cancelling
  <2>4. Follows(job[a], After(job[a], Tail(job[a].todo)))  BY <2>2, <2>3, FollowsTail
  <2> QED  BY <1>1, <1>5, <2>2, <2>4, EvolvesOne
<1>6. ASSUME /\ IF Accepted(c.op, c.sub) THEN events < MaxEvents /\ events' = events + 1 ELSE UNCHANGED events
             /\ \/ c.onFail = "throw" /\ Throw(a)
                \/ c.onFail = "revert" /\ Continue(a, Write(c.row, [change |-> Unscheduled]))
                \/ c.onFail = "log" /\ GoOn(a)
             /\ mishaps' = mishaps \union Slip(a)
             /\ UNCHANGED <<provider, mail>>
      PROVE  BillingInv'
  <2>1. events' \in Nat  BY <1>0, <1>6 DEF Types
  <2>2. PICK S \in SUBSET Subs : Slip(a) = {"slipped"} \X S  BY <1>0, SlipFacts
  <2>3. pending' \subseteq Subs  BY <1>0, <1>4 DEF Types
  <2>4. Evolves  BY <1>0, <1>4, <1>6, <2>1, <2>2, <2>3, StayEvolves
  <2>5. \A e \in Subs : Leaving(h, e) => <<"slipped", e>> \in mishaps'  BY <1>0, <1>6, SlipFacts
  <2>6. CASE c.onFail = "throw" /\ Throw(a)
    BY <1>1, <1>4, <1>6, <2>1, <2>6, EndsKeeps
  <2>7. CASE c.onFail = "log" /\ GoOn(a)
    <3>1. /\ job[a].todo # <<>> /\ job[a].todo[1].do \notin {"write", "create"}
          /\ \A e \in Subs : /\ Asks(job[a].todo[1], "cancelAtEnd", e) => ~Firm(provider', mishaps', e)
                             /\ Asks(job[a].todo[1], "cancelNow", e) => Dead(provider', e)
                             /\ Cancelling(job[a].todo[1], e) => Dead(provider', e) \/ <<"slipped", e>> \in mishaps'
      BY <1>0, <1>1, <2>5, <2>7 DEF Asks, Leaving
    <3>2. Follows(job[a], After(job[a], Tail(job[a].todo)))  BY <2>4, <3>1, FollowsTail
    <3> QED  BY <1>1, <2>4, <2>7, <3>2, EvolvesOne
  <2>8. CASE c.onFail = "revert" /\ Continue(a, Write(c.row, [change |-> Unscheduled]))
    <3> DEFINE w == [do |-> "write", row |-> c.row, set |-> [change |-> Unscheduled], skip |-> FALSE]
               k == After(h, <<w>>)
    <3>0. Sound(h, rows, provider, mishaps) /\ rows' = rows  BY <1>4 DEF BillingInv
    <3>1. h.msg = NoMail /\ c.row <= Len(rows)
      <4>1. Len(h.todo) >= 1 /\ Len(h.todo) \in Nat  BY <1>1 DEF Handlers
      <4> QED  BY <1>0, <1>1, <2>8, <3>0, <4>1 DEF Sound, InPlace
    <3>2. [change |-> Unscheduled] \in Patches  BY PatchTypes, StatesFacts
    <3>3. w \in Effects /\ w.do = "write" /\ w.row = c.row /\ w.set = [change |-> Unscheduled]
      BY <1>3, <2>8, <3>2 DEF Effects, Writes
    <3> HIDE DEF w
    <3>4. <<w>> \in Seq(Effects) /\ <<w>> # <<>> /\ Len(<<w>>) = 1 /\ <<w>>[1] = w  BY <3>3
    <3>5. k \in Handlers /\ k.todo = <<w>> /\ k.msg = NoMail  BY <1>1, <3>1, <3>4, AfterFacts
    <3>6. /\ \A r : ~Clears(w, r) /\ ~Dooms(w, r) /\ ~Cancels(w, r)
          /\ \A e : ~Makes(w, e)
      BY <3>3, StatesFacts DEF Clears, Dooms, Cancels, Makes
    <3> HIDE DEF k
    <3>7. \A i \in 1..Len(k.todo) : k.todo[i] = w /\ i = 1  BY <3>4, <3>5
    <3>8. Sound(k, rows', provider', mishaps')
      <4>1. InPlace(k, rows)  BY <3>1, <3>3, <3>7 DEF InPlace
      <4>2. OfBorn(k, provider')  BY <3>6, <3>7 DEF OfBorn
      <4>3. Careful(k, rows, provider', mishaps')  BY <3>6, <3>7 DEF Careful
      <4>4. Told(k, rows, provider')  BY <3>6, <3>7 DEF Told
      <4>5. Purging(k, rows, provider', mishaps')  BY <3>3, <3>7 DEF Purging
      <4> QED  BY <3>0, <4>1, <4>2, <4>3, <4>4, <4>5 DEF Sound
    <3>9. \A m \in Mail : k.msg # m  BY <3>5, IdleFacts
    <3>10. \A e \in Subs : ~Leaving(h, e)  BY <1>1, <2>8 DEF Leaving, Cancelling
    <3>11. Follows(h, k)  BY <3>5, <3>8, <3>9, <3>10 DEF Follows, Adopts, Closes
    <3>12. job' = [job EXCEPT ![a] = k]  BY <1>1, <2>8 DEF Write, w, k
    <3> QED  BY <2>4, <3>11, <3>12, EvolvesOne
  <2> QED  BY <1>6, <2>6, <2>7, <2>8
<1> QED  BY <1>5, <1>6 DEF CallProvider

\* settle and remember
LEMMA CheckoutsKeep ==
  ASSUME BillingInv, NEW a \in Actors, NEW do \in {"settle", "remember"}, Doing(a, do), GoOn(a),
         UNCHANGED <<gateway, rows, account, provider, mail, log, now, events, mishaps>>,
         pending' \subseteq pending \union {Next1(a).sub}
  PROVE  BillingInv'
<1>0. Types /\ Todo(a) # <<>> /\ Next1(a).do = do  BY DEF BillingInv, Doing
<1>1. /\ job[a].todo # <<>> /\ Next1(a) = job[a].todo[1] /\ Next1(a) \in Effects
      /\ job' = [job EXCEPT ![a] = After(job[a], Tail(job[a].todo))]
  BY <1>0, GoOnFacts
<1>2. pending' \subseteq Subs /\ events' \in Nat  BY <1>0, <1>1, EffectKinds DEF Types
<1>3. {} \in SUBSET Subs /\ mishaps' = mishaps \union {"slipped"} \X {}  OBVIOUS
<1>4. Evolves  BY <1>0, <1>2, <1>3, StayEvolves
<1>5. /\ job[a].todo[1].do \notin {"write", "create"}
      /\ \A e \in Subs : /\ Asks(job[a].todo[1], "cancelAtEnd", e) => ~Firm(provider', mishaps', e)
                         /\ Asks(job[a].todo[1], "cancelNow", e) => Dead(provider', e)
                         /\ Cancelling(job[a].todo[1], e) => Dead(provider', e) \/ <<"slipped", e>> \in mishaps'
  BY <1>0, <1>1 DEF Asks, Cancelling
<1>6. Follows(job[a], After(job[a], Tail(job[a].todo)))  BY <1>1, <1>4, <1>5, FollowsTail
<1> QED  BY <1>1, <1>4, <1>6, EvolvesOne

\* The first effect of a handler, and the handler without it.
LEMMA NextFacts ==
  ASSUME BillingInv, NEW a \in Actors, NEW do, Doing(a, do)
  PROVE  /\ Types /\ job[a] \in Handlers /\ job[a].todo \in Seq(Effects) /\ job[a].todo # <<>>
         /\ Next1(a) = job[a].todo[1] /\ Next1(a) \in Effects /\ Next1(a).do = do
         /\ Sound(job[a], rows, provider, mishaps)
         /\ Len(job[a].todo) \in Nat /\ Len(job[a].todo) >= 1 /\ 1 \in 1..Len(job[a].todo)
         /\ GoOn(a) => job' = [job EXCEPT ![a] = After(job[a], Tail(job[a].todo))]
         /\ Throw(a) => job' = [job EXCEPT ![a] = Idle]
<1>1. Types /\ Todo(a) # <<>> /\ Next1(a).do = do /\ Sound(job[a], rows, provider, mishaps)
  BY DEF BillingInv, Doing
<1>2. /\ job[a] \in Handlers /\ job[a].todo \in Seq(Effects) /\ job[a].todo # <<>>
      /\ Next1(a) = job[a].todo[1] /\ Next1(a) \in Effects
      /\ GoOn(a) => job' = [job EXCEPT ![a] = After(job[a], Tail(job[a].todo))]
      /\ Throw(a) => job' = [job EXCEPT ![a] = Idle]
  BY <1>1, GoOnFacts
<1>3. Len(job[a].todo) \in Nat /\ Len(job[a].todo) >= 1 /\ 1 \in 1..Len(job[a].todo)  BY <1>2
<1> QED  BY <1>1, <1>2, <1>3

\* A handler that ends with its last effect is idle.
LEMMA LastFacts ==
  ASSUME BillingInv, NEW a \in Actors, Doing(a, "processed") \/ Doing(a, "erase"), GoOn(a)
  PROVE  /\ Len(job[a].todo) = 1 /\ job' = [job EXCEPT ![a] = Idle]
         /\ Next1(a).do = "processed" => job[a].msg # NoMail
<1>1. PICK do \in {"processed", "erase"} : Doing(a, do)  OBVIOUS
<1>2. /\ job[a].todo \in Seq(Effects) /\ job[a].todo # <<>> /\ Next1(a) = job[a].todo[1] /\ Next1(a).do = do
      /\ Sound(job[a], rows, provider, mishaps) /\ 1 \in 1..Len(job[a].todo) /\ Len(job[a].todo) \in Nat
      /\ job' = [job EXCEPT ![a] = After(job[a], Tail(job[a].todo))]
  BY <1>1, NextFacts
<1>3. Len(job[a].todo) = 1 /\ (do = "processed" => job[a].msg # NoMail)  BY <1>2 DEF Sound, InPlace
<1>4. Tail(job[a].todo) \in Seq(Effects) /\ Len(Tail(job[a].todo)) = 0  BY <1>2, <1>3, TailFacts
<1>5. Tail(job[a].todo) = <<>>  BY <1>4, EmptySeq
<1> QED  BY <1>2, <1>3, <1>5 DEF After

LEMMA ProcessedKeeps ==
  ASSUME BillingInv, NEW a \in Actors, Processed(a)
  PROVE  BillingInv'
<1> DEFINE m0 == job[a].msg
           x  == job[a].todo[1]
<1>0. /\ Types /\ RowsAreUnique /\ EndedIsCleared /\ (\A b \in Actors : Kept(b))
      /\ (\A m \in mail : SaysSo(m))
      /\ DedupeIsSafe /\ (\A e \in Subs : Unborn(e))
      /\ (\A b \in Actors : Sound(job[b], rows, provider, mishaps))
      /\ (\A r \in 1..Len(rows) : RowStands(r) /\ EndIsNews(r))
      /\ (\A e \in Subs : Covered(e))
      /\ ErasedIsPurged
  BY DEF BillingInv
<1>a. UNCHANGED <<gateway, rows, account, pending, provider, now, events, mishaps>>  BY DEF Processed
<1>b. /\ Len(job[a].todo) = 1 /\ job' = [job EXCEPT ![a] = Idle] /\ m0 # NoMail
      /\ x.do = "processed" /\ job[a] \in Handlers
  BY NextFacts, LastFacts DEF Processed
<1>c. m0 \in mail /\ mail' = mail \ {m0} /\ mail \subseteq Mail /\ m0 \in Mail
  BY <1>0, <1>b DEF Kept, Processed, Types
<1>d. job \in [Actors -> Handlers] /\ \A b \in Actors : job'[b] = IF b = a THEN Idle ELSE job[b]
  BY <1>0, <1>b DEF Types
<1>1. Types'  BY <1>0, <1>a, <1>b, <1>c, IdleFacts DEF Types
<1>2. RowsAreUnique' /\ EndedIsCleared'  BY <1>0, <1>a DEF RowsAreUnique, EndedIsCleared
<1>3. \A b \in Actors : Kept(b)'
  <2> SUFFICES ASSUME NEW b \in Actors, job'[b].msg # NoMail
               PROVE  job'[b].msg \in mail' /\ \A c \in Actors : job'[c].msg = job'[b].msg => b = c
    BY DEF Kept
  <2>1. b # a /\ job'[b] = job[b]  BY <1>d, IdleFacts
  <2>2. job[b].msg \in mail /\ \A c \in Actors : job[c].msg = job[b].msg => b = c  BY <1>0, <2>1 DEF Kept
  <2>3. job[b].msg # m0  BY <2>1, <2>2
  <2>4. \A c \in Actors : job'[c].msg = job'[b].msg => job[c].msg = job[b].msg  BY <1>d, <2>1, IdleFacts
  <2> QED  BY <1>c, <2>1, <2>2, <2>3, <2>4
<1>4. \A m \in mail' : SaysSo(m)'  BY <1>0, <1>a, <1>c DEF SaysSo, Withdrawn
<1>5. DedupeIsSafe'
  <2> SUFFICES ASSUME gateway = "razorpay", NEW e \in Subs
               PROVE  /\ SaidOnce(e, "cancelled")' /\ SaidOnce(e, "activated")'
                      /\ <<"cancelled", e>> \in log' => provider[e].state = "dead"
                      /\ <<"activated", e>> \in log' => provider[e].state \notin {"none", "open"}
    BY <1>a DEF DedupeIsSafe
  <2>0. /\ SaidOnce(e, "cancelled") /\ SaidOnce(e, "activated")
        /\ <<"cancelled", e>> \in log => provider[e].state = "dead"
        /\ <<"activated", e>> \in log => provider[e].state \notin {"none", "open"}
    BY <1>0 DEF DedupeIsSafe
  <2>1. log' = log \union {<<m0.event, m0.sub>>}  BY DEF Processed, DedupeKey
  <2>2. SaysSo(m0)  BY <1>0, <1>c
  <2>3. \A v \in {"cancelled", "activated"} : <<v, e>> \in log' => <<v, e>> \in log \/ (m0.event = v /\ m0.sub = e)
    BY <2>1
  <2>4. ASSUME NEW v \in {"cancelled", "activated"}, SaidOnce(e, v)
        PROVE  SaidOnce(e, v)'
    BY <1>c, <2>3, <2>4 DEF SaidOnce
  <2> QED  BY <2>0, <2>2, <2>3, <2>4 DEF SaysSo
<1>6. \A e \in Subs : Unborn(e)'  BY <1>0, <1>a DEF Unborn, HasRow
<1>7. \A b \in Actors : Sound(job[b], rows, provider, mishaps)'  BY <1>0, <1>a, <1>d, IdleFacts
<1>f. /\ \A e : ~Adopts(job[a], m0, e)
      /\ \A r : ~Closes(job[a], m0, r)
  BY <1>b DEF Adopts, Closes, Makes, Clears
<1>8. ASSUME NEW r \in 1..Len(rows')
      PROVE  RowStands(r)' /\ EndIsNews(r)'
  <2>0. r \in 1..Len(rows) /\ RowStands(r) /\ EndIsNews(r)  BY <1>0, <1>a
  <2>1. RowStands(r)'  BY <1>a, <2>0 DEF RowStands
  <2>2. EndIsNews(r)'
    <3> SUFFICES ASSUME NEW m \in mail, Final(m, rows[r].ext), \A b \in Actors : Closes(job[b], m, r)
                 PROVE  m \in mail' /\ \A b \in Actors : Closes(job'[b], m, r)
      BY <1>a, <2>0 DEF EndIsNews, Final
    <3>1. m # m0  BY <1>f
    <3>2. m \in Mail  BY <1>c
    <3> QED  BY <1>c, <1>d, <3>1, <3>2, IdleFacts DEF Closes
  <2> QED  BY <2>1, <2>2
<1>9. ASSUME NEW e \in Subs
      PROVE  Covered(e)'
  <2> SUFFICES ASSUME Paying(e), ~HasRow(e), ~Excused(mishaps, e)
               PROVE  \/ \E b \in Actors : Leaving(job'[b], e)
                      \/ \E m \in mail' : Welcome(m, e) /\ \A b \in Actors : Adopts(job'[b], m, e)
    BY <1>a DEF Covered, Paying, HasRow
  <2>1. CASE \E b \in Actors : Leaving(job[b], e)
    <3>1. ~Leaving(job[a], e)  BY <1>b DEF Leaving, Cancelling
    <3> QED  BY <1>d, <2>1, <3>1
  <2>2. ASSUME NEW m \in mail, Welcome(m, e), \A b \in Actors : Adopts(job[b], m, e)
        PROVE  m \in mail' /\ \A b \in Actors : Adopts(job'[b], m, e)
    <3>1. m # m0  BY <2>2, <1>f
    <3>2. m \in Mail  BY <1>c
    <3> QED  BY <1>c, <1>d, <2>2, <3>1, <3>2, IdleFacts DEF Adopts
  <2> QED  BY <1>0, <2>1, <2>2 DEF Covered
<1>10. ErasedIsPurged'  BY <1>0, <1>a DEF ErasedIsPurged
<1> QED
  BY <1>1, <1>2, <1>3, <1>4, <1>5, <1>6, <1>7, <1>8, <1>9, <1>10 DEF BillingInv

LEMMA DeleteAccountKeeps ==
  ASSUME BillingInv, DeleteAccount
  PROVE  BillingInv'
<1>a. UNCHANGED <<gateway, rows, pending, provider, mail, log, job, now, mishaps>> /\ account = "open"
      /\ account' = "deleted" /\ events' = events + 1
  BY DEF DeleteAccount
<1>1. Types'  BY <1>a DEF BillingInv, Types
<1>2. ErasedIsPurged'  BY <1>a DEF BillingInv, ErasedIsPurged
<1>3. RowsAreUnique' /\ EndedIsCleared' /\ DedupeIsSafe'
  BY <1>a DEF BillingInv, RowsAreUnique, EndedIsCleared, DedupeIsSafe, SaidOnce
<1>4. (\A b \in Actors : Kept(b)') /\ (\A m \in mail' : SaysSo(m)') /\ (\A e \in Subs : Unborn(e)')
      /\ (\A b \in Actors : Sound(job[b], rows, provider, mishaps)')
  BY <1>a DEF BillingInv, Kept, SaysSo, Withdrawn, Unborn, HasRow
<1>5. (\A r \in 1..Len(rows') : RowStands(r)' /\ EndIsNews(r)')
  BY <1>a DEF BillingInv, RowStands, EndIsNews, Final
<1>6. \A e \in Subs : Covered(e)'
  BY <1>a DEF BillingInv, Covered, Paying, HasRow
<1> QED  BY <1>1, <1>2, <1>3, <1>4, <1>5, <1>6 DEF BillingInv

\* What an update does to the row it writes.
RowUpdated(x) ==
  \/ /\ x.skip /\ rows' = rows
     /\ \A r : ~Clears(x, r) /\ ~Dooms(x, r) /\ ~Cancels(x, r)
  \/ /\ rows'[x.row].ext = IF "ext" \in DOMAIN x.set THEN NoSub ELSE rows[x.row].ext
     /\ rows'[x.row].status = IF "status" \in DOMAIN x.set THEN x.set.status ELSE rows[x.row].status
     /\ rows'[x.row].change = IF "change" \in DOMAIN x.set THEN x.set.change ELSE rows[x.row].change

\* An update that happens.
Updates(a, x) ==
  /\ Doing(a, "write") /\ x = job[a].todo[1] /\ GoOn(a)
  /\ x.row # 0 /\ rows[x.row].status # "DELETED"
  /\ rows' = [rows EXCEPT ![x.row] = IF x.skip /\ @.limits # -1 THEN @ ELSE Updated(@, x.set)]
  /\ mishaps' = mishaps \ Learnt(x)
  /\ UNCHANGED <<gateway, account, pending, provider, mail, log, now, events>>

\* The row keeps its provider subscription or loses it.
LEMMA UpdateFacts ==
  ASSUME BillingInv, NEW a \in Actors, NEW x, Updates(a, x)
  PROVE  /\ x \in Writes /\ Sane(x.set) /\ x.row \in 1..Len(rows) /\ rows' \in Seq(Row) /\ Len(rows') = Len(rows)
         /\ \A r \in 1..Len(rows) : r # x.row => rows'[r] = rows[r]
         /\ RowUpdated(x)
         /\ mishaps' \subseteq mishaps
         /\ \A e \in Subs : \A kind \in {"slipped", "overtaken", "erased"} : <<kind, e>> \in mishaps => <<kind, e>> \in mishaps'
<1>0. Types /\ x \in Effects /\ x.do = "write" /\ Sound(job[a], rows, provider, mishaps)
      /\ 1 \in 1..Len(job[a].todo) /\ x = job[a].todo[1]
  BY NextFacts DEF Updates
<1>1. x \in Writes  BY <1>0, EffectKinds
<1>2. /\ x.row \in Nat /\ x.set \in Patches /\ Sane(x.set) /\ x.skip \in BOOLEAN
      /\ x.skip => DOMAIN x.set \subseteq {"limits", "end"}
  BY <1>1, WriteFacts
<1>3. x.row <= Len(rows)  BY <1>0 DEF Sound, InPlace
<1>4. x.row \in 1..Len(rows) /\ rows \in Seq(Row) /\ rows[x.row] \in Row
  <2>1. x.row # 0 /\ rows \in Seq(Row) /\ Len(rows) \in Nat  BY <1>0 DEF Types, Updates
  <2> QED  BY <1>0, <1>2, <1>3, <2>1, RowFacts
<1> DEFINE new == IF x.skip /\ rows[x.row].limits # -1 THEN rows[x.row] ELSE Updated(rows[x.row], x.set)
<1>5. rows' = [rows EXCEPT ![x.row] = new]  BY DEF Updates
<1>6. new \in Row  BY <1>2, <1>4, UpdatedRow
<1> HIDE DEF new
<1>7. /\ rows' \in Seq(Row) /\ Len(rows') = Len(rows) /\ rows'[x.row] = new
      /\ \A r \in 1..Len(rows) : r # x.row => rows'[r] = rows[r]
  BY <1>4, <1>5, <1>6
<1>8. ASSUME x.skip /\ rows[x.row].limits # -1
      PROVE  RowUpdated(x)
  <2>1. rows' = rows  BY <1>4, <1>5, <1>8 DEF new
  <2>2. \A r : ~Clears(x, r) /\ ~Dooms(x, r) /\ ~Cancels(x, r)  BY <1>2, <1>8 DEF Clears, Dooms, Cancels
  <2> QED  BY <1>8, <2>1, <2>2 DEF RowUpdated
<1>9. ASSUME ~(x.skip /\ rows[x.row].limits # -1)
      PROVE  RowUpdated(x)
  <2>1. rows'[x.row] = Updated(rows[x.row], x.set)  BY <1>7, <1>9 DEF new
  <2>2. /\ Updated(rows[x.row], x.set).ext = IF "ext" \in DOMAIN x.set THEN NoSub ELSE rows[x.row].ext
        /\ Updated(rows[x.row], x.set).status = IF "status" \in DOMAIN x.set THEN x.set.status ELSE rows[x.row].status
        /\ Updated(rows[x.row], x.set).change = IF "change" \in DOMAIN x.set THEN x.set.change ELSE rows[x.row].change
    BY <1>2, <1>4, UpdatedRow
  <2> QED  BY <2>1, <2>2 DEF RowUpdated
<1>10. /\ mishaps' \subseteq mishaps
       /\ \A e \in Subs : \A kind \in {"slipped", "overtaken", "erased"} : <<kind, e>> \in mishaps => <<kind, e>> \in mishaps'
  BY DEF Learnt, Updates
<1> QED  BY <1>1, <1>2, <1>4, <1>7, <1>8, <1>9, <1>10

\* What is no longer withdrawn: the row stands, and nothing on its way says otherwise.
LEMMA LearntFacts ==
  ASSUME BillingInv, NEW a \in Actors, Doing(a, "write"), NEW x, x = job[a].todo[1], x \in Writes, x.row \in 1..Len(rows),
         NEW e \in Subs, <<"withdrawn", e>> \in Learnt(x)
  PROVE  /\ e = rows[x.row].ext /\ rows[x.row].status # "CANCELLED" /\ x.set = [change |-> Unscheduled]
         /\ \A m \in mail : m.sub = e => m.status # "ending"
         /\ \A b \in Actors : \A i \in 1..Len(job[b].todo) :
              ~Clears(job[b].todo[i], x.row) /\ ~Dooms(job[b].todo[i], x.row)
<1>1. /\ e = rows[x.row].ext /\ rows[x.row].status # "CANCELLED" /\ x.set = [change |-> Unscheduled]
      /\ ~\E m \in mail : m.sub = e /\ m.status = "ending"
      /\ ~\E b \in Actors : \E i \in DOMAIN Todo(b) :
           /\ Todo(b)[i].do = "write" /\ Todo(b)[i].row = x.row
           /\ "change" \in DOMAIN Todo(b)[i].set /\ Todo(b)[i].set # x.set
  BY DEF Learnt
<1>2. ASSUME NEW b \in Actors, NEW i \in 1..Len(job[b].todo), NEW y, y = job[b].todo[i]
      PROVE  ~Clears(y, x.row) /\ ~Dooms(y, x.row)
  <2>1. job[b].todo \in Seq(Effects)  BY DEF BillingInv, Types, Handlers
  <2>2. y \in Effects /\ i \in DOMAIN Todo(b) /\ y = Todo(b)[i]  BY <1>2, <2>1 DEF Todo
  <2>3. (y.do = "write" /\ y.row = x.row /\ "change" \in DOMAIN y.set) => y.set = [change |-> Unscheduled]
    BY <1>1, <2>2
  <2>4. (y.do = "write" /\ "ext" \in DOMAIN y.set) => "change" \in DOMAIN y.set
    BY <2>2, EffectKinds, WriteFacts DEF Sane
  <2>5. DOMAIN [change |-> Unscheduled] = {"change"} /\ [change |-> Unscheduled].change.to # 0  BY StatesFacts
  <2> QED  BY <2>3, <2>4, <2>5 DEF Clears, Dooms
<1> QED  BY <1>1, <1>2

LEMMA UpdateKeeps ==
  ASSUME BillingInv, NEW a \in Actors, NEW x, Updates(a, x)
  PROVE  BillingInv'
<1> DEFINE h == job[a]
           k == After(h, Tail(h.todo))
<1>0. /\ Types /\ RowsAreUnique /\ EndedIsCleared /\ (\A b \in Actors : Kept(b))
      /\ (\A m \in mail : SaysSo(m))
      /\ DedupeIsSafe /\ (\A e \in Subs : Unborn(e))
      /\ (\A b \in Actors : Sound(job[b], rows, provider, mishaps))
      /\ (\A r \in 1..Len(rows) : RowStands(r) /\ EndIsNews(r))
      /\ (\A e \in Subs : Covered(e))
      /\ ErasedIsPurged
  BY DEF BillingInv
<1>a. /\ h \in Handlers /\ h.todo \in Seq(Effects) /\ h.todo # <<>> /\ x \in Effects /\ x.do = "write"
      /\ 1 \in 1..Len(h.todo) /\ Len(h.todo) \in Nat
      /\ job' = [job EXCEPT ![a] = k] /\ x = h.todo[1]
  BY NextFacts DEF Updates
<1>b. /\ x \in Writes /\ Sane(x.set) /\ x.row \in 1..Len(rows) /\ rows' \in Seq(Row) /\ Len(rows') = Len(rows)
      /\ \A r \in 1..Len(rows) : r # x.row => rows'[r] = rows[r]
      /\ RowUpdated(x)
      /\ mishaps' \subseteq mishaps
      /\ \A e \in Subs : \A kind \in {"slipped", "overtaken", "erased"} : <<kind, e>> \in mishaps => <<kind, e>> \in mishaps'
  BY UpdateFacts
<1>n1. rows' \in Seq(Row) /\ Len(rows') = Len(rows)  BY <1>b
<1>n2. /\ mishaps' \subseteq mishaps
       /\ \A e \in Subs : \A kind \in {"slipped", "overtaken", "erased"} : <<kind, e>> \in mishaps => <<kind, e>> \in mishaps'
  BY <1>b
<1>c. \A e \in Subs : <<"withdrawn", e>> \in mishaps => <<"withdrawn", e>> \in mishaps' \/ <<"withdrawn", e>> \in Learnt(x)
  BY DEF Updates
<1>d. ASSUME NEW e \in Subs, <<"withdrawn", e>> \in Learnt(x)
      PROVE  /\ e = rows[x.row].ext /\ rows[x.row].status # "CANCELLED" /\ x.set = [change |-> Unscheduled]
             /\ \A m \in mail : m.sub = e => m.status # "ending"
             /\ \A b \in Actors : \A i \in 1..Len(job[b].todo) :
                  ~Clears(job[b].todo[i], x.row) /\ ~Dooms(job[b].todo[i], x.row)
  BY <1>b, <1>d, LearntFacts DEF Updates
<1>e. Len(rows) \in Nat /\ \A r \in 1..Len(rows) : rows[r].ext \in Subs \union {NoSub}
  BY <1>0, RowFacts
<1>f. \A r \in 1..Len(rows) : IF Clears(x, r) THEN rows'[r].ext = NoSub ELSE rows'[r].ext = rows[r].ext
  BY <1>a, <1>b DEF Clears, RowUpdated
<1>g. job \in [Actors -> Handlers] /\ \A b \in Actors : job'[b] = IF b = a THEN k ELSE job[b]
  BY <1>0, <1>a DEF Types
<1>h. UNCHANGED <<gateway, account, pending, provider, mail, log, now, events>> /\ mail \subseteq Mail
  BY <1>0 DEF Types, Updates
<1>i. \A op, e : ~Asks(x, op, e) /\ ~Cancelling(x, e) /\ ~Makes(x, e)
  BY <1>a DEF Asks, Cancelling, Makes
<1> HIDE DEF k
<1>j. GoesOn(rows, provider, mishaps, rows', provider', mishaps')
  <2>1. Len(rows') \in Nat /\ Len(rows) <= Len(rows')  BY <1>n1, <1>e
  <2>2. \A r \in 1..Len(rows) : rows'[r].ext \in {rows[r].ext, NoSub}  BY <1>f
  <2>3. \A e \in Subs : <<"slipped", e>> \in mishaps => <<"slipped", e>> \in mishaps'  BY <1>n2
  <2>4. provider' = provider  BY <1>h
  <2> QED  BY <1>e, <2>1, <2>2, <2>3, <2>4 DEF GoesOn, Dead
<1>k. ASSUME NEW b \in Actors
      PROVE  Sound(job[b], rows', provider', mishaps')
  <2>1. job[b] \in Handlers /\ Sound(job[b], rows, provider, mishaps)  BY <1>0, <1>g
  <2>2. FirmWasFirm(job[b], rows, provider, mishaps, rows', provider', mishaps')
    <3> SUFFICES ASSUME NEW r \in 1..Len(rows), rows'[r].ext # NoSub, Firm(provider', mishaps', rows'[r].ext),
                        ~Firm(provider, mishaps, rows'[r].ext)
                 PROVE  \A i \in 1..Len(job[b].todo) : ~Clears(job[b].todo[i], r) /\ ~Dooms(job[b].todo[i], r)
      BY DEF FirmWasFirm
    <3> DEFINE e == rows'[r].ext
    <3>1. e = rows[r].ext /\ e \in Subs  BY <1>e, <1>f
    <3>2. <<"withdrawn", e>> \in Learnt(x)  BY <1>c, <1>h, <3>1 DEF Firm
    <3>3. e = rows[x.row].ext  BY <1>d, <3>1, <3>2
    <3>4. r = x.row  BY <1>0, <1>b, <3>1, <3>3 DEF RowsAreUnique
    <3> QED  BY <1>d, <3>1, <3>2, <3>4
  <2>3. \A r \in 1..Len(rows') : rows'[r].ext \in Subs \union {NoSub}  BY <1>b, <1>e, <1>f
  <2>4. \A r \in 1..Len(rows') : rows'[r].ext \in Subs \union {NoSub}  BY <2>3
  <2> DEFINE g == job[b]
  <2> HIDE DEF g
  <2>5. g \in Handlers /\ Sound(g, rows, provider, mishaps)
        /\ FirmWasFirm(g, rows, provider, mishaps, rows', provider', mishaps')
    BY <2>1, <2>2 DEF g
  <2>6. Sound(g, rows', provider', mishaps')  BY <1>j, <2>4, <2>5, SoundKept
  <2> QED  BY <2>6 DEF g
<1>l. k \in Handlers /\ Sound(k, rows', provider', mishaps')
  <2>1. Len(rows') \in Nat /\ \A r \in 1..Len(rows') : rows'[r].ext \in Subs \union {NoSub}  BY <1>b, <1>e, <1>f
  <2>2. \A e \in Subs : /\ Asks(h.todo[1], "cancelAtEnd", e) => ~Firm(provider', mishaps', e)
                        /\ Asks(h.todo[1], "cancelNow", e) => Dead(provider', e)
                        /\ Cancelling(h.todo[1], e) => Dead(provider', e) \/ <<"slipped", e>> \in mishaps'
    BY <1>a, <1>i
  <2>3. Sound(h, rows', provider', mishaps')  BY <1>k
  <2> HIDE DEF h
  <2> QED  BY <1>a, <2>1, <2>2, <2>3, TailIsSound DEF k
<1>m. k.msg \in {h.msg, NoMail}
  <2>1. Tail(h.todo) \in Seq(Effects)  BY <1>a, TailFacts
  <2> QED  BY <1>a, <2>1, AfterFacts DEF k
<1>n. /\ \A m \in Mail : \A e : Adopts(h, m, e) => Adopts(k, m, e)
      /\ \A m \in Mail : \A r : (Closes(h, m, r) /\ ~Clears(x, r)) => Closes(k, m, r)
  <2>1. \A e : ~Makes(h.todo[1], e)  BY <1>a, <1>i
  <2> QED  BY <1>a, <2>1, TailKeepsAim DEF k
<1>1. Types'
  <2>1. job' \in [Actors -> Handlers]  BY <1>0, <1>a, <1>l DEF Types
  <2> QED  BY <1>0, <1>n1, <1>h, <2>1 DEF Types
<1>2. RowsAreUnique'  BY <1>0, <1>n1, <1>f DEF RowsAreUnique
<1>3. EndedIsCleared'
  <2> SUFFICES ASSUME NEW r \in 1..Len(rows), rows'[r].ext # NoSub, rows'[r].status \in {"EXPIRED", "DELETED"}
               PROVE  FALSE
    BY <1>b DEF EndedIsCleared
  <2>1. rows[r].ext # NoSub /\ rows[r].status \notin {"EXPIRED", "DELETED"}  BY <1>0, <1>f DEF EndedIsCleared
  <2>2. ~Clears(x, r)  BY <1>f
  <2> QED  BY <1>a, <1>b, <2>1, <2>2 DEF Sane, RowUpdated, Clears
<1>4. \A b \in Actors : Kept(b)'  BY <1>0, <1>g, <1>h, <1>m DEF Kept
<1>5. ASSUME NEW m \in mail'
      PROVE  SaysSo(m)'
  <2>1. m \in mail /\ SaysSo(m) /\ m.sub \in Subs  BY <1>0, <1>h DEF Mail
  <2>2. m.status = "ending" => (<<"withdrawn", m.sub>> \in mishaps => <<"withdrawn", m.sub>> \in mishaps')
    BY <1>c, <1>d, <2>1
  <2> QED  BY <1>h, <2>1, <2>2 DEF SaysSo, Withdrawn
<1>6. DedupeIsSafe'  BY <1>0, <1>h DEF DedupeIsSafe, SaidOnce
<1>7. \A e \in Subs : Unborn(e)'
  BY <1>0, <1>n1, <1>f, <1>h, SubsAssumption DEF Unborn, HasRow
<1>8. \A b \in Actors : Sound(job[b], rows, provider, mishaps)'  BY <1>g, <1>k, <1>l
<1>9. ASSUME NEW r \in 1..Len(rows')
      PROVE  RowStands(r)'
  <2>0. r \in 1..Len(rows) /\ RowStands(r)  BY <1>0, <1>b
  <2> SUFFICES ASSUME rows'[r].ext # NoSub, Firm(provider', mishaps', rows'[r].ext)
               PROVE  rows'[r].status # "CANCELLED" /\ rows'[r].change.to # 0
    BY DEF RowStands
  <2> DEFINE e == rows[r].ext
  <2>1. e = rows'[r].ext /\ e \in Subs  BY <1>e, <1>f, <2>0
  <2>2. CASE <<"withdrawn", e>> \in Learnt(x)
    <3>1. /\ e = rows[x.row].ext /\ rows[x.row].status # "CANCELLED" /\ x.set = [change |-> Unscheduled]
      BY <1>d, <2>1, <2>2
    <3>2. r = x.row  BY <1>0, <1>b, <2>0, <2>1, <3>1 DEF RowsAreUnique
    <3>3. DOMAIN [change |-> Unscheduled] = {"change"} /\ [change |-> Unscheduled].change = Unscheduled  OBVIOUS
    <3>4. DOMAIN x.set = {"change"} /\ x.set.change = Unscheduled  BY <3>1, <3>3
    <3>7. Unscheduled.to # 0  BY StatesFacts
    <3>5. ~x.skip  BY <1>b, <3>4, WriteFacts
    <3>6. CASE /\ rows'[x.row].status = IF "status" \in DOMAIN x.set THEN x.set.status ELSE rows[x.row].status
               /\ rows'[x.row].change = IF "change" \in DOMAIN x.set THEN x.set.change ELSE rows[x.row].change
      BY <3>1, <3>2, <3>4, <3>6, <3>7
    <3> QED  BY <1>b, <3>5, <3>6 DEF RowUpdated
  <2>3. CASE <<"withdrawn", e>> \notin Learnt(x)
    <3>1. Firm(provider, mishaps, e)  BY <1>c, <1>h, <2>1, <2>3 DEF Firm
    <3>2. rows[r].status # "CANCELLED" /\ rows[r].change.to # 0  BY <2>0, <2>1, <3>1 DEF RowStands
    <3>3. ~Dooms(x, r)
      <4>1. Careful(h, rows, provider, mishaps)  BY <1>0 DEF Sound
      <4> QED  BY <1>a, <1>i, <2>0, <2>1, <3>1, <4>1 DEF Careful
    <3>4. ~Cancels(x, r)
      <4>1. Told(h, rows, provider)  BY <1>0 DEF Sound
      <4>2. ASSUME Cancels(x, r)
            PROVE  h.msg # NoMail /\ h.msg.sub = e /\ h.msg.status \in {"ending", "dead"}
        BY <1>a, <1>i, <2>0, <2>1, <3>1, <4>1, <4>2 DEF Told, Dead, Firm
      <4>3. h.msg # NoMail => h.msg \in mail /\ SaysSo(h.msg)  BY <1>0 DEF Kept
      <4> QED  BY <3>1, <4>2, <4>3 DEF SaysSo, Firm, Withdrawn
        <3>6. CASE r # x.row  BY <1>b, <2>0, <3>2, <3>6
    <3>7. CASE r = x.row
      <4>1. CASE rows' = rows  BY <3>2, <4>1
      <4>2. CASE /\ rows'[x.row].ext = IF "ext" \in DOMAIN x.set THEN NoSub ELSE rows[x.row].ext
                 /\ rows'[x.row].status = IF "status" \in DOMAIN x.set THEN x.set.status ELSE rows[x.row].status
                 /\ rows'[x.row].change = IF "change" \in DOMAIN x.set THEN x.set.change ELSE rows[x.row].change
        BY <1>a, <2>1, <3>2, <3>3, <3>4, <3>7, <4>2 DEF Dooms, Cancels
      <4> QED  BY <1>b, <4>1, <4>2 DEF RowUpdated
    <3> QED  BY <3>6, <3>7
  <2> QED  BY <2>2, <2>3
<1>10. ASSUME NEW r \in 1..Len(rows')
       PROVE  EndIsNews(r)'
  <2>0. r \in 1..Len(rows) /\ EndIsNews(r)  BY <1>0, <1>b
  <2> DEFINE e == rows[r].ext
  <2> SUFFICES ASSUME rows'[r].ext # NoSub, Dead(provider, e), <<"overtaken", e>> \notin mishaps', rows'[r].ext = e
               PROVE  \E m \in mail : Final(m, e) /\ \A b \in Actors : Closes(job'[b], m, r)
    BY <1>f, <1>h, <2>0 DEF EndIsNews, Final
  <2>1. e # NoSub /\ e \in Subs /\ <<"overtaken", e>> \notin mishaps  BY <1>b, <1>e, <2>0
  <2>2. PICK m \in mail : Final(m, e) /\ \A b \in Actors : Closes(job[b], m, r)  BY <2>0, <2>1 DEF EndIsNews
  <2>3. CASE ~Clears(x, r)
    <3>1. m \in Mail  BY <1>h
    <3>2. \A b \in Actors : Closes(job'[b], m, r)  BY <1>g, <1>n, <2>2, <2>3, <3>1
    <3> QED  BY <2>2, <3>2
  <2>4. CASE Clears(x, r)  BY <1>f, <2>0, <2>4
  <2> QED  BY <2>3, <2>4
<1>11. ASSUME NEW e \in Subs
       PROVE  Covered(e)'
  <2> SUFFICES ASSUME Paying(e), ~HasRow(e)', ~Excused(mishaps', e)
               PROVE  \/ \E b \in Actors : Leaving(job'[b], e)
                      \/ \E m \in mail : Welcome(m, e) /\ \A b \in Actors : Adopts(job'[b], m, e)
    BY <1>h DEF Covered, Paying
  <2>1. CASE HasRow(e)
    <3>1. PICK r \in 1..Len(rows) : rows[r].ext = e  BY <2>1 DEF HasRow
    <3>2. rows'[r].ext # e  BY <1>b, <3>1 DEF HasRow
    <3>3. Clears(x, r) /\ e # NoSub  BY <1>e, <1>f, <3>1, <3>2, SubsAssumption
    <3>4. Firm(provider, mishaps, e)
      <4>1. <<"withdrawn", e>> \notin mishaps'  BY DEF Excused
      <4>2. <<"withdrawn", e>> \notin Learnt(x)
        <5>1. <<"withdrawn", e>> \in Learnt(x) => x.set = [change |-> Unscheduled]  BY <1>d
        <5>2. DOMAIN [change |-> Unscheduled] = {"change"}  OBVIOUS
        <5> QED  BY <3>3, <5>1, <5>2 DEF Clears
      <4> QED  BY <1>c, <4>1, <4>2 DEF Firm, Paying
    <3>5. 1 < Len(h.todo) /\ Cancelling(h.todo[2], e)
      <4>1. Careful(h, rows, provider, mishaps)  BY <1>0 DEF Sound
      <4> QED  BY <1>a, <3>1, <3>3, <3>4, <4>1 DEF Careful
    <3>6. Tail(h.todo) \in Seq(Effects) /\ Len(Tail(h.todo)) = Len(h.todo) - 1 /\ Tail(h.todo)[1] = h.todo[2]
      BY <1>a, <3>5, TailFacts
    <3>7. Tail(h.todo) # <<>>
      <4>1. Len(Tail(h.todo)) # 0  BY <1>a, <3>5, <3>6
      <4> QED  BY <3>6, <4>1, EmptySeq
    <3>8. k.todo = Tail(h.todo)  BY <1>a, <3>6, AfterFacts DEF k
    <3>9. Leaving(k, e)  BY <3>5, <3>6, <3>7, <3>8 DEF Leaving
    <3> QED  BY <1>g, <3>9
  <2>2. CASE ~HasRow(e)
    <3>1. ~Excused(mishaps, e)
      <4>1. <<"withdrawn", e>> \notin Learnt(x)  BY <1>b, <1>d, <2>2 DEF HasRow
      <4> QED  BY <1>b, <1>c, <4>1 DEF Excused
    <3>2. CASE \E b \in Actors : Leaving(job[b], e)
      <4>1. ~Leaving(h, e)  BY <1>a, <1>i DEF Leaving
      <4> QED  BY <1>g, <3>2, <4>1
    <3>3. ASSUME NEW m \in mail, Welcome(m, e), \A b \in Actors : Adopts(job[b], m, e)
          PROVE  \A b \in Actors : Adopts(job'[b], m, e)
      <4>1. m \in Mail  BY <1>h
      <4> QED  BY <1>g, <1>n, <3>3, <4>1
    <3> QED  BY <1>0, <2>2, <3>1, <3>2, <3>3 DEF Covered
  <2> QED  BY <2>1, <2>2
<1>12. ErasedIsPurged'  BY <1>0, <1>b, <1>h DEF ErasedIsPurged
<1> QED
  BY <1>1, <1>2, <1>3, <1>4, <1>5, <1>6, <1>7, <1>8, <1>9, <1>10, <1>11, <1>12 DEF BillingInv

LEMMA WriteRowKeeps ==
  ASSUME BillingInv, NEW a \in Actors, WriteRow(a)
  PROVE  BillingInv'
<1> DEFINE x == Next1(a)
<1>1. /\ Types /\ Doing(a, "write") /\ x = job[a].todo[1] /\ x.do = "write" /\ (Throw(a) => job' = [job EXCEPT ![a] = Idle])
      /\ UNCHANGED <<gateway, account, pending, provider, mail, log, now, events>>
  BY NextFacts DEF WriteRow
<1>2. CASE x.row = 0 \/ rows[x.row].status = "DELETED"
  <2>1. Throw(a) /\ UNCHANGED <<rows, mishaps>>  BY <1>2 DEF WriteRow
  <2>2. events' \in Nat  BY <1>1 DEF Types
  <2>3. Slip(a) = {}  BY <1>1 DEF Slip, Doing
  <2> QED  BY <1>1, <2>1, <2>2, <2>3, EndsKeeps
<1>3. CASE ~(x.row = 0 \/ rows[x.row].status = "DELETED")
  <2>1. /\ GoOn(a) /\ mishaps' = mishaps \ Learnt(x)
        /\ rows' = [rows EXCEPT ![x.row] = IF x.skip /\ @.limits # -1 THEN @ ELSE Updated(@, x.set)]
    BY <1>3 DEF WriteRow
  <2>2. x.row # 0 /\ rows[x.row].status # "DELETED"  BY <1>3
  <2> HIDE DEF x
  <2>3. Updates(a, x)  BY <1>1, <2>1, <2>2 DEF Updates
  <2> QED  BY <2>3, UpdateKeeps
<1> QED  BY <1>2, <1>3

LEMMA ResolvedHandler ==
  ASSUME NEW h \in Handlers, h.todo # <<>>, NEW r \in Nat, r # 0, NEW k, k = After(h, Resolve(r, Tail(h.todo))),
         NEW k1, k1 = After(h, Tail(h.todo))
  PROVE  /\ k \in Handlers /\ k.msg \in {h.msg, NoMail}
         /\ \A m \in Mail : \A e : Adopts(k1, m, e) => Adopts(k, m, e)
         /\ \A m \in Mail : \A q : (q # 0 /\ Closes(k1, m, q)) => Closes(k, m, q)
         /\ \A db, pv, mis : (Len(db) \in Nat /\ r \in 1..Len(db) /\ Sound(k1, db, pv, mis)) => Sound(k, db, pv, mis)
<1> DEFINE t == Tail(h.todo)
           s == Resolve(r, t)
<1>1. t \in Seq(Effects)  BY TailFacts DEF Handlers
<1> HIDE DEF t
<1>2. /\ s \in Seq(Effects) /\ Len(s) = Len(t)
      /\ \A i \in 1..Len(t) : LET x == t[i]  y == s[i] IN
           /\ y \in Effects /\ y.do = x.do
           /\ x.do # "write" => y = x
           /\ x.do = "write" => y.set = x.set /\ (x.row # 0 => y.row = x.row) /\
                                (x.row = 0 => y.row = r /\ DOMAIN x.set \subseteq {"limits", "end"})
  BY <1>1, ResolveFacts
<1> HIDE DEF s
<1>3. k = After(h, s) /\ k1 = After(h, t)  BY DEF s, t
<1>4. CASE t = <<>>
  <2>1. s = <<>>  BY <1>1, <1>2, <1>4, EmptySeq
  <2>2. k = Idle /\ k1 = Idle  BY <1>3, <1>4, <2>1 DEF After
  <2> QED  BY <2>2, IdleFacts
<1>5. CASE t # <<>>
  <2>1. s # <<>>
    <3>1. Len(t) # 0  BY <1>1, <1>5, EmptySeq
    <3> QED  BY <1>2, <3>1, EmptySeq
  <2>2. k \in Handlers /\ k.todo = s /\ k.msg = h.msg /\ k1 \in Handlers /\ k1.todo = t /\ k1.msg = h.msg
    BY <1>1, <1>2, <1>3, <1>5, <2>1, AfterFacts
  <2>3. ASSUME NEW m \in Mail, NEW e, Adopts(k1, m, e)
        PROVE  Adopts(k, m, e)
    BY <1>2, <2>2, <2>3 DEF Adopts, Makes
  <2>4. ASSUME NEW m \in Mail, NEW q, q # 0, Closes(k1, m, q)
        PROVE  Closes(k, m, q)
    BY <1>2, <2>2, <2>4 DEF Closes, Clears
  <2>5. ASSUME NEW db, NEW pv, NEW mis, Len(db) \in Nat, r \in 1..Len(db), Sound(k1, db, pv, mis)
        PROVE  Sound(k, db, pv, mis)
    <3>1. k.todo = Resolve(r, k1.todo) /\ k.msg = k1.msg /\ k1.todo # <<>>  BY <2>2, <1>5 DEF s
    <3> QED  BY <2>2, <2>5, <3>1, ResolveIsSound
  <2> QED  BY <2>2, <2>3, <2>4, <2>5
<1> QED  BY <1>4, <1>5

\* A row is inserted.
Inserts(a, x) ==
  /\ Doing(a, "create") /\ x = job[a].todo[1]
  /\ x.set.ext = NoSub \/ RowOf(x.set.ext) = 0
  /\ rows' = Append(rows, x.set)
  /\ Continue(a, Resolve(Len(rows) + 1, Tail(Todo(a))))
  /\ mishaps' = mishaps \union {<<"overtaken", e>> : e \in {e \in Subs : e = x.set.ext /\ provider[e].state = "dead"}}
  /\ UNCHANGED <<gateway, account, pending, provider, mail, log, now, events>>

LEMMA RowOfNone ==
  ASSUME Types, NEW e, RowOf(e) = 0
  PROVE  ~HasRow(e)
<1>a. Len(rows) \in Nat /\ DOMAIN rows = 1..Len(rows)  BY RowFacts
<1> DEFINE found == {r \in 1..Len(rows) : rows[r].ext = e}
<1>1. RowOf(e) = IF found = {} THEN 0 ELSE Max(found)  BY <1>a DEF RowOf
<1>2. ASSUME NEW r \in 1..Len(rows), rows[r].ext = e
      PROVE  FALSE
  <2>1. found # {} /\ found \in SUBSET (1..Len(rows))  BY <1>2
  <2>2. Max(found) \in found  BY <1>a, <2>1, MaxIsIn
  <2> QED  BY <1>1, <2>1, <2>2
<1> QED  BY <1>2 DEF HasRow

LEMMA InsertKeeps ==
  ASSUME BillingInv, NEW a \in Actors, NEW x, Inserts(a, x)
  PROVE  BillingInv'
<1> DEFINE h  == job[a]
           n  == Len(rows)
           k1 == After(h, Tail(h.todo))
           k  == After(h, Resolve(n + 1, Tail(h.todo)))
           e0 == x.set.ext
<1>0. /\ Types /\ RowsAreUnique /\ EndedIsCleared /\ (\A b \in Actors : Kept(b))
      /\ (\A m \in mail : SaysSo(m))
      /\ DedupeIsSafe /\ (\A e \in Subs : Unborn(e))
      /\ (\A b \in Actors : Sound(job[b], rows, provider, mishaps))
      /\ (\A r \in 1..Len(rows) : RowStands(r) /\ EndIsNews(r))
      /\ (\A e \in Subs : Covered(e))
      /\ ErasedIsPurged
  BY DEF BillingInv
<1>a. /\ h \in Handlers /\ h.todo \in Seq(Effects) /\ h.todo # <<>> /\ x \in Effects /\ x.do = "create"
      /\ 1 \in 1..Len(h.todo) /\ Len(h.todo) \in Nat /\ x = h.todo[1]
  BY NextFacts DEF Inserts
<1>b. job' = [job EXCEPT ![a] = k]  BY DEF Inserts, Continue, After, Todo
<1>c. /\ x.set \in Row /\ x.set.status = "ACTIVE" /\ x.set.change = Unscheduled /\ e0 \in Subs \union {NoSub}
  BY <1>a, EffectKinds DEF Creates, Row
<1>d. /\ n \in Nat /\ \A r \in 1..n : rows[r].ext \in Subs \union {NoSub}
      /\ rows \in Seq(Row)
  BY <1>0, RowFacts DEF Types
<1>e. /\ rows' \in Seq(Row) /\ Len(rows') = n + 1 /\ rows'[n + 1] = x.set
      /\ \A r \in 1..n : rows'[r] = rows[r]
  BY <1>c, <1>d DEF Inserts
<1>f. e0 # NoSub => \A r \in 1..n : rows[r].ext # e0
  BY <1>0, RowOfNone DEF Inserts, HasRow
<1>g. job \in [Actors -> Handlers] /\ \A b \in Actors : job'[b] = IF b = a THEN k ELSE job[b]
  BY <1>0, <1>b DEF Types
<1>h. UNCHANGED <<gateway, account, pending, provider, mail, log, now, events>> /\ mail \subseteq Mail
  BY <1>0 DEF Types, Inserts
<1>i. \A op, e : ~Asks(x, op, e) /\ ~Cancelling(x, e) /\ ~Clears(x, e)
  BY <1>a DEF Asks, Cancelling, Clears
<1>j. /\ mishaps \subseteq mishaps'
      /\ \A e \in Subs : \A kind \in {"slipped", "withdrawn", "erased"} : <<kind, e>> \in mishaps' => <<kind, e>> \in mishaps
      /\ (e0 \in Subs /\ provider[e0].state = "dead") => <<"overtaken", e0>> \in mishaps'
  BY DEF Inserts
<1>k. k \in Handlers /\ k.msg \in {h.msg, NoMail}
      /\ (\A m \in Mail : \A e : Adopts(k1, m, e) => Adopts(k, m, e))
      /\ (\A m \in Mail : \A q : (q # 0 /\ Closes(k1, m, q)) => Closes(k, m, q))
      /\ (Sound(k1, rows', provider', mishaps') => Sound(k, rows', provider', mishaps'))
  <2>1. n + 1 \in Nat /\ n + 1 # 0 /\ Len(rows') \in Nat /\ n + 1 \in 1..Len(rows')  BY <1>d, <1>e
  <2>2. k = After(h, Resolve(n + 1, Tail(h.todo))) /\ k1 = After(h, Tail(h.todo))  OBVIOUS
  <2>3. h \in Handlers /\ h.todo # <<>>  BY <1>a
  <2> HIDE DEF k, k1, h
  <2> DEFINE r == n + 1
  <2>4. r \in Nat /\ r # 0 /\ k = After(h, Resolve(r, Tail(h.todo))) /\ r \in 1..Len(rows') /\ Len(rows') \in Nat
    BY <2>1, <2>2
  <2> HIDE DEF r
  <2>5. k \in Handlers /\ k.msg \in {h.msg, NoMail}
        /\ (\A m \in Mail : \A e : Adopts(k1, m, e) => Adopts(k, m, e))
        /\ (\A m \in Mail : \A q : (q # 0 /\ Closes(k1, m, q)) => Closes(k, m, q))
        /\ \A db, pv, mis : (Len(db) \in Nat /\ r \in 1..Len(db) /\ Sound(k1, db, pv, mis)) => Sound(k, db, pv, mis)
    BY <2>2, <2>3, <2>4, ResolvedHandler
  <2> QED  BY <2>4, <2>5
<1>l. (\A m \in Mail : \A e : (Adopts(h, m, e) /\ ~Makes(x, e)) => Adopts(k1, m, e))
      /\ (\A m \in Mail : \A r : Closes(h, m, r) => Closes(k1, m, r))
  <2> HIDE DEF h
  <2> QED  BY <1>a, <1>i, TailKeepsAim
<1> HIDE DEF k, k1
<1>m. GoesOn(rows, provider, mishaps, rows', provider', mishaps')
  <2>1. Len(rows') \in Nat /\ Len(rows) <= Len(rows')  BY <1>d, <1>e
  <2>2. \A r \in 1..Len(rows) : rows'[r].ext \in {rows[r].ext, NoSub}  BY <1>e
  <2>3. \A e \in Subs : <<"slipped", e>> \in mishaps => <<"slipped", e>> \in mishaps'  BY <1>j
  <2>4. provider' = provider  BY <1>h
  <2> QED  BY <1>d, <2>1, <2>2, <2>3, <2>4 DEF GoesOn, Dead
<1>n. \A r \in 1..Len(rows') : rows'[r].ext \in Subs \union {NoSub}
  <2> SUFFICES ASSUME NEW r \in 1..Len(rows') PROVE rows'[r].ext \in Subs \union {NoSub}  OBVIOUS
  <2>1. r \in 1..n \/ r = n + 1  BY <1>d, <1>e
  <2> QED  BY <1>c, <1>d, <1>e, <2>1
<1>o. \A e \in Subs : Firm(provider', mishaps', e) <=> Firm(provider, mishaps, e)
  BY <1>h, <1>j DEF Firm
<1>p. ASSUME NEW b \in Actors
      PROVE  Sound(job[b], rows', provider', mishaps')
  <2> DEFINE g == job[b]
  <2>1. g \in Handlers /\ Sound(g, rows, provider, mishaps)  BY <1>0, <1>g
  <2> HIDE DEF g
  <2>2. FirmWasFirm(g, rows, provider, mishaps, rows', provider', mishaps')
    BY <1>d, <1>e, <1>o DEF FirmWasFirm
  <2>3. Sound(g, rows', provider', mishaps')  BY <1>m, <1>n, <2>1, <2>2, SoundKept
  <2> QED  BY <2>3 DEF g
<1>q. Sound(k, rows', provider', mishaps')
  <2>1. Len(rows') \in Nat  BY <1>d, <1>e
  <2>2. \A e \in Subs : /\ Asks(h.todo[1], "cancelAtEnd", e) => ~Firm(provider', mishaps', e)
                        /\ Asks(h.todo[1], "cancelNow", e) => Dead(provider', e)
                        /\ Cancelling(h.todo[1], e) => Dead(provider', e) \/ <<"slipped", e>> \in mishaps'
    BY <1>a, <1>i
  <2>3. Sound(h, rows', provider', mishaps')  BY <1>p
  <2> HIDE DEF h
  <2>4. Sound(k1, rows', provider', mishaps')  BY <1>a, <1>n, <2>1, <2>2, <2>3, TailIsSound DEF k1
  <2> QED  BY <1>k, <2>4
<1>1. Types'
  <2>1. job' \in [Actors -> Handlers]  BY <1>0, <1>b, <1>k DEF Types
  <2> QED  BY <1>0, <1>e, <1>h, <2>1 DEF Types
<1>2. RowsAreUnique'
  <2> SUFFICES ASSUME NEW q \in 1..n + 1, NEW r \in 1..n + 1, rows'[q].ext # NoSub, rows'[q].ext = rows'[r].ext
               PROVE  q = r
    BY <1>e DEF RowsAreUnique
  <2>1. (q \in 1..n \/ q = n + 1) /\ (r \in 1..n \/ r = n + 1)  BY <1>d
  <2> QED  BY <1>0, <1>e, <1>f, <2>1 DEF RowsAreUnique
<1>3. EndedIsCleared'
  <2> SUFFICES ASSUME NEW r \in 1..n + 1, rows'[r].ext # NoSub
               PROVE  rows'[r].status \notin {"EXPIRED", "DELETED"}
    BY <1>e DEF EndedIsCleared
  <2>1. r \in 1..n \/ r = n + 1  BY <1>d
  <2> QED  BY <1>0, <1>c, <1>e, <2>1 DEF EndedIsCleared
<1>4. \A b \in Actors : Kept(b)'  BY <1>0, <1>g, <1>h, <1>k DEF Kept
<1>5. \A m \in mail' : SaysSo(m)'
  <2>1. \A m \in mail : m.sub \in Subs  BY <1>h DEF Mail
  <2> QED  BY <1>0, <1>h, <1>j, <2>1 DEF SaysSo, Withdrawn
<1>6. DedupeIsSafe'  BY <1>0, <1>h DEF DedupeIsSafe, SaidOnce
<1>7. ASSUME NEW e \in Subs
      PROVE  Unborn(e)'
  <2> SUFFICES ASSUME provider[e].state \in {"none", "open"}, NEW r \in 1..n + 1, rows'[r].ext = e
               PROVE  FALSE
    BY <1>e, <1>h DEF Unborn, HasRow
  <2>1. r \in 1..n \/ r = n + 1  BY <1>d
  <2>2. CASE r \in 1..n  BY <1>0, <1>e, <2>2 DEF Unborn, HasRow
  <2>3. CASE r = n + 1
    <3>1. Makes(h.todo[1], e)  BY <1>a, <1>e, <2>3 DEF Makes
    <3>2. OfBorn(h, provider)  BY <1>0 DEF Sound
    <3> QED  BY <1>a, <3>1, <3>2 DEF OfBorn
  <2> QED  BY <2>1, <2>2, <2>3
<1>8. \A b \in Actors : Sound(job[b], rows, provider, mishaps)'  BY <1>g, <1>p, <1>q
<1>9. ASSUME NEW r \in 1..Len(rows')
      PROVE  RowStands(r)' /\ EndIsNews(r)'
  <2>0. r \in 1..n \/ r = n + 1  BY <1>d, <1>e
  <2>1. CASE r = n + 1
    <3>1. RowStands(r)'  BY <1>c, <1>e, <2>1, StatesFacts DEF RowStands
    <3>2. EndIsNews(r)'  BY <1>c, <1>e, <1>h, <1>j, <2>1 DEF EndIsNews, Dead
    <3> QED  BY <3>1, <3>2
  <2>2. CASE r \in 1..n
    <3>0. RowStands(r) /\ EndIsNews(r) /\ rows'[r] = rows[r] /\ r # 0  BY <1>0, <1>e, <2>2
    <3>1. RowStands(r)'
      <4>1. rows[r].ext # NoSub => rows[r].ext \in Subs  BY <1>d, <2>2
      <4> QED  BY <1>o, <3>0, <4>1 DEF RowStands
    <3>2. EndIsNews(r)'
      <4> DEFINE e == rows[r].ext
      <4> SUFFICES ASSUME e # NoSub, Dead(provider, e), NEW m \in mail, Final(m, e),
                          \A b \in Actors : Closes(job[b], m, r)
                   PROVE  \A b \in Actors : Closes(job'[b], m, r)
        BY <1>h, <1>j, <3>0 DEF EndIsNews, Final, Dead
      <4>1. m \in Mail  BY <1>h
      <4> QED  BY <1>g, <1>k, <1>l, <3>0, <4>1
    <3> QED  BY <3>1, <3>2
  <2> QED  BY <2>0, <2>1, <2>2
<1>10. ASSUME NEW e \in Subs
       PROVE  Covered(e)'
  <2> SUFFICES ASSUME Paying(e), ~HasRow(e)', ~Excused(mishaps', e)
               PROVE  \/ \E b \in Actors : Leaving(job'[b], e)
                      \/ \E m \in mail : Welcome(m, e) /\ \A b \in Actors : Adopts(job'[b], m, e)
    BY <1>h DEF Covered, Paying
  <2>0. n + 1 \in 1..Len(rows') /\ \A r \in 1..n : r \in 1..Len(rows')  BY <1>d, <1>e
  <2>1. ~HasRow(e) /\ ~Makes(x, e)  BY <1>e, <2>0 DEF HasRow, Makes
  <2>2. ~Excused(mishaps, e)  BY <1>j DEF Excused
  <2>3. CASE \E b \in Actors : Leaving(job[b], e)
    <3>1. ~Leaving(h, e)  BY <1>a, <1>i DEF Leaving
    <3> QED  BY <1>g, <2>3, <3>1
  <2>4. ASSUME NEW m \in mail, Welcome(m, e), \A b \in Actors : Adopts(job[b], m, e)
        PROVE  \A b \in Actors : Adopts(job'[b], m, e)
    <3>1. m \in Mail  BY <1>h
    <3> QED  BY <1>g, <1>k, <1>l, <2>1, <2>4, <3>1
  <2> QED  BY <1>0, <2>1, <2>2, <2>3, <2>4 DEF Covered
<1>11. ErasedIsPurged'  BY <1>0, <1>h, <1>j DEF ErasedIsPurged
<1> QED
  BY <1>1, <1>2, <1>3, <1>4, <1>5, <1>6, <1>7, <1>8, <1>9, <1>10, <1>11 DEF BillingInv

LEMMA CreateRowKeeps ==
  ASSUME BillingInv, NEW a \in Actors, CreateRow(a)
  PROVE  BillingInv'
<1> DEFINE x == Next1(a)
<1>1. /\ Types /\ Doing(a, "create") /\ x = job[a].todo[1] /\ x.do = "create"
      /\ (Throw(a) => job' = [job EXCEPT ![a] = Idle])
      /\ UNCHANGED <<gateway, account, pending, provider, mail, log, now, events>>
  BY NextFacts DEF CreateRow
<1>2. CASE x.set.ext # NoSub /\ RowOf(x.set.ext) # 0
  <2>1. Throw(a) /\ UNCHANGED <<rows, mishaps>>  BY <1>2 DEF CreateRow
  <2>2. events' \in Nat  BY <1>1 DEF Types
  <2>3. Slip(a) = {}  BY <1>1 DEF Slip, Doing
  <2> QED  BY <1>1, <2>1, <2>2, <2>3, EndsKeeps
<1>3. CASE ~(x.set.ext # NoSub /\ RowOf(x.set.ext) # 0)
  <2>1. Inserts(a, x)  BY <1>1, <1>3 DEF CreateRow, Inserts
  <2> HIDE DEF x
  <2> QED  BY <2>1, InsertKeeps
<1> QED  BY <1>2, <1>3

LEMMA RowOfIs ==
  ASSUME Types, NEW e, NEW r \in 1..Len(rows), rows[r].ext = e
  PROVE  RowOf(e) \in 1..Len(rows) /\ rows[RowOf(e)].ext = e /\ RowOf(e) >= r /\ RowOf(e) # 0
<1>a. Len(rows) \in Nat /\ DOMAIN rows = 1..Len(rows)  BY RowFacts
<1> DEFINE found == {q \in 1..Len(rows) : rows[q].ext = e}
<1>1. RowOf(e) = IF found = {} THEN 0 ELSE Max(found)  BY <1>a DEF RowOf
<1>2. r \in found /\ found \in SUBSET (1..Len(rows)) /\ found # {}  OBVIOUS
<1>3. Max(found) \in found /\ Max(found) >= r  BY <1>a, <1>2, MaxIsIn
<1> QED  BY <1>1, <1>2, <1>3

LEMMA FreeRowFacts ==
  ASSUME NEW n \in Nat, NEW st \in Statuses
  PROVE  /\ FreeRow(n) \in Row /\ DOMAIN FreeRow(n) = Columns
         /\ Updated(FreeRow(n), [status |-> st]) \in Row /\ Updated(FreeRow(n), [status |-> st]).ext = NoSub
<1>1. FreeRow(n) \in Row /\ DOMAIN FreeRow(n) = Columns
  BY StatesFacts DEF FreeRow, Row, Columns, Statuses
<1>2. Updated(FreeRow(n), [status |-> st]) = [FreeRow(n) EXCEPT !.status = st]
  BY DEF Updated, FreeRow
<1>3. [FreeRow(n) EXCEPT !.status = st] \in Row /\ [FreeRow(n) EXCEPT !.status = st].ext = NoSub
  BY StatesFacts DEF FreeRow, Row, Statuses
<1> QED  BY <1>1, <1>2, <1>3

Erases(a) ==
  /\ Doing(a, "erase") /\ GoOn(a)
  /\ pending' = {} /\ account' = "purged"
  /\ rows' = [r \in DOMAIN rows |-> Updated(FreeRow(0), [status |-> "DELETED"])]
  /\ mishaps' = mishaps \union {<<"erased", x>> : x \in {x \in Subs : RowOf(x) > Next1(a).known}}
  /\ UNCHANGED <<gateway, provider, mail, log, now, events>>

LEMMA EraseKeeps ==
  ASSUME BillingInv, NEW a \in Actors, Erases(a)
  PROVE  BillingInv'
<1> DEFINE h == job[a]
           x == h.todo[1]
<1>0. /\ Types /\ (\A b \in Actors : Kept(b))
      /\ (\A m \in mail : SaysSo(m))
      /\ DedupeIsSafe
      /\ (\A b \in Actors : Sound(job[b], rows, provider, mishaps))
      /\ (\A e \in Subs : Covered(e))
      /\ ErasedIsPurged
  BY DEF BillingInv
<1>a. /\ h \in Handlers /\ x \in Effects /\ x.do = "erase" /\ x = Next1(a)
      /\ Len(h.todo) = 1 /\ job' = [job EXCEPT ![a] = Idle]
  BY NextFacts, LastFacts DEF Erases
<1>b. /\ UNCHANGED <<gateway, provider, mail, log, now, events>> /\ mail \subseteq Mail /\ pending' = {}
      /\ account' = "purged"
  BY <1>0 DEF Types, Erases
<1>c. Len(rows) \in Nat /\ DOMAIN rows = 1..Len(rows) /\ \A r \in 1..Len(rows) : rows[r].ext \in Subs \union {NoSub}
  BY <1>0, RowFacts
<1>d. /\ rows' \in Seq(Row) /\ Len(rows') = Len(rows)
      /\ \A r \in 1..Len(rows') : rows'[r].ext = NoSub
  <2> DEFINE gone == Updated(FreeRow(0), [status |-> "DELETED"])
  <2>1. gone \in Row /\ gone.ext = NoSub  BY FreeRowFacts DEF Statuses
  <2>2. rows' = [r \in 1..Len(rows) |-> gone]  BY <1>c DEF Erases
  <2> HIDE DEF gone
  <2>3. rows' \in Seq(Row) /\ Len(rows') = Len(rows)  BY <1>c, <2>1, <2>2
  <2> QED  BY <2>1, <2>2, <2>3
<1>e. job \in [Actors -> Handlers] /\ \A b \in Actors : job'[b] = IF b = a THEN Idle ELSE job[b]
  BY <1>0, <1>a DEF Types
<1>f. mishaps \subseteq mishaps'
      /\ (\A e \in Subs : <<"withdrawn", e>> \in mishaps' => <<"withdrawn", e>> \in mishaps)
      /\ \A e \in Subs : RowOf(e) > x.known => <<"erased", e>> \in mishaps'
  BY <1>a DEF Erases
<1>1. Types'
  <2>1. job' \in [Actors -> Handlers]  BY <1>0, <1>a, IdleFacts DEF Types
  <2>2. rows' \in Seq(Row)  BY <1>d
  <2> QED  BY <1>0, <1>b, <2>1, <2>2 DEF Types
<1>2. RowsAreUnique' /\ EndedIsCleared'  BY <1>d DEF RowsAreUnique, EndedIsCleared
<1>3. \A b \in Actors : Kept(b)'  BY <1>0, <1>b, <1>e, IdleFacts DEF Kept
<1>4. \A m \in mail' : SaysSo(m)'
  <2>1. \A m \in mail : m.sub \in Subs  BY <1>b DEF Mail
  <2> QED  BY <1>0, <1>b, <1>f, <2>1 DEF SaysSo, Withdrawn
<1>5. DedupeIsSafe'  BY <1>0, <1>b DEF DedupeIsSafe, SaidOnce
<1>6. \A e \in Subs : ~HasRow(e)'  BY <1>d, SubsAssumption DEF HasRow
<1>7. \A e \in Subs : Unborn(e)'  BY <1>6 DEF Unborn
<1>8. ASSUME NEW b \in Actors
      PROVE  Sound(job[b], rows, provider, mishaps)'
  <2> DEFINE g == job[b]
  <2>1. g \in Handlers /\ Sound(g, rows, provider, mishaps)  BY <1>0, <1>e
  <2> HIDE DEF g
  <2>2. FirmWasFirm(g, rows, provider, mishaps, rows', provider', mishaps')  BY <1>d DEF FirmWasFirm
  <2>3. GoesOn(rows, provider, mishaps, rows', provider', mishaps')
    <3>1. \A e \in Subs : <<"slipped", e>> \in mishaps => <<"slipped", e>> \in mishaps'  BY <1>f
    <3>2. provider' = provider  BY <1>b
    <3>3. \A r \in 1..Len(rows) : rows'[r].ext \in {rows[r].ext, NoSub}  BY <1>d
    <3>4. Len(rows') \in Nat /\ Len(rows) <= Len(rows')  BY <1>c, <1>d
    <3> QED  BY <1>c, <3>1, <3>2, <3>3, <3>4 DEF GoesOn, Dead
  <2>4. \A r \in 1..Len(rows') : rows'[r].ext \in Subs \union {NoSub}  BY <1>d
  <2>5. Sound(g, rows', provider', mishaps')  BY <2>1, <2>2, <2>3, <2>4, SoundKept
  <2> QED  BY <1>e, <2>5, IdleFacts DEF g
<1>9. \A r \in 1..Len(rows') : RowStands(r)' /\ EndIsNews(r)'  BY <1>d DEF RowStands, EndIsNews
<1>10. ASSUME NEW e \in Subs
       PROVE  Covered(e)'
  <2> SUFFICES ASSUME Paying(e), ~Excused(mishaps', e)
               PROVE  \/ \E b \in Actors : Leaving(job'[b], e)
                      \/ \E m \in mail : Welcome(m, e) /\ \A b \in Actors : Adopts(job'[b], m, e)
    BY <1>b DEF Covered, Paying
  <2>1. ~Excused(mishaps, e) /\ <<"slipped", e>> \notin mishaps  BY <1>f DEF Excused
  <2>2. ~HasRow(e)
    <3> SUFFICES ASSUME NEW r \in 1..Len(rows), rows[r].ext = e PROVE FALSE  BY DEF HasRow
    <3>1. x.known \in Nat /\ 1 \in 1..Len(h.todo)  BY <1>a, EffectKinds
    <3>2. e # NoSub  BY SubsAssumption
    <3>3. CASE r <= x.known
      <4>1. Purging(h, rows, provider, mishaps)  BY <1>0 DEF Sound
      <4>2. \/ <<"slipped", e>> \in mishaps \/ Dead(provider, e)
            \/ \E j \in 1..Len(h.todo) : Cancelling(h.todo[j], e)
        <5>1. r \in 1..x.known  BY <3>1, <3>3
        <5> QED  BY <1>a, <3>1, <3>2, <4>1, <5>1 DEF Purging
      <4>3. \A j \in 1..Len(h.todo) : ~Cancelling(h.todo[j], e)  BY <1>a DEF Cancelling
      <4> QED  BY <2>1, <4>2, <4>3 DEF Paying, Dead
    <3>4. CASE ~(r <= x.known)
      <4>1. RowOf(e) \in 1..Len(rows) /\ RowOf(e) >= r  BY <1>0, RowOfIs
      <4>2. RowOf(e) > x.known  BY <1>c, <3>1, <3>4, <4>1
      <4> QED  BY <1>f, <4>2 DEF Excused
    <3> QED  BY <3>3, <3>4
  <2>3. CASE \E b \in Actors : Leaving(job[b], e)
    <3>1. ~Leaving(h, e)  BY <1>a DEF Leaving, Cancelling
    <3> QED  BY <1>e, <2>3, <3>1
  <2>4. ASSUME NEW m \in mail, Welcome(m, e), \A b \in Actors : Adopts(job[b], m, e)
        PROVE  \A b \in Actors : Adopts(job'[b], m, e)
    <3>1. m \in Mail  BY <1>b
    <3> QED  BY <1>e, <2>4, <3>1, IdleFacts DEF Adopts
  <2> QED  BY <1>0, <2>1, <2>2, <2>3, <2>4 DEF Covered
<1>11. ErasedIsPurged'  BY <1>b DEF ErasedIsPurged
<1> QED
  BY <1>1, <1>2, <1>3, <1>4, <1>5, <1>7, <1>8, <1>9, <1>10, <1>11 DEF BillingInv

LEMMA BookkeepKeeps ==
  ASSUME BillingInv, NEW a \in Actors, Bookkeep(a)
  PROVE  BillingInv'
<1>1. CASE Doing(a, "settle") /\ pending' = pending \ {Next1(a).sub} /\ UNCHANGED <<rows, account, mishaps>>
  <2>1. pending' \subseteq pending \union {Next1(a).sub}  BY <1>1
  <2> QED  BY <1>1, <2>1, CheckoutsKeep DEF Bookkeep
<1>2. CASE Doing(a, "remember") /\ pending' = pending \union {Next1(a).sub} /\ UNCHANGED <<rows, account, mishaps>>
  <2>1. pending' \subseteq pending \union {Next1(a).sub}  BY <1>2
  <2> QED  BY <1>2, <2>1, CheckoutsKeep DEF Bookkeep
<1>3. CASE ~(Doing(a, "settle") \/ Doing(a, "remember"))
  <2>1. Erases(a)  BY <1>3 DEF Bookkeep, Erases
  <2> QED  BY <2>1, EraseKeeps
<1>4. (Doing(a, "settle") \/ Doing(a, "remember")) => ~Doing(a, "erase")  BY DEF Doing
<1>5. Doing(a, "settle") => ~Doing(a, "remember")  BY DEF Doing
<1> QED  BY <1>1, <1>2, <1>3, <1>4, <1>5 DEF Bookkeep

-------------------------------------------------------------------------------
(* A handler starts: its effects are put together of pieces, each sound by       *)
(* itself.                                                                       *)

LEMMA StartKeeps ==
  ASSUME BillingInv, NEW a \in Actors, NEW todo \in Seq(Effects), NEW m \in mail \union {NoMail},
         Start(a, todo, m), events' \in Nat, m # NoMail => \A b \in Actors : job[b].msg # m,
         Sound([todo |-> todo, msg |-> m], rows, provider, mishaps),
         \A e \in Subs : (m \in mail /\ Welcome(m, e)) => HasRow(e) \/ \E i \in 1..Len(todo) : Makes(todo[i], e),
         \A r \in 1..Len(rows) : (m \in mail /\ rows[r].ext # NoSub /\ Final(m, rows[r].ext)) =>
                                    \E i \in 1..Len(todo) : Clears(todo[i], r)
  PROVE  BillingInv'
<1> DEFINE k == [todo |-> todo, msg |-> m]
<1>0. /\ Types /\ RowsAreUnique /\ EndedIsCleared /\ (\A b \in Actors : Kept(b))
      /\ (\A n \in mail : SaysSo(n))
      /\ DedupeIsSafe /\ (\A e \in Subs : Unborn(e))
      /\ (\A b \in Actors : Sound(job[b], rows, provider, mishaps))
      /\ (\A r \in 1..Len(rows) : RowStands(r) /\ EndIsNews(r))
      /\ (\A e \in Subs : Covered(e))
      /\ ErasedIsPurged
  BY DEF BillingInv
<1>a. /\ UNCHANGED <<gateway, rows, account, pending, provider, mail, log, now, mishaps>> /\ mail \subseteq Mail
      /\ job[a] = Idle
  BY <1>0 DEF Types, Start
<1>b. job \in [Actors -> Handlers] /\ \A b \in Actors : job'[b] = IF b = a THEN k ELSE job[b]
  BY <1>0 DEF Types, Start
<1>c. k \in Handlers /\ k.todo = todo /\ k.msg = m  BY <1>a DEF Handlers
<1>d. Sound(k, rows, provider, mishaps)  OBVIOUS
<1> HIDE DEF k
<1>1. Types'
  <2>1. job' \in [Actors -> Handlers]  BY <1>b, <1>c DEF Start, k
  <2> QED  BY <1>0, <1>a, <2>1 DEF Types
<1>2. RowsAreUnique' /\ EndedIsCleared' /\ DedupeIsSafe' /\ ErasedIsPurged'
  BY <1>0, <1>a DEF RowsAreUnique, EndedIsCleared, DedupeIsSafe, SaidOnce, ErasedIsPurged
<1>3. \A b \in Actors : Kept(b)'
  <2> SUFFICES ASSUME NEW b \in Actors, job'[b].msg # NoMail
               PROVE  job'[b].msg \in mail /\ \A c \in Actors : job'[c].msg = job'[b].msg => b = c
    BY <1>a DEF Kept
  <2>1. CASE b = a  BY <1>b, <1>c, <2>1
  <2>2. CASE b # a
    <3>1. job[b].msg \in mail /\ \A c \in Actors : job[c].msg = job[b].msg => b = c  BY <1>0, <1>b, <2>2 DEF Kept
    <3> QED  BY <1>b, <1>c, <2>2, <3>1
  <2> QED  BY <2>1, <2>2
<1>4. (\A n \in mail' : SaysSo(n)') /\ (\A e \in Subs : Unborn(e)')
  BY <1>0, <1>a DEF SaysSo, Withdrawn, Unborn, HasRow
<1>5. \A b \in Actors : Sound(job[b], rows, provider, mishaps)'
  <2> SUFFICES ASSUME NEW b \in Actors PROVE Sound(job'[b], rows, provider, mishaps)  BY <1>a
  <2> QED  BY <1>0, <1>b, <1>d
<1>6. ASSUME NEW r \in 1..Len(rows')
      PROVE  RowStands(r)' /\ EndIsNews(r)'
  <2>0. r \in 1..Len(rows) /\ RowStands(r) /\ EndIsNews(r)  BY <1>0, <1>a
  <2>1. RowStands(r)'  BY <1>a, <2>0 DEF RowStands
  <2>2. EndIsNews(r)'
    <3> SUFFICES ASSUME rows[r].ext # NoSub, NEW n \in mail, Final(n, rows[r].ext),
                        \A b \in Actors : Closes(job[b], n, r)
                 PROVE  \A b \in Actors : Closes(job'[b], n, r)
      BY <1>a, <2>0 DEF EndIsNews, Final
    <3>1. n = m => \E i \in 1..Len(todo) : Clears(todo[i], r)  BY <2>0
    <3>2. Closes(k, n, r)  BY <1>c, <3>1 DEF Closes
    <3> QED  BY <1>b, <3>2
  <2> QED  BY <2>1, <2>2
<1>7. ASSUME NEW e \in Subs
      PROVE  Covered(e)'
  <2> SUFFICES ASSUME Paying(e), ~HasRow(e), ~Excused(mishaps, e)
               PROVE  \/ \E b \in Actors : Leaving(job'[b], e)
                      \/ \E n \in mail : Welcome(n, e) /\ \A b \in Actors : Adopts(job'[b], n, e)
    BY <1>a DEF Covered, Paying, HasRow
  <2>1. CASE \E b \in Actors : Leaving(job[b], e)
    <3>1. ~Leaving(job[a], e)  BY <1>a, IdleFacts DEF Leaving
    <3> QED  BY <1>b, <2>1, <3>1
  <2>2. ASSUME NEW n \in mail, Welcome(n, e), \A b \in Actors : Adopts(job[b], n, e)
        PROVE  \A b \in Actors : Adopts(job'[b], n, e)
    <3>1. n = m => \E i \in 1..Len(todo) : Makes(todo[i], e)  BY <2>2
    <3>2. Adopts(k, n, e)  BY <1>c, <3>1 DEF Adopts
    <3> QED  BY <1>b, <2>2, <3>2
  <2> QED  BY <1>0, <2>1, <2>2 DEF Covered
<1> QED  BY <1>1, <1>2, <1>3, <1>4, <1>5, <1>6, <1>7 DEF BillingInv

\* An effect that any handler of this webhook, or request, may have.
Allowed(x, msg) ==
  /\ x \in Effects /\ x.do \notin {"processed", "erase"}
  /\ x.do \in {"write", "call"} => x.row <= Len(rows)
  /\ x.do = "call" => (x.onFail = "revert" => msg = NoMail)
  /\ \A e \in Subs : Makes(x, e) => provider[e].state \notin {"none", "open"}
  /\ \A r \in 1..Len(rows) : rows[r].ext # NoSub =>
       /\ Dooms(x, r) => ~Firm(provider, mishaps, rows[r].ext)
       /\ Cancels(x, r) => \/ Dead(provider, rows[r].ext)
                           \/ msg # NoMail /\ msg.sub = rows[r].ext /\ msg.status \in {"ending", "dead"}
Parting(s, i) ==
  \A r \in 1..Len(rows) : (rows[r].ext # NoSub /\ Firm(provider, mishaps, rows[r].ext) /\ Clears(s[i], r)) =>
    i < Len(s) /\ Cancelling(s[i + 1], rows[r].ext)
Piece(s, msg) == s \in Seq(Effects) /\ \A i \in 1..Len(s) : Allowed(s[i], msg) /\ Parting(s, i)

LEMMA NoPiece ==
  ASSUME NEW msg
  PROVE  Piece(<<>>, msg)
BY DEF Piece

LEMMA ConcatFacts ==
  ASSUME NEW S, NEW s \in Seq(S), NEW t \in Seq(S)
  PROVE  /\ s \o t \in Seq(S) /\ Len(s \o t) = Len(s) + Len(t) /\ Len(s) \in Nat /\ Len(t) \in Nat
         /\ \A i \in 1..Len(s) : (s \o t)[i] = s[i]
         /\ \A i \in 1..Len(t) : (s \o t)[Len(s) + i] = t[i]
         /\ \A i \in 1..Len(s \o t) : i \in 1..Len(s) \/ (i - Len(s) \in 1..Len(t) /\ i = Len(s) + (i - Len(s)))
OBVIOUS

LEMMA PieceConcat ==
  ASSUME NEW msg, NEW s, NEW t, Piece(s, msg), Piece(t, msg)
  PROVE  Piece(s \o t, msg)
<1>1. s \in Seq(Effects) /\ t \in Seq(Effects)  BY DEF Piece
<1>2. /\ s \o t \in Seq(Effects) /\ Len(s \o t) = Len(s) + Len(t) /\ Len(s) \in Nat /\ Len(t) \in Nat
      /\ \A i \in 1..Len(s) : (s \o t)[i] = s[i]
      /\ \A i \in 1..Len(t) : (s \o t)[Len(s) + i] = t[i]
      /\ \A i \in 1..Len(s \o t) : i \in 1..Len(s) \/ (i - Len(s) \in 1..Len(t) /\ i = Len(s) + (i - Len(s)))
  BY <1>1, ConcatFacts
<1> DEFINE u == s \o t
<1> HIDE DEF u
<1>3. ASSUME NEW i \in 1..Len(u)
      PROVE  Allowed(u[i], msg) /\ Parting(u, i)
  <2>1. CASE i \in 1..Len(s)
    <3>1. u[i] = s[i] /\ Allowed(s[i], msg) /\ Parting(s, i)  BY <1>2, <2>1 DEF Piece, u
    <3>2. i < Len(s) => i < Len(u) /\ u[i + 1] = s[i + 1]
      <4> SUFFICES ASSUME i < Len(s) PROVE i < Len(u) /\ u[i + 1] = s[i + 1]  OBVIOUS
      <4>1. i + 1 \in 1..Len(s)  BY <1>2, <2>1
      <4> QED  BY <1>2, <4>1 DEF u
    <3> QED  BY <3>1, <3>2 DEF Parting
  <2>2. CASE i - Len(s) \in 1..Len(t) /\ i = Len(s) + (i - Len(s))
    <3> DEFINE j == i - Len(s)
    <3>1. u[i] = t[j] /\ Allowed(t[j], msg) /\ Parting(t, j)  BY <1>2, <2>2 DEF Piece, u
    <3>2. j < Len(t) => i < Len(u) /\ u[i + 1] = t[j + 1]
      <4> SUFFICES ASSUME j < Len(t) PROVE i < Len(u) /\ u[i + 1] = t[j + 1]  OBVIOUS
      <4>1. j + 1 \in 1..Len(t) /\ Len(s) + (j + 1) = i + 1 /\ i < Len(s) + Len(t)  BY <1>2, <2>2
      <4> QED  BY <1>2, <4>1 DEF u
    <3> QED  BY <3>1, <3>2 DEF Parting
  <2> QED  BY <1>2, <2>1, <2>2 DEF u
<1> QED  BY <1>2, <1>3 DEF Piece, u

LEMMA PieceOne ==
  ASSUME NEW msg, NEW x, Allowed(x, msg),
         \A r \in 1..Len(rows) : (rows[r].ext # NoSub /\ Clears(x, r)) => ~Firm(provider, mishaps, rows[r].ext)
  PROVE  Piece(<<x>>, msg)
<1>1. x \in Effects  BY DEF Allowed
<1>2. <<x>> \in Seq(Effects) /\ Len(<<x>>) = 1 /\ <<x>>[1] = x  BY <1>1
<1>3. \A i \in 1..Len(<<x>>) : i = 1  BY <1>2
<1> QED  BY <1>2, <1>3 DEF Piece, Parting

LEMMA PieceSound ==
  ASSUME NEW msg, NEW s, Piece(s, msg)
  PROVE  Sound([todo |-> s, msg |-> msg], rows, provider, mishaps)
<1> DEFINE k == [todo |-> s, msg |-> msg]
<1>1. k.todo = s /\ k.msg = msg  OBVIOUS
<1> HIDE DEF k
<1>2. InPlace(k, rows)  BY <1>1 DEF InPlace, Piece, Allowed
<1>3. OfBorn(k, provider)  BY <1>1 DEF OfBorn, Piece, Allowed
<1>4. Careful(k, rows, provider, mishaps)  BY <1>1 DEF Careful, Piece, Allowed, Parting
<1>5. Told(k, rows, provider)  BY <1>1 DEF Told, Piece, Allowed
<1>6. Purging(k, rows, provider, mishaps)  BY <1>1 DEF Purging, Piece, Allowed
<1> QED  BY <1>2, <1>3, <1>4, <1>5, <1>6 DEF Sound, k

LEMMA PieceProcessed ==
  ASSUME NEW msg, msg # NoMail, NEW s, Piece(s, msg)
  PROVE  /\ s \o <<[do |-> "processed"]>> \in Seq(Effects)
         /\ Sound([todo |-> s \o <<[do |-> "processed"]>>, msg |-> msg], rows, provider, mishaps)
         /\ \A i \in 1..Len(s) : i \in 1..Len(s \o <<[do |-> "processed"]>>)
                                 /\ (s \o <<[do |-> "processed"]>>)[i] = s[i]
<1> DEFINE p == [do |-> "processed"]
           u == s \o <<p>>
           k == [todo |-> u, msg |-> msg]
<1>1. s \in Seq(Effects) /\ p \in Effects /\ p.do = "processed"  BY DEF Piece, Effects, Others
<1> HIDE DEF p
<1>2. <<p>> \in Seq(Effects) /\ Len(<<p>>) = 1 /\ <<p>>[1] = p  BY <1>1
<1>3. /\ u \in Seq(Effects) /\ Len(u) = Len(s) + 1 /\ Len(s) \in Nat
      /\ \A i \in 1..Len(s) : u[i] = s[i]
      /\ u[Len(s) + 1] = p
      /\ \A i \in 1..Len(u) : i \in 1..Len(s) \/ i = Len(s) + 1
  <2>1. /\ u \in Seq(Effects) /\ Len(u) = Len(s) + Len(<<p>>) /\ Len(s) \in Nat
        /\ \A i \in 1..Len(s) : u[i] = s[i]
        /\ \A i \in 1..Len(<<p>>) : u[Len(s) + i] = <<p>>[i]
    BY <1>1, <1>2, ConcatFacts
  <2> QED  BY <1>2, <2>1
<1> HIDE DEF u
<1>4. k.todo = u /\ k.msg = msg  OBVIOUS
<1> HIDE DEF k
<1>5. \A i \in 1..Len(s) : Allowed(s[i], msg) /\ Parting(s, i)  BY DEF Piece
<1>6. \A r, e : ~Clears(p, r) /\ ~Dooms(p, r) /\ ~Cancels(p, r) /\ ~Makes(p, e)
  BY <1>1 DEF Clears, Dooms, Cancels, Makes
<1>7. InPlace(k, rows)
  <2> SUFFICES ASSUME NEW i \in 1..Len(u)
               PROVE  LET x == u[i] IN
                 /\ x.do \in {"write", "call"} => x.row <= Len(rows)
                 /\ x.do \in {"processed", "erase"} => i = Len(u)
                 /\ x.do = "processed" => msg # NoMail
                 /\ x.do = "erase" => x.known <= Len(rows)
                 /\ x.do = "call" => (x.onFail = "revert" => msg = NoMail)
    BY <1>4 DEF InPlace
  <2>1. CASE i \in 1..Len(s)  BY <1>3, <1>5, <2>1 DEF Allowed
  <2>2. CASE i = Len(s) + 1  BY <1>1, <1>3, <2>2
  <2> QED  BY <1>3, <2>1, <2>2
<1>8. OfBorn(k, provider)  BY <1>3, <1>4, <1>5, <1>6 DEF OfBorn, Allowed
<1>9. Careful(k, rows, provider, mishaps)
  <2> SUFFICES ASSUME NEW r \in 1..Len(rows), rows[r].ext # NoSub, Firm(provider, mishaps, rows[r].ext), NEW i \in 1..Len(u)
               PROVE  /\ Clears(u[i], r) => i < Len(u) /\ Cancelling(u[i + 1], rows[r].ext)
                      /\ Dooms(u[i], r) => Asks(u[1], "cancelAtEnd", rows[r].ext)
    BY <1>4 DEF Careful
  <2>1. CASE i \in 1..Len(s)
    <3>1. u[i] = s[i] /\ Allowed(s[i], msg) /\ Parting(s, i)  BY <1>3, <1>5, <2>1
    <3>2. ~Dooms(u[i], r)  BY <3>1 DEF Allowed
    <3>3. Clears(u[i], r) => i < Len(s) /\ Cancelling(s[i + 1], rows[r].ext)  BY <3>1 DEF Parting
    <3>4. i < Len(s) => i < Len(u) /\ u[i + 1] = s[i + 1]  BY <1>3, <2>1
    <3> QED  BY <3>2, <3>3, <3>4
  <2>2. CASE i = Len(s) + 1  BY <1>3, <1>6, <2>2
  <2> QED  BY <1>3, <2>1, <2>2
<1>10. Told(k, rows, provider)  BY <1>3, <1>4, <1>5, <1>6 DEF Told, Allowed
<1>11. Purging(k, rows, provider, mishaps)  BY <1>1, <1>3, <1>4, <1>5 DEF Purging, Allowed
<1>12. \A i \in 1..Len(s) : i \in 1..Len(u) /\ u[i] = s[i]  BY <1>3
<1> QED  BY <1>3, <1>7, <1>8, <1>9, <1>10, <1>11, <1>12 DEF Sound, k, u, p

\* A write of a row that a handler may make by itself.
MayWrite(r, set, msg) ==
  /\ r \in 0..Len(rows) /\ set \in Patches
  /\ r = 0 => DOMAIN set \subseteq {"limits", "end"}
  /\ r # 0 /\ rows[r].ext # NoSub =>
       /\ "ext" \in DOMAIN set => ~Firm(provider, mishaps, rows[r].ext)
       /\ ("change" \in DOMAIN set /\ set.change.to = 0) => ~Firm(provider, mishaps, rows[r].ext)
       /\ ("status" \in DOMAIN set /\ set.status = "CANCELLED" /\ "ext" \notin DOMAIN set) =>
            \/ Dead(provider, rows[r].ext)
            \/ msg # NoMail /\ msg.sub = rows[r].ext /\ msg.status \in {"ending", "dead"}

LEMMA WritePiece ==
  ASSUME Types, NEW msg, NEW r, NEW set, MayWrite(r, set, msg)
  PROVE  Piece(Write(r, set), msg)
<1> DEFINE x == [do |-> "write", row |-> r, set |-> set, skip |-> FALSE]
<1>0. r \in 0..Len(rows) /\ set \in Patches /\ (r = 0 => DOMAIN set \subseteq {"limits", "end"}) /\ Len(rows) \in Nat
  BY RowFacts DEF MayWrite
<1>1. x.do = "write" /\ x.row = r /\ x.set = set /\ x.skip = FALSE  OBVIOUS
<1>2. x \in Writes
  <2>1. x \in [do : {"write"}, row : Nat, set : Patches, skip : BOOLEAN]  BY <1>0
  <2> QED  BY <1>0, <1>1, <2>1 DEF Writes
<1>3. x \in Effects  BY <1>2 DEF Effects
<1> HIDE DEF x
<1>4. \A q \in 1..Len(rows) : (Clears(x, q) \/ Dooms(x, q) \/ Cancels(x, q)) => q = r /\ r # 0
  BY <1>0, <1>1 DEF Clears, Dooms, Cancels
<1>5. Allowed(x, msg)
  <2>1. \A e \in Subs : ~Makes(x, e)  BY <1>1 DEF Makes
  <2>2. ASSUME NEW q \in 1..Len(rows), rows[q].ext # NoSub
        PROVE  /\ Dooms(x, q) => ~Firm(provider, mishaps, rows[q].ext)
               /\ Cancels(x, q) => \/ Dead(provider, rows[q].ext)
                                   \/ msg # NoMail /\ msg.sub = rows[q].ext /\ msg.status \in {"ending", "dead"}
    <3>1. Dooms(x, q) => ~Firm(provider, mishaps, rows[q].ext)  BY <1>1, <1>4, <2>2 DEF Dooms, MayWrite
    <3>2. Cancels(x, q) => \/ Dead(provider, rows[q].ext)
                           \/ msg # NoMail /\ msg.sub = rows[q].ext /\ msg.status \in {"ending", "dead"}
      BY <1>1, <1>4, <2>2 DEF Cancels, MayWrite
    <3> QED  BY <3>1, <3>2
  <2> QED  BY <1>0, <1>1, <1>3, <2>1, <2>2 DEF Allowed
<1>6. \A q \in 1..Len(rows) : (rows[q].ext # NoSub /\ Clears(x, q)) => ~Firm(provider, mishaps, rows[q].ext)
  BY <1>1, <1>4 DEF Clears, MayWrite
<1> QED  BY <1>5, <1>6, PieceOne DEF Write, x

\* The writes that nothing can be said against.
LEMMA PlainWrites ==
  ASSUME Types, NEW msg, NEW r \in 1..Len(rows), NEW s \in Statuses \ {"EXPIRED", "DELETED", "CANCELLED"},
         NEW p \in Plans, NEW c \in Changes, c.to # 0, NEW n \in Nat
  PROVE  /\ Piece(Write(r, [limits |-> p]), msg) /\ Piece(Write(r, [end |-> n]), msg)
         /\ Piece(Write(r, [status |-> s]), msg) /\ Piece(Write(r, [change |-> c]), msg)
         /\ Piece(Write(r, [plan |-> p, change |-> c]), msg)
<1>1. /\ [limits |-> p] \in Patches /\ [end |-> n] \in Patches /\ [status |-> s] \in Patches
      /\ [change |-> c] \in Patches /\ [plan |-> p, change |-> c] \in Patches
  BY PatchTypes
<1>2. r \in 0..Len(rows) /\ r # 0 /\ s # "CANCELLED"  BY RowFacts
<1>3. MayWrite(r, [limits |-> p], msg)  BY <1>1, <1>2 DEF MayWrite
<1>4. MayWrite(r, [end |-> n], msg)  BY <1>1, <1>2 DEF MayWrite
<1>5. MayWrite(r, [status |-> s], msg)  BY <1>1, <1>2 DEF MayWrite
<1>6. MayWrite(r, [change |-> c], msg)  BY <1>1, <1>2 DEF MayWrite
<1>7. MayWrite(r, [plan |-> p, change |-> c], msg)  BY <1>1, <1>2 DEF MayWrite
<1> QED  BY <1>3, <1>4, <1>5, <1>6, <1>7, WritePiece

LEMMA NewRowWrite ==
  ASSUME Types, NEW msg, NEW n \in Nat
  PROVE  Piece(Write(0, [end |-> n]), msg)
<1>1. [end |-> n] \in Patches  BY PatchTypes
<1>2. MayWrite(0, [end |-> n], msg)  BY <1>1, RowFacts DEF MayWrite
<1> QED  BY <1>2, WritePiece

LEMMA CallPiece ==
  ASSUME Types, NEW msg, NEW op \in Ops, NEW r \in 0..Len(rows), NEW e \in Subs, NEW p \in Plans,
         NEW onFail \in {"throw", "log", "revert"}, onFail = "revert" => r # 0 /\ msg = NoMail
  PROVE  /\ Allowed(CallTo(op, e, r, p, onFail), msg)
         /\ \A s : ~Clears(CallTo(op, e, r, p, onFail), s)
         /\ Piece(<<CallTo(op, e, r, p, onFail)>>, msg)
<1> DEFINE x == CallTo(op, e, r, p, onFail)
<1>1. x.do = "call" /\ x.row = r /\ x.onFail = onFail  BY DEF CallTo
<1>a. r <= Len(rows)  BY RowFacts
<1>2. x \in Calls
  <2>1. r \in Nat  BY RowFacts
  <2>2. x \in [do : {"call"}, op : Ops, sub : Subs, row : Nat, plan : Plans, onFail : {"throw", "log", "revert"}]
    BY <2>1 DEF CallTo
  <2> QED  BY <1>1, <2>2 DEF Calls
<1>3. x \in Effects  BY <1>2 DEF Effects
<1> HIDE DEF x
<1>4. \A q, s : ~Clears(x, q) /\ ~Dooms(x, q) /\ ~Cancels(x, q) /\ ~Makes(x, s)
  BY <1>1 DEF Clears, Dooms, Cancels, Makes
<1>5. Allowed(x, msg)  BY <1>1, <1>a, <1>3, <1>4 DEF Allowed
<1>6. Piece(<<x>>, msg)  BY <1>4, <1>5, PieceOne
<1> QED  BY <1>4, <1>5, <1>6 DEF x

LEMMA RowCall ==
  ASSUME Types, NEW msg, NEW op \in Ops, NEW r \in 1..Len(rows), NEW p \in Plans,
         NEW onFail \in {"throw", "log", "revert"}, onFail = "revert" => msg = NoMail
  PROVE  Piece(Call(op, r, p, onFail), msg)
<1>1. CASE rows[r].ext = NoSub  BY <1>1, NoPiece DEF Call
<1>2. CASE rows[r].ext # NoSub
  <2>1. rows[r].ext \in Subs /\ r \in 0..Len(rows) /\ r # 0  BY <1>2, RowFacts
  <2>2. Piece(<<CallTo(op, rows[r].ext, r, p, onFail)>>, msg)  BY <2>1, CallPiece
  <2> QED  BY <1>2, <2>2 DEF Call
<1> QED  BY <1>1, <1>2

\* The quotas of a row just made, and the checkouts that are polled.
LEMMA QuotasPiece ==
  ASSUME Types, NEW msg, NEW p \in Plans
  PROVE  Piece(InitializeUsageQuotas(p), msg)
<1> DEFINE x == [do |-> "write", row |-> 0, set |-> [limits |-> p], skip |-> TRUE]
<1>1. /\ x.do = "write" /\ x.row = 0 /\ x.set = [limits |-> p]
      /\ x \in [do : {"write"}, row : Nat, set : Patches, skip : BOOLEAN] /\ DOMAIN x.set \subseteq {"limits", "end"}
  BY PatchTypes
<1>2. x \in Effects  BY <1>1 DEF Effects, Writes
<1> HIDE DEF x
<1>3. Len(rows) \in Nat  BY RowFacts
<1>4. \A q \in 1..Len(rows) : ~Clears(x, q) /\ ~Dooms(x, q) /\ ~Cancels(x, q)
  BY <1>1, <1>3 DEF Clears, Dooms, Cancels
<1>5. \A s : ~Makes(x, s)  BY <1>1 DEF Makes
<1>6. Allowed(x, msg)  BY <1>1, <1>2, <1>3, <1>4, <1>5 DEF Allowed
<1> QED  BY <1>4, <1>6, PieceOne DEF InitializeUsageQuotas, x

LEMMA PollPieces ==
  ASSUME Types, NEW msg, NEW e \in Subs
  PROVE  Piece(Settle(e), msg) /\ Piece(<<[do |-> "remember", sub |-> e]>>, msg)
<1>1. ASSUME NEW do \in {"settle", "remember"}
      PROVE  Piece(<<[do |-> do, sub |-> e]>>, msg)
  <2> DEFINE x == [do |-> do, sub |-> e]
  <2>1. x \in Effects /\ x.do = do  BY <1>1 DEF Effects, Others
  <2> HIDE DEF x
  <2>2. \A q, s : ~Clears(x, q) /\ ~Dooms(x, q) /\ ~Cancels(x, q) /\ ~Makes(x, s)
    BY <2>1, <1>1 DEF Clears, Dooms, Cancels, Makes
  <2>3. Allowed(x, msg)  BY <1>1, <2>1, <2>2 DEF Allowed
  <2> QED  BY <2>2, <2>3, PieceOne DEF x
<1> QED  BY <1>1 DEF Settle

LEMMA NewestFacts ==
  ASSUME Types, NEW statuses
  PROVE  Newest(statuses) = 0 \/ (Newest(statuses) \in 1..Len(rows) /\ rows[Newest(statuses)].status \in statuses)
<1> DEFINE found == {r \in DOMAIN rows : rows[r].status \in statuses}
<1>1. Len(rows) \in Nat /\ DOMAIN rows = 1..Len(rows)  BY RowFacts
<1>2. Newest(statuses) = IF found = {} THEN 0 ELSE Max(found)  BY DEF Newest
<1>3. CASE found = {}  BY <1>2, <1>3
<1>4. CASE found # {}
  <2>1. found \in SUBSET (1..Len(rows))  BY <1>1
  <2>2. Max(found) \in found  BY <1>1, <1>4, <2>1, MaxIsIn
  <2> QED  BY <1>1, <1>2, <1>4, <2>2
<1> QED  BY <1>3, <1>4

LEMMA CurrentFacts ==
  ASSUME Types
  PROVE  /\ ActiveRow # 0 => ActiveRow \in 1..Len(rows) /\ rows[ActiveRow].status = "ACTIVE"
         /\ CurrentRow # 0 => CurrentRow \in 1..Len(rows)
<1>1. ActiveRow # 0 => ActiveRow \in 1..Len(rows) /\ rows[ActiveRow].status = "ACTIVE"
  BY NewestFacts DEF ActiveRow
<1>2. CurrentRow # 0 => CurrentRow \in 1..Len(rows)  BY NewestFacts DEF CurrentRow
<1> QED  BY <1>1, <1>2

LEMMA RowOfFacts ==
  ASSUME Types, NEW e, RowOf(e) # 0
  PROVE  RowOf(e) \in 1..Len(rows) /\ rows[RowOf(e)].ext = e
<1> DEFINE found == {r \in DOMAIN rows : rows[r].ext = e}
<1>1. Len(rows) \in Nat /\ DOMAIN rows = 1..Len(rows)  BY RowFacts
<1>2. RowOf(e) = IF found = {} THEN 0 ELSE Max(found)  BY DEF RowOf
<1>3. found # {} /\ found \in SUBSET (1..Len(rows))  BY <1>1, <1>2
<1>4. Max(found) \in found  BY <1>1, <1>3, MaxIsIn
<1> QED  BY <1>1, <1>2, <1>3, <1>4

\* The retired row gives up its provider subscription, which is cancelled next.
LEMMA RetirePiece ==
  ASSUME Types, NEW msg, NEW r \in 1..Len(rows)
  PROVE  Piece(Write(r, [status |-> "EXPIRED", change |-> Unscheduled, ext |-> NoSub])
               \o Call("cancelNow", r, 0, "log"), msg)
<1> DEFINE set == [status |-> "EXPIRED", change |-> Unscheduled, ext |-> NoSub]
<1>1. /\ set \in Patches /\ "change" \in DOMAIN set /\ set.change.to # 0 /\ set.status # "CANCELLED"
      /\ "ext" \in DOMAIN set /\ r \in 0..Len(rows) /\ r # 0
  BY PatchTypes, StatesFacts, RowFacts DEF Statuses
<1> HIDE DEF set
<1>2. CASE rows[r].ext = NoSub
  <2>1. MayWrite(r, set, msg)  BY <1>1, <1>2 DEF MayWrite
  <2>2. Piece(Write(r, set), msg)  BY <2>1, WritePiece
  <2>3. Piece(Call("cancelNow", r, 0, "log"), msg)  BY <1>2, NoPiece DEF Call
  <2> QED  BY <2>2, <2>3, PieceConcat DEF set
<1>3. CASE rows[r].ext # NoSub
  <2> DEFINE w == [do |-> "write", row |-> r, set |-> set, skip |-> FALSE]
             e == rows[r].ext
             c == CallTo("cancelNow", e, r, 0, "log")
             s == Write(r, set) \o Call("cancelNow", r, 0, "log")
  <2>1. e \in Subs /\ 0 \in Plans /\ "cancelNow" \in Ops  BY <1>3, RowFacts, StatesFacts DEF Ops
  <2>2. Allowed(c, msg) /\ (\A q : ~Clears(c, q))  BY <1>1, <2>1, CallPiece
  <2>3. Cancelling(c, e)  BY DEF Cancelling, CallTo
  <2>4. w.do = "write" /\ w.row = r /\ w.set = set /\ w.skip = FALSE  OBVIOUS
  <2>5. w \in Effects
    <3>1. r \in Nat  BY RowFacts
    <3>2. w \in [do : {"write"}, row : Nat, set : Patches, skip : BOOLEAN]  BY <1>1, <3>1
    <3>3. w \in Writes  BY <1>1, <2>4, <3>2 DEF Writes
    <3> QED  BY <3>3 DEF Effects
  <2>6. Write(r, set) = <<w>> /\ Call("cancelNow", r, 0, "log") = <<c>>  BY <1>3 DEF Write, Call
  <2> HIDE DEF w, c
  <2>7. s = <<w>> \o <<c>>  BY <2>6
  <2>8. c \in Effects  BY <2>2 DEF Allowed
  <2>9. s \in Seq(Effects) /\ Len(s) = 2 /\ s[1] = w /\ s[2] = c
    <3>1. /\ <<w>> \in Seq(Effects) /\ Len(<<w>>) = 1 /\ <<w>>[1] = w
          /\ <<c>> \in Seq(Effects) /\ Len(<<c>>) = 1 /\ <<c>>[1] = c
      BY <2>5, <2>8
    <3> HIDE DEF s
    <3> QED  BY <2>7, <3>1, ConcatFacts
  <2> HIDE DEF s
  <2>10. Allowed(w, msg)
    <3>1. \A q : ~Dooms(w, q) /\ ~Cancels(w, q) /\ ~Makes(w, q)
      BY <1>1, <2>4 DEF Dooms, Cancels, Makes
    <3>2. r <= Len(rows)  BY RowFacts
    <3> QED  BY <2>4, <2>5, <3>1, <3>2 DEF Allowed
  <2>11. Parting(s, 1)  BY <2>3, <2>4, <2>9 DEF Parting, Clears
  <2>12. Parting(s, 2)  BY <2>2, <2>9 DEF Parting
  <2>13. \A i \in 1..Len(s) : i = 1 \/ i = 2  BY <2>9
  <2> QED  BY <2>2, <2>9, <2>10, <2>11, <2>12, <2>13 DEF Piece, s, set
<1> QED  BY <1>2, <1>3

Newcomer(e, p, end, status) == Updated(FreeRow(end), [ext |-> e, plan |-> p, status |-> status])

LEMMA NewcomerFacts ==
  ASSUME NEW e \in Subs \union {NoSub}, NEW p \in Plans, NEW end \in Nat
  PROVE  LET row == Newcomer(e, p, end, "ACTIVE") IN
         row \in Row /\ row.ext = e /\ row.status = "ACTIVE" /\ row.change = Unscheduled
<1> DEFINE row == Newcomer(e, p, end, "ACTIVE")
<1>1. FreeRow(end) \in Row /\ DOMAIN FreeRow(end) = Columns  BY FreeRowFacts DEF Statuses
<1>2. row = [column \in Columns |-> IF column \in {"ext", "plan", "status"}
               THEN [ext |-> e, plan |-> p, status |-> "ACTIVE"][column] ELSE FreeRow(end)[column]]
  BY <1>1 DEF Newcomer, Updated
<1>3. /\ row.ext = e /\ row.plan = p /\ row.status = "ACTIVE" /\ row.change = Unscheduled
      /\ row.limits = -1 /\ row.end = end
  BY <1>2 DEF FreeRow, Columns
<1>4. row = [status |-> "ACTIVE", plan |-> p, limits |-> -1, ext |-> e, change |-> Unscheduled, end |-> end]
  BY <1>2, <1>3 DEF Columns
<1>5. row \in Row  BY <1>4, StatesFacts DEF Row, Statuses
<1> QED  BY <1>3, <1>5

\* createSubscription, of a subscription that was paid.
LEMMA CreatePiece ==
  ASSUME Types, NEW msg, NEW e \in Subs \union {NoSub}, NEW p \in Plans, NEW end \in Nat,
         e \in Subs => provider[e].state \notin {"none", "open"}
  PROVE  /\ Piece(CreateSubscription(e, p, end, "ACTIVE"), msg)
         /\ e = NoSub \/ HasRow(e)
            \/ \E i \in 1..Len(CreateSubscription(e, p, end, "ACTIVE")) :
                 Makes(CreateSubscription(e, p, end, "ACTIVE")[i], e)
<1> DEFINE row == Newcomer(e, p, end, "ACTIVE")
           x   == [do |-> "create", set |-> row]
           s   == CreateSubscription(e, p, end, "ACTIVE")
           old == ActiveRow
           t   == InitializeUsageQuotas(p)
           u   == IF old = 0 THEN <<>>
                  ELSE Write(old, [status |-> "EXPIRED", change |-> Unscheduled, ext |-> NoSub])
                       \o Call("cancelNow", old, 0, "log")
<1>1. CASE e # NoSub /\ RowOf(e) # 0
  <2>1. s = <<>>  BY <1>1 DEF CreateSubscription
  <2>2. HasRow(e)  BY <1>1, RowOfFacts DEF HasRow
  <2> QED  BY <2>1, <2>2, NoPiece
<1>2. CASE ~(e # NoSub /\ RowOf(e) # 0)
  <2>1. s = Create(row) \o t \o u  BY <1>2 DEF CreateSubscription, Newcomer
  <2>2. row \in Row /\ row.ext = e /\ row.status = "ACTIVE" /\ row.change = Unscheduled  BY NewcomerFacts
  <2> HIDE DEF row
  <2>3. x \in Effects /\ x.do = "create" /\ x.set.ext = e  BY <2>2 DEF Effects, Creates
  <2>4. Create(row) = <<x>>  BY DEF Create
  <2> HIDE DEF x
  <2>5. \A q : ~Clears(x, q) /\ ~Dooms(x, q) /\ ~Cancels(x, q)  BY <2>3 DEF Clears, Dooms, Cancels
  <2>6. \A f \in Subs : Makes(x, f) => provider[f].state \notin {"none", "open"}  BY <2>3 DEF Makes
  <2>7. Allowed(x, msg)  BY <2>3, <2>5, <2>6 DEF Allowed
  <2>8. Piece(<<x>>, msg)  BY <2>5, <2>7, PieceOne
  <2>9. Piece(t, msg)  BY QuotasPiece
  <2>10. Piece(u, msg)
    <3>1. CASE old = 0  BY <3>1, NoPiece
    <3>2. CASE old # 0
      <4>1. old \in 1..Len(rows)  BY <3>2, CurrentFacts
      <4> QED  BY <3>2, <4>1, RetirePiece
    <3> QED  BY <3>1, <3>2
  <2> HIDE DEF t, u
  <2>11. Piece(<<x>> \o t, msg)  BY <2>8, <2>9, PieceConcat
  <2>12. Piece(<<x>> \o t \o u, msg)  BY <2>10, <2>11, PieceConcat
  <2>13. /\ 1 \in 1..Len(<<x>> \o t \o u) /\ (<<x>> \o t \o u)[1] = x
    <3>1. t \in Seq(Effects) /\ u \in Seq(Effects)  BY <2>9, <2>10 DEF Piece
    <3> QED  BY <2>3, <3>1
  <2>14. Makes(x, e)  BY <2>3 DEF Makes
  <2> QED  BY <2>1, <2>4, <2>12, <2>13, <2>14
<1> QED  BY <1>1, <1>2

LEMMA PieceStarts ==
  ASSUME BillingInv, NEW a \in Actors, NEW todo, Piece(todo, NoMail), Start(a, todo, NoMail), events' \in Nat
  PROVE  BillingInv'
<1>1. todo \in Seq(Effects)  BY DEF Piece
<1>2. Sound([todo |-> todo, msg |-> NoMail], rows, provider, mishaps)  BY PieceSound
<1>3. NoMail \notin mail  BY IdleFacts DEF BillingInv, Types
<1> QED  BY <1>1, <1>2, <1>3, StartKeeps

-------------------------------------------------------------------------------
(* Requests of the user.                                                        *)

LEMMA CheckoutPiece ==
  ASSUME Types, NEW p \in Plans
  PROVE  Piece(CreateCheckoutSession(p), NoMail)
<1> DEFINE unused == {e \in Subs : provider[e].state = "none"}
           e      == CHOOSE e \in unused : TRUE
           t      == IF gateway = "razorpay" THEN <<[do |-> "remember", sub |-> e]>> ELSE <<>>
<1>1. CASE unused = {}  BY <1>1, NoPiece DEF CreateCheckoutSession
<1>2. CASE unused # {}
  <2>1. e \in Subs  BY <1>2
  <2>2. CreateCheckoutSession(p) = <<CallTo("checkout", e, 0, p, "throw")>> \o t  BY <1>2 DEF CreateCheckoutSession
  <2> HIDE DEF e
  <2>3. Piece(t, NoMail)  BY <2>1, PollPieces, NoPiece
  <2>4. "checkout" \in Ops /\ 0 \in 0..Len(rows)  BY RowFacts DEF Ops
  <2>5. Piece(<<CallTo("checkout", e, 0, p, "throw")>>, NoMail)  BY <2>1, <2>4, CallPiece
  <2> HIDE DEF t
  <2> QED  BY <2>2, <2>3, <2>5, PieceConcat
<1> QED  BY <1>1, <1>2

LEMMA OpsAre == {"change", "cancelAtEnd", "cancelNow", "pause", "resume", "uncancel"} \subseteq Ops
BY DEF Ops

LEMMA UpgradePiece ==
  ASSUME Types, NEW r \in 1..Len(rows), NEW p \in Plans
  PROVE  Piece(UpgradeSubscription(r, p), NoMail)
<1> DEFINE s == Call("change", r, p, "throw")
           t == Write(r, [plan |-> p, change |-> Unscheduled])
           u == Limit(r, p)
<1>1. Piece(s, NoMail)  BY RowCall, OpsAre
<1>2. Unscheduled \in Changes /\ Unscheduled.to # 0 /\ "ACTIVE" \in Statuses \ {"EXPIRED", "DELETED", "CANCELLED"}
  BY StatesFacts DEF Statuses
<1>3. Piece(t, NoMail) /\ Piece(u, NoMail)  BY <1>2, PlainWrites DEF Limit
<1>4. UpgradeSubscription(r, p) = s \o t \o u  BY DEF UpgradeSubscription
<1> HIDE DEF s, t, u
<1> QED  BY <1>1, <1>3, <1>4, PieceConcat

LEMMA DowngradePiece ==
  ASSUME Types, NEW r \in 1..Len(rows), NEW p \in Plans, p # 0
  PROVE  Piece(DowngradeSubscription(r, p), NoMail)
<1> DEFINE c == [to |-> p, at |-> rows[r].end]
           s == Write(r, [change |-> c])
           t == Call("change", r, p, "revert")
<1>1. Piece(t, NoMail)  BY RowCall, OpsAre
<1>2. c \in Changes /\ c.to # 0 /\ "ACTIVE" \in Statuses \ {"EXPIRED", "DELETED", "CANCELLED"}
  BY StatesFacts, RowFacts DEF Statuses
<1> HIDE DEF c
<1>3. Piece(s, NoMail)  BY <1>2, PlainWrites
<1>4. DowngradeSubscription(r, p) = s \o t  BY DEF DowngradeSubscription, c
<1> HIDE DEF s, t
<1> QED  BY <1>1, <1>3, <1>4, PieceConcat

LEMMA PauseResumePieces ==
  ASSUME Types, NEW r \in 1..Len(rows)
  PROVE  Piece(PauseSubscription(r), NoMail) /\ Piece(ResumeSubscription(r), NoMail)
<1> DEFINE live == Statuses \ {"EXPIRED", "DELETED", "CANCELLED"}
<1>1. 0 \in Plans /\ Unscheduled \in Changes /\ Unscheduled.to # 0  BY StatesFacts
<1>2. ASSUME NEW op \in {"pause", "resume"}, NEW s \in {"PAUSED", "ACTIVE"}
      PROVE  Piece(Call(op, r, 0, "throw") \o Write(r, [status |-> s]), NoMail)
  <2>1. op \in Ops /\ s \in live  BY DEF Ops, Statuses
  <2>2. Piece(Call(op, r, 0, "throw"), NoMail)  BY <1>1, <2>1, RowCall
  <2>3. Piece(Write(r, [status |-> s]), NoMail)  BY <1>1, <2>1, PlainWrites
  <2> QED  BY <2>2, <2>3, PieceConcat
<1> QED  BY <1>2 DEF PauseSubscription, ResumeSubscription

LEMMA UnschedulePiece ==
  ASSUME Types, NEW r \in 1..Len(rows)
  PROVE  Piece(CancelScheduledChange(r), NoMail)
<1> DEFINE s == IF rows[r].change.to = 0
                THEN Call("uncancel", r, 0, IF gateway = "razorpay" THEN "log" ELSE "throw")
                ELSE Call("change", r, rows[r].plan, "throw")
           t == Write(r, [change |-> Unscheduled])
<1>1. /\ 0 \in Plans /\ Unscheduled \in Changes /\ Unscheduled.to # 0 /\ rows[r].plan \in Plans
      /\ "ACTIVE" \in Statuses \ {"EXPIRED", "DELETED", "CANCELLED"}
  BY StatesFacts, RowFacts DEF Statuses
<1>2. Piece(s, NoMail)
  <2>1. Piece(Call("uncancel", r, 0, "log"), NoMail)  BY <1>1, RowCall, OpsAre
  <2>2. Piece(Call("uncancel", r, 0, "throw"), NoMail)  BY <1>1, RowCall, OpsAre
  <2>3. Piece(Call("change", r, rows[r].plan, "throw"), NoMail)  BY <1>1, RowCall, OpsAre
  <2> QED  BY <2>1, <2>2, <2>3
<1>3. Piece(t, NoMail)  BY <1>1, PlainWrites
<1>4. CancelScheduledChange(r) = s \o t  BY DEF CancelScheduledChange
<1> HIDE DEF s, t
<1> QED  BY <1>2, <1>3, <1>4, PieceConcat

LEMMA TwoFacts ==
  ASSUME NEW S, NEW x \in S, NEW y \in S
  PROVE  /\ <<x>> \o <<y>> \in Seq(S) /\ Len(<<x>> \o <<y>>) = 2
         /\ (<<x>> \o <<y>>)[1] = x /\ (<<x>> \o <<y>>)[2] = y
OBVIOUS

\* The provider is asked first, and the row written when it agreed.
LEMMA AskThenWrite ==
  ASSUME Types, NEW r \in 1..Len(rows), NEW op \in {"cancelNow", "cancelAtEnd"}, NEW set \in Patches,
         "ext" \notin DOMAIN set,
         ("change" \in DOMAIN set /\ set.change.to = 0) => op = "cancelAtEnd",
         ("status" \in DOMAIN set /\ set.status = "CANCELLED") => op = "cancelNow"
  PROVE  /\ Call(op, r, 0, "throw") \o Write(r, set) \in Seq(Effects)
         /\ Sound([todo |-> Call(op, r, 0, "throw") \o Write(r, set), msg |-> NoMail], rows, provider, mishaps)
<1> DEFINE u == Call(op, r, 0, "throw") \o Write(r, set)
<1>0. r \in 0..Len(rows) /\ r # 0 /\ r <= Len(rows) /\ r \in Nat /\ Len(rows) \in Nat /\ 0 \in Plans /\ op \in Ops
  BY RowFacts, StatesFacts DEF Ops
<1>1. CASE rows[r].ext = NoSub
  <2>1. MayWrite(r, set, NoMail)  BY <1>0, <1>1 DEF MayWrite
  <2>2. Piece(Write(r, set), NoMail)  BY <2>1, WritePiece
  <2>3. Piece(Call(op, r, 0, "throw"), NoMail)  BY <1>1, NoPiece DEF Call
  <2>4. Piece(u, NoMail)  BY <2>2, <2>3, PieceConcat
  <2> HIDE DEF u
  <2>5. u \in Seq(Effects)  BY <2>4 DEF Piece
  <2>6. Sound([todo |-> u, msg |-> NoMail], rows, provider, mishaps)  BY <2>4, PieceSound
  <2> QED  BY <2>5, <2>6 DEF u
<1>2. CASE rows[r].ext # NoSub
  <2> DEFINE w == [do |-> "write", row |-> r, set |-> set, skip |-> FALSE]
             e == rows[r].ext
             c == CallTo(op, e, r, 0, "throw")
             k == [todo |-> u, msg |-> NoMail]
  <2>1. e \in Subs  BY <1>2, RowFacts
  <2>2. Allowed(c, NoMail) /\ (\A q : ~Clears(c, q))  BY <1>0, <2>1, CallPiece
  <2>3. Asks(c, op, e) /\ c.do = "call" /\ c.row = r /\ c.onFail = "throw"  BY DEF Asks, CallTo
  <2>4. w.do = "write" /\ w.row = r /\ w.set = set /\ w.skip = FALSE  OBVIOUS
  <2>5. w \in Effects
    <3>1. w \in [do : {"write"}, row : Nat, set : Patches, skip : BOOLEAN]  BY <1>0
    <3>2. w \in Writes  BY <1>0, <2>4, <3>1 DEF Writes
    <3> QED  BY <3>2 DEF Effects
  <2>6. u = <<c>> \o <<w>>  BY <1>2 DEF Write, Call
  <2> HIDE DEF w, c
  <2>7. c \in Effects  BY <2>2 DEF Allowed
  <2>8. u \in Seq(Effects) /\ Len(u) = 2 /\ u[1] = c /\ u[2] = w
    <3>1. /\ <<c>> \o <<w>> \in Seq(Effects) /\ Len(<<c>> \o <<w>>) = 2
          /\ (<<c>> \o <<w>>)[1] = c /\ (<<c>> \o <<w>>)[2] = w
      BY <2>5, <2>7, TwoFacts
    <3>2. u = <<c>> \o <<w>>  BY <2>6
    <3> HIDE DEF u, k, e
    <3> QED  BY <3>1, <3>2
  <2> HIDE DEF u
  <2>9. k.todo = u /\ k.msg = NoMail  OBVIOUS
  <2> HIDE DEF k
  <2>10. \A i \in 1..Len(u) : (i = 1 /\ u[i] = c) \/ (i = 2 /\ u[i] = w)  BY <2>8
  <2>11. \A q : ~Dooms(c, q) /\ ~Cancels(c, q) /\ ~Makes(c, q) /\ ~Makes(w, q) /\ ~Clears(w, q)
    BY <2>3, <2>4 DEF Dooms, Cancels, Makes, Clears
  <2>12. \A q \in 1..Len(rows) : /\ Dooms(w, q) => q = r /\ op = "cancelAtEnd"
                                 /\ Cancels(w, q) => q = r /\ op = "cancelNow"
    BY <2>4 DEF Dooms, Cancels
  <2>13. InPlace(k, rows)  BY <1>0, <2>3, <2>4, <2>9, <2>10 DEF InPlace
  <2>14. OfBorn(k, provider)  BY <2>9, <2>10, <2>11 DEF OfBorn
  <2>15. Careful(k, rows, provider, mishaps)  BY <2>2, <2>3, <2>8, <2>9, <2>10, <2>11, <2>12 DEF Careful
  <2>16. Told(k, rows, provider)  BY <2>3, <2>8, <2>9, <2>10, <2>11, <2>12 DEF Told
  <2>17. Purging(k, rows, provider, mishaps)  BY <2>3, <2>4, <2>9, <2>10 DEF Purging
  <2> QED  BY <2>8, <2>13, <2>14, <2>15, <2>16, <2>17 DEF Sound, k, u
<1> QED  BY <1>1, <1>2

LEMMA CancelIsSound ==
  ASSUME Types, NEW r \in 1..Len(rows), rows[r].status = "ACTIVE", NEW immediate \in BOOLEAN
  PROVE  /\ CancelSubscription(r, immediate) \in Seq(Effects)
         /\ Sound([todo |-> CancelSubscription(r, immediate), msg |-> NoMail], rows, provider, mishaps)
<1>1. CASE immediate
  <2> DEFINE set == [status |-> "CANCELLED", change |-> Unscheduled]
  <2>1. /\ set \in Patches /\ "ext" \notin DOMAIN set /\ set.change.to # 0
    BY PatchTypes, StatesFacts DEF Statuses
  <2> HIDE DEF set
  <2>2. /\ Call("cancelNow", r, 0, "throw") \o Write(r, set) \in Seq(Effects)
        /\ Sound([todo |-> Call("cancelNow", r, 0, "throw") \o Write(r, set), msg |-> NoMail], rows, provider, mishaps)
    BY <2>1, AskThenWrite
  <2> QED  BY <1>1, <2>2 DEF CancelSubscription, set
<1>2. CASE ~immediate
  <2> DEFINE c   == [to |-> 0, at |-> rows[r].end]
             set == [status |-> rows[r].status, change |-> c]
  <2>0. c \in Changes  BY StatesFacts, RowFacts
  <2>1. /\ set \in Patches /\ "ext" \notin DOMAIN set /\ set.status # "CANCELLED"
    <3> HIDE DEF c
    <3> QED  BY <2>0, PatchTypes DEF Statuses
  <2>3. CancelSubscription(r, immediate) = Call("cancelAtEnd", r, 0, "throw") \o Write(r, set)
    BY <1>2 DEF CancelSubscription
  <2> HIDE DEF set
  <2>2. /\ Call("cancelAtEnd", r, 0, "throw") \o Write(r, set) \in Seq(Effects)
        /\ Sound([todo |-> Call("cancelAtEnd", r, 0, "throw") \o Write(r, set), msg |-> NoMail], rows, provider, mishaps)
    BY <2>1, AskThenWrite
  <2> QED  BY <2>2, <2>3
<1> QED  BY <1>1, <1>2

LEMMA ApplyPlanIsSound ==
  ASSUME Types, NEW p \in Plans
  PROVE  /\ ApplyPlanChange(p) \in Seq(Effects)
         /\ Sound([todo |-> ApplyPlanChange(p), msg |-> NoMail], rows, provider, mishaps)
<1> DEFINE c == CurrentRow
           r == ActiveRow
           fits(s) == s \in Seq(Effects) /\ Sound([todo |-> s, msg |-> NoMail], rows, provider, mishaps)
<1>0. p \in Nat /\ (r # 0 => r \in 1..Len(rows) /\ rows[r].status = "ACTIVE")
  BY CurrentFacts, StatesFacts
<1>1. \A s : Piece(s, NoMail) => fits(s)
  <2> SUFFICES ASSUME NEW s, Piece(s, NoMail) PROVE fits(s)  OBVIOUS
  <2> QED  BY PieceSound DEF Piece
<1>2. fits(<<>>) /\ fits(CreateCheckoutSession(p))  BY <1>1, NoPiece, CheckoutPiece
<1>3. ASSUME r # 0
      PROVE  /\ fits(UpgradeSubscription(r, p)) /\ (p # 0 => fits(DowngradeSubscription(r, p)))
             /\ fits(CancelSubscription(r, FALSE))
  <2>1. Piece(UpgradeSubscription(r, p), NoMail)  BY <1>0, <1>3, UpgradePiece
  <2>2. p # 0 => Piece(DowngradeSubscription(r, p), NoMail)  BY <1>0, <1>3, DowngradePiece
  <2>3. fits(CancelSubscription(r, FALSE))
    <3>1. FALSE \in BOOLEAN  OBVIOUS
    <3> QED  BY <1>0, <1>3, <3>1, CancelIsSound
  <2> QED  BY <1>1, <2>1, <2>2, <2>3
<1> HIDE DEF fits
<1>4. fits(ApplyPlanChange(p))  BY <1>2, <1>3 DEF ApplyPlanChange
<1> QED  BY <1>4 DEF fits

LEMMA RequestKeeps ==
  ASSUME BillingInv, NEW a \in Actors, NEW todo \in Seq(Effects), Request(a, todo),
         Sound([todo |-> todo, msg |-> NoMail], rows, provider, mishaps)
  PROVE  BillingInv'
<1>1. Start(a, todo, NoMail) /\ events' \in Nat  BY DEF Request, BillingInv, Types
<1>2. NoMail \notin mail  BY IdleFacts DEF BillingInv, Types
<1> QED  BY <1>1, <1>2, StartKeeps

LEMMA RequestsKeep ==
  ASSUME BillingInv, NEW a \in Actors,
         \/ Cancel(a) \/ Pause(a) \/ Resume(a) \/ CancelScheduled(a) \/ \E p \in Plans : ChangePlan(a, p)
  PROVE  BillingInv'
<1>0. Types  BY DEF BillingInv
<1>1. /\ ActiveRow # 0 => ActiveRow \in 1..Len(rows) /\ rows[ActiveRow].status = "ACTIVE"
      /\ CurrentRow # 0 => CurrentRow \in 1..Len(rows)
  BY <1>0, CurrentFacts
<1>2. ASSUME NEW s, Piece(s, NoMail), Request(a, s)
      PROVE  BillingInv'
  <2>1. s \in Seq(Effects)  BY <1>2 DEF Piece
  <2>2. Sound([todo |-> s, msg |-> NoMail], rows, provider, mishaps)  BY <1>2, PieceSound
  <2> QED  BY <1>2, <2>1, <2>2, RequestKeeps
<1>3. CASE Cancel(a)
  <2>1. ActiveRow # 0 /\ Request(a, CancelSubscription(ActiveRow, TRUE)) /\ TRUE \in BOOLEAN  BY <1>3 DEF Cancel
  <2>2. /\ CancelSubscription(ActiveRow, TRUE) \in Seq(Effects)
        /\ Sound([todo |-> CancelSubscription(ActiveRow, TRUE), msg |-> NoMail], rows, provider, mishaps)
    BY <1>0, <1>1, <2>1, CancelIsSound
  <2> QED  BY <2>1, <2>2, RequestKeeps
<1>4. CASE Pause(a)
  <2>1. ActiveRow # 0 /\ Request(a, PauseSubscription(ActiveRow))  BY <1>4 DEF Pause
  <2>2. Piece(PauseSubscription(ActiveRow), NoMail)  BY <1>0, <1>1, <2>1, PauseResumePieces
  <2> QED  BY <1>2, <2>1, <2>2
<1>5. CASE Resume(a)
  <2>1. CurrentRow # 0 /\ Request(a, ResumeSubscription(CurrentRow))  BY <1>5 DEF Resume
  <2>2. Piece(ResumeSubscription(CurrentRow), NoMail)  BY <1>0, <1>1, <2>1, PauseResumePieces
  <2> QED  BY <1>2, <2>1, <2>2
<1>6. CASE CancelScheduled(a)
  <2>1. ActiveRow # 0 /\ Request(a, CancelScheduledChange(ActiveRow))  BY <1>6 DEF CancelScheduled
  <2>2. Piece(CancelScheduledChange(ActiveRow), NoMail)  BY <1>0, <1>1, <2>1, UnschedulePiece
  <2> QED  BY <1>2, <2>1, <2>2
<1>7. ASSUME NEW p \in Plans, ChangePlan(a, p)
      PROVE  BillingInv'
  <2>1. Request(a, ApplyPlanChange(p))  BY <1>7 DEF ChangePlan
  <2>2. /\ ApplyPlanChange(p) \in Seq(Effects)
        /\ Sound([todo |-> ApplyPlanChange(p), msg |-> NoMail], rows, provider, mishaps)
    BY <1>0, <1>7, ApplyPlanIsSound
  <2> QED  BY <2>1, <2>2, RequestKeeps
<1> QED  BY <1>3, <1>4, <1>5, <1>6, <1>7

-------------------------------------------------------------------------------
(* What starts by itself.                                                       *)

LEMMA EnsureKeeps ==
  ASSUME BillingInv, NEW a \in Actors, EnsureSubscription(a)
  PROVE  BillingInv'
<1> DEFINE todo == CreateSubscription(NoSub, 0, now + 1, "ACTIVE")
<1>1. Types /\ now + 1 \in Nat /\ 0 \in Plans /\ NoSub \notin Subs /\ events' \in Nat
  BY StatesFacts, SubsAssumption, BoundsAssumption DEF BillingInv, Types, EnsureSubscription
<1>2. Piece(todo, NoMail)  BY <1>1, CreatePiece
<1>3. Start(a, todo, NoMail)  BY DEF EnsureSubscription
<1> QED  BY <1>1, <1>2, <1>3, PieceStarts

LEMMA PollKeeps ==
  ASSUME BillingInv, NEW a \in Actors, NEW e \in Subs, PollCheckout(a, e)
  PROVE  BillingInv'
<1> DEFINE s == IF provider[e].state = "dead" THEN <<>>
                ELSE CreateSubscription(e, provider[e].plan, provider[e].end, "ACTIVE")
<1>1. /\ Types /\ provider[e].plan \in Plans /\ provider[e].end \in Nat /\ events' \in Nat
      /\ provider[e].state \notin {"none", "open"}
  BY BoundsAssumption DEF BillingInv, Types, Views, PollCheckout
<1>2. Piece(s, NoMail)  BY <1>1, CreatePiece, NoPiece
<1>3. Piece(Settle(e), NoMail)  BY <1>1, PollPieces
<1>4. Start(a, s \o Settle(e), NoMail)  BY DEF PollCheckout
<1> HIDE DEF s
<1>5. Piece(s \o Settle(e), NoMail)  BY <1>2, <1>3, PieceConcat
<1> QED  BY <1>1, <1>4, <1>5, PieceStarts

\* A row that the provider does not go on charging for may end.
LEMMA EndWrite ==
  ASSUME Types, NEW msg, NEW r \in 1..Len(rows), NEW t \in Statuses,
         rows[r].ext # NoSub => ~Firm(provider, mishaps, rows[r].ext)
  PROVE  Piece(Write(r, Ended(t)), msg) /\ Piece(EndNow(r, t), msg)
<1>1. Ended(t) \in Patches /\ r \in 0..Len(rows) /\ r # 0  BY PatchTypes, RowFacts
<1>2. "ext" \in DOMAIN Ended(t)  BY DEF Ended
<1>3. MayWrite(r, Ended(t), msg)  BY <1>1, <1>2 DEF MayWrite
<1>4. Piece(Write(r, Ended(t)), msg)  BY <1>3, WritePiece
<1>5. Piece(Limit(r, 0), msg)
  <2>1. [limits |-> 0] \in Patches  BY PatchTypes, StatesFacts
  <2>2. MayWrite(r, [limits |-> 0], msg)  BY <1>1, <2>1 DEF MayWrite
  <2> QED  BY <2>2, WritePiece DEF Limit
<1>6. Piece(EndNow(r, t), msg)  BY <1>4, <1>5, PieceConcat DEF EndNow
<1> QED  BY <1>4, <1>6

LEMMA EnforceKeeps ==
  ASSUME BillingInv, NEW a \in Actors, NEW r \in DOMAIN rows, EnforceScheduledChange(a, r)
  PROVE  BillingInv'
<1> DEFINE p   == rows[r].change.to
           set == IF p = 0 THEN Ended("EXPIRED") ELSE [plan |-> p, change |-> Unscheduled]
<1>1. /\ Types /\ r \in 1..Len(rows) /\ events' \in Nat /\ rows[r].change # Unscheduled
      /\ Start(a, Write(r, set) \o Limit(r, p), NoMail)
  BY RowFacts DEF BillingInv, Types, EnforceScheduledChange, Scheduled
<1>2. rows[r].change \in [to : Plans, at : Nat]  BY <1>1, RowFacts DEF Changes
<1>3. p \in Plans  BY <1>2
<1>4. (rows[r].ext # NoSub /\ Firm(provider, mishaps, rows[r].ext)) => p # 0  BY <1>1 DEF BillingInv, RowStands
<1> HIDE DEF p
<1>5. Piece(Write(r, set), NoMail) /\ Piece(Limit(r, p), NoMail)
  <2>1. /\ Unscheduled \in Changes /\ Unscheduled.to # 0 /\ "EXPIRED" \in Statuses
        /\ "ACTIVE" \in Statuses \ {"EXPIRED", "DELETED", "CANCELLED"}
    BY StatesFacts DEF Statuses
  <2>2. Piece(Write(r, [plan |-> p, change |-> Unscheduled]), NoMail) /\ Piece(Limit(r, p), NoMail)
    BY <1>1, <1>3, <2>1, PlainWrites DEF Limit
  <2>3. p = 0 => Piece(Write(r, Ended("EXPIRED")), NoMail)  BY <1>1, <1>4, <2>1, EndWrite
  <2> QED  BY <2>2, <2>3
<1> HIDE DEF set
<1>6. Piece(Write(r, set) \o Limit(r, p), NoMail)  BY <1>5, PieceConcat
<1> QED  BY <1>1, <1>6, PieceStarts

-------------------------------------------------------------------------------
(* The user's deletion: every subscription a row names is cancelled before the  *)
(* rows are erased.                                                             *)

LEMMA ListedAll ==
  ASSUME NEW n \in Nat, NEW S \in SUBSET (1..n), NEW listed \in SetToSeqs(S)
  PROVE  /\ listed \in [1..Cardinality(S) -> S] /\ Cardinality(S) \in Nat
         /\ \A r \in S : \E i \in 1..Cardinality(S) : listed[i] = r
<1> DEFINE D == 1..Cardinality(S)
<1>1. IsFiniteSet(S) /\ Cardinality(S) \in Nat
  <2>1. IsFiniteSet(1..n)  BY FS_Interval
  <2>2. IsFiniteSet(S)  BY <2>1, FS_Subset
  <2> QED  BY <2>2, FS_CardinalityType
<1>2. listed \in [D -> S] /\ \A i, j \in D : i # j => listed[i] # listed[j]  BY DEF SetToSeqs
<1>3. Cardinality(D) = Cardinality(S)
  <2>1. 1 \in Int /\ Cardinality(S) \in Int  BY <1>1
  <2>2. Cardinality(D) = IF 1 > Cardinality(S) THEN 0 ELSE Cardinality(S) - 1 + 1  BY <2>1, FS_Interval
  <2> QED  BY <1>1, <2>2
<1> HIDE DEF D
<1>4. listed \in Injection(D, S)  BY <1>2 DEF Injection, IsInjective
<1>5. listed \in Surjection(D, S)  BY <1>1, <1>3, <1>4, FS_Injection
<1>6. \A r \in S : \E i \in D : listed[i] = r  BY <1>5 DEF Surjection
<1> QED  BY <1>1, <1>2, <1>6 DEF D

LEMMA PurgeKeeps ==
  ASSUME BillingInv, NEW a \in Actors, PurgeUser(a)
  PROVE  BillingInv'
<1> DEFINE S == {r \in DOMAIN rows : rows[r].ext # NoSub}
           n == Cardinality(S)
           l == Len(rows)
           x == [do |-> "erase", known |-> l]
<1>0. /\ Types /\ events' \in Nat /\ l \in Nat /\ DOMAIN rows = 1..l /\ S \in SUBSET (1..l)
  BY RowFacts DEF BillingInv, Types, PurgeUser
<1>1. PICK listed \in SetToSeqs(S) :
        Start(a, [i \in DOMAIN listed |-> CallTo("cancelNow", rows[listed[i]].ext, listed[i], 0, "log")] \o <<x>>, NoMail)
  BY DEF PurgeUser
<1>2. listed \in [1..n -> S] /\ n \in Nat /\ \A r \in S : \E i \in 1..n : listed[i] = r
  <2> HIDE DEF S
  <2> QED  BY <1>0, ListedAll
<1> DEFINE c(i)  == CallTo("cancelNow", rows[listed[i]].ext, listed[i], 0, "log")
           calls == [i \in 1..n |-> c(i)]
           u     == calls \o <<x>>
           k     == [todo |-> u, msg |-> NoMail]
<1>3. Start(a, u, NoMail)  BY <1>1, <1>2
<1>4. x.do = "erase" /\ x.known = l /\ x \in Effects  BY <1>0 DEF Effects, Others
<1> HIDE DEF x, n, l
<1>5. ASSUME NEW i \in 1..n
      PROVE  /\ Allowed(c(i), NoMail) /\ (\A q : ~Clears(c(i), q)) /\ c(i) \in Effects
             /\ listed[i] \in S /\ Cancelling(c(i), rows[listed[i]].ext)
  <2>1. listed[i] \in S  BY <1>2
  <2>2. listed[i] \in 0..Len(rows) /\ rows[listed[i]].ext \in Subs /\ 0 \in Plans /\ "cancelNow" \in Ops
    BY <1>0, <2>1, RowFacts, StatesFacts DEF Ops, l
  <2>3. Allowed(c(i), NoMail) /\ (\A q : ~Clears(c(i), q))  BY <1>0, <2>2, CallPiece
  <2>4. c(i) \in Effects  BY <2>3 DEF Allowed
  <2>5. Cancelling(c(i), rows[listed[i]].ext)  BY DEF Cancelling, CallTo
  <2> QED  BY <2>1, <2>3, <2>4, <2>5
<1>6. calls \in Seq(Effects) /\ Len(calls) = n /\ \A i \in 1..n : calls[i] = c(i)
  <2> HIDE DEF c
  <2>1. calls \in [1..n -> Effects]  BY <1>5
  <2> QED  BY <1>2, <2>1
<1> HIDE DEF calls
<1>7. /\ u \in Seq(Effects) /\ Len(u) = n + 1 /\ u[n + 1] = x
      /\ \A i \in 1..n : u[i] = c(i)
      /\ \A i \in 1..Len(u) : i \in 1..n \/ i = n + 1
  <2>1. <<x>> \in Seq(Effects) /\ Len(<<x>>) = 1 /\ <<x>>[1] = x  BY <1>4
  <2>2. /\ u \in Seq(Effects) /\ Len(u) = Len(calls) + Len(<<x>>)
        /\ \A i \in 1..Len(calls) : u[i] = calls[i]
        /\ \A i \in 1..Len(<<x>>) : u[Len(calls) + i] = <<x>>[i]
    BY <1>6, <2>1, ConcatFacts
  <2> HIDE DEF u, c
  <2> QED  BY <1>2, <1>6, <2>1, <2>2
<1> HIDE DEF u, c
<1>8. k.todo = u /\ k.msg = NoMail  OBVIOUS
<1> HIDE DEF k
<1>9. \A q : ~Clears(x, q) /\ ~Dooms(x, q) /\ ~Cancels(x, q) /\ ~Makes(x, q)
  BY <1>4 DEF Clears, Dooms, Cancels, Makes
<1>a. ASSUME NEW i \in 1..n
      PROVE  c(i).do = "call" /\ \A q : ~Dooms(c(i), q) /\ ~Cancels(c(i), q) /\ ~Makes(c(i), q)
  BY DEF c, CallTo, Dooms, Cancels, Makes
<1>10. InPlace(k, rows)
  <2> SUFFICES ASSUME NEW i \in 1..Len(u)
               PROVE  LET y == u[i] IN
                 /\ y.do \in {"write", "call"} => y.row <= Len(rows)
                 /\ y.do \in {"processed", "erase"} => i = Len(u)
                 /\ y.do = "processed" => k.msg # NoMail
                 /\ y.do = "erase" => y.known <= Len(rows)
                 /\ y.do = "call" => (y.onFail = "revert" => k.msg = NoMail)
    BY <1>8 DEF InPlace
  <2>1. CASE i \in 1..n
    <3>1. u[i] = c(i) /\ c(i).do = "call" /\ Allowed(c(i), NoMail)  BY <1>5, <1>7, <1>a, <2>1
    <3> QED  BY <1>8, <3>1 DEF Allowed
  <2>2. CASE i = n + 1
    <3>1. u[i] = x /\ i = Len(u) /\ x.known <= Len(rows)  BY <1>0, <1>4, <1>7, <2>2 DEF l
    <3> QED  BY <1>4, <3>1
  <2> QED  BY <1>7, <2>1, <2>2
<1>11. \A i \in 1..Len(u) : \A q : ~Clears(u[i], q) /\ ~Dooms(u[i], q) /\ ~Cancels(u[i], q) /\ ~Makes(u[i], q)
  BY <1>5, <1>7, <1>9, <1>a
<1>12. /\ OfBorn(k, provider) /\ Careful(k, rows, provider, mishaps) /\ Told(k, rows, provider)
  BY <1>8, <1>11 DEF OfBorn, Careful, Told
<1>13. Purging(k, rows, provider, mishaps)
  <2> SUFFICES ASSUME NEW i \in 1..Len(u), u[i].do = "erase", NEW r \in 1..u[i].known, rows[r].ext # NoSub
               PROVE  \E j \in 1..Len(u) : Cancelling(u[j], rows[r].ext)
    BY <1>8 DEF Purging
  <2>1. i = n + 1  BY <1>7, <1>a
  <2>2. r \in S  BY <1>0, <1>4, <1>7, <2>1
  <2>3. PICK j \in 1..n : listed[j] = r  BY <1>2, <2>2
  <2>4. u[j] = c(j) /\ Cancelling(c(j), rows[r].ext)  BY <1>5, <1>7, <2>3
  <2>5. j \in 1..Len(u)  BY <1>2, <1>7
  <2> QED  BY <2>4, <2>5
<1>14. Sound([todo |-> u, msg |-> NoMail], rows, provider, mishaps)  BY <1>10, <1>12, <1>13 DEF Sound, k
<1>15. NoMail \notin mail  BY IdleFacts DEF BillingInv, Types
<1> QED  BY <1>0, <1>3, <1>7, <1>14, <1>15, StartKeeps

-------------------------------------------------------------------------------
(* Webhooks.                                                                    *)

LEMMA MailFacts ==
  ASSUME BillingInv, NEW m \in mail
  PROVE  /\ Types /\ m # NoMail /\ m.event \in Events /\ m.sub \in Subs /\ m.plan \in Plans /\ m.end \in Nat /\ SaysSo(m)
         /\ m.sub # NoSub /\ m.status \in States /\ now \in Nat
<1>1. m \in Mail /\ SaysSo(m) /\ Types /\ now \in 0..Horizon /\ mail \subseteq Mail  BY DEF BillingInv, Types
<1>2. /\ m.event \in Events /\ m.sub \in Subs /\ m.plan \in Plans /\ m.end \in 0..Horizon + 1 /\ m.status \in States
  BY <1>1 DEF Mail
<1>3. m.end \in Nat /\ now \in Nat  BY <1>1, <1>2, BoundsAssumption
<1>4. m # NoMail  BY <1>1, IdleFacts
<1>5. m.sub # NoSub  BY <1>2, SubsAssumption
<1> QED  BY <1>1, <1>2, <1>3, <1>4, <1>5

\* subscription_updated: only a subscription that ends is written as cancelled.
LEMMA UpdatePieces ==
  ASSUME BillingInv, NEW m \in mail, NEW r \in 1..Len(rows), rows[r].ext = m.sub, m.event = "updated"
  PROVE  Piece(ApplyUpdate(r, m), m) /\ Piece(SubscriptionUpdated(r, m), m)
<1> DEFINE s == StatusOf(m)
<1>0. /\ Types /\ m # NoMail /\ m.plan \in Plans /\ m.end \in Nat /\ m.status \in {"active", "ending"}
      /\ r \in 0..Len(rows) /\ r # 0
  BY MailFacts, RowFacts DEF SaysSo
<1>1. /\ s \in {"ACTIVE", "CANCELLED"}
      /\ s = "CANCELLED" => m.status = "ending"
  BY <1>0 DEF StatusOf
<1>2. s \in Statuses \ {"EXPIRED", "DELETED"}  BY <1>1 DEF Statuses
<1> HIDE DEF s
<1>3. Unscheduled \in Changes /\ Unscheduled.to # 0  BY StatesFacts
<1>4. Piece(Write(r, [status |-> s, end |-> m.end]), m)
  <2>1. [status |-> s, end |-> m.end] \in Patches  BY <1>0, <1>2, PatchTypes
  <2>2. MayWrite(r, [status |-> s, end |-> m.end], m)  BY <1>0, <1>1, <2>1 DEF MayWrite
  <2> QED  BY <1>0, <2>2, WritePiece
<1>5. Piece(Write(r, [status |-> s, end |-> m.end, plan |-> m.plan, change |-> Unscheduled]), m)
  <2> DEFINE set == [status |-> s, end |-> m.end, plan |-> m.plan, change |-> Unscheduled]
  <2>1. set \in Patches  BY <1>0, <1>2, <1>3, PatchTypes
  <2>2. set.status = s /\ set.change = Unscheduled /\ "ext" \notin DOMAIN set  OBVIOUS
  <2> HIDE DEF set
  <2>3. MayWrite(r, set, m)  BY <1>0, <1>1, <1>3, <2>1, <2>2 DEF MayWrite
  <2> QED  BY <1>0, <2>3, WritePiece DEF set
<1>6. Piece(Limit(r, m.plan), m) /\ Piece(Write(r, [end |-> m.end]), m)
  <2>1. "ACTIVE" \in Statuses \ {"EXPIRED", "DELETED", "CANCELLED"}  BY DEF Statuses
  <2> QED  BY <1>0, <1>3, <2>1, PlainWrites DEF Limit
<1>7. Piece(ApplyUpdate(r, m), m)
  <2>1. Piece(Limit(r, m.plan) \o Write(r, [status |-> s, end |-> m.end, plan |-> m.plan, change |-> Unscheduled]), m)
    BY <1>5, <1>6, PieceConcat
  <2> QED  BY <1>4, <2>1 DEF ApplyUpdate, s
<1> QED  BY <1>6, <1>7 DEF SubscriptionUpdated

\* The news that a subscription ends.
LEMMA EndPieces ==
  ASSUME BillingInv, NEW m \in mail, NEW r \in 1..Len(rows), rows[r].ext = m.sub, m.event \in {"cancelled", "expired"}
  PROVE  /\ Piece(ScheduleEnd(r, m), m) /\ Piece(SubscriptionCancelled(r, m), m)
         /\ \A t \in Statuses : Piece(EndNow(r, t), m)
<1>0. /\ Types /\ m # NoMail /\ m.end \in Nat /\ m.status \in {"ending", "dead"} /\ r \in 0..Len(rows) /\ r # 0
      /\ SaysSo(m)
  BY MailFacts, RowFacts DEF SaysSo
<1>1. ~Firm(provider, mishaps, rows[r].ext)  BY <1>0 DEF SaysSo, Withdrawn, Firm
<1>2. \A t \in Statuses : Piece(EndNow(r, t), m)  BY <1>0, <1>1, EndWrite
<1>3. Piece(Write(r, [change |-> [to |-> 0, at |-> m.end]]), m)
  <2> DEFINE c == [to |-> 0, at |-> m.end]
  <2>1. c \in Changes  BY <1>0, StatesFacts
  <2> HIDE DEF c
  <2>2. [change |-> c] \in Patches  BY <2>1, PatchTypes
  <2>3. MayWrite(r, [change |-> c], m)  BY <1>0, <1>1, <2>2 DEF MayWrite
  <2> QED  BY <1>0, <2>3, WritePiece DEF c
<1>4. "CANCELLED" \in Statuses  BY DEF Statuses
<1>5. Piece(ScheduleEnd(r, m), m)  BY <1>2, <1>3, <1>4 DEF ScheduleEnd
<1> QED  BY <1>2, <1>5, NoPiece DEF SubscriptionCancelled

\* The news of a new subscription make it a row, unless it has one.
LEMMA CreationFacts ==
  ASSUME BillingInv, NEW m \in mail, m.event \in {"created", "activated", "charged"}
  PROVE  /\ Piece(SubscriptionCreated(m), m) /\ StatusOf(m) = "ACTIVE"
         /\ Piece(CreateSubscription(m.sub, m.plan, m.end, "ACTIVE"), m)
         /\ HasRow(m.sub) \/ \E i \in 1..Len(SubscriptionCreated(m)) : Makes(SubscriptionCreated(m)[i], m.sub)
<1>1. /\ Types /\ m.sub \in Subs /\ m.sub # NoSub /\ m.plan \in Plans /\ m.end \in Nat
      /\ m.status = "active" /\ provider[m.sub].state \notin {"none", "open"}
  BY MailFacts DEF SaysSo
<1>2. StatusOf(m) = "ACTIVE"  BY <1>1 DEF StatusOf
<1>3. SubscriptionCreated(m) = CreateSubscription(m.sub, m.plan, m.end, "ACTIVE")  BY <1>2 DEF SubscriptionCreated
<1>4. /\ Piece(CreateSubscription(m.sub, m.plan, m.end, "ACTIVE"), m)
      /\ m.sub = NoSub \/ HasRow(m.sub)
         \/ \E i \in 1..Len(CreateSubscription(m.sub, m.plan, m.end, "ACTIVE")) :
              Makes(CreateSubscription(m.sub, m.plan, m.end, "ACTIVE")[i], m.sub)
  BY <1>1, CreatePiece
<1> QED  BY <1>1, <1>2, <1>3, <1>4

LEMMA HandlingPiece ==
  ASSUME BillingInv, NEW m \in mail
  PROVE  Piece(Handling(m), m)
<1> DEFINE r == RowOf(m.sub)
<1>0. /\ Types /\ m # NoMail /\ m.event \in Events /\ m.sub \in Subs /\ m.plan \in Plans /\ m.end \in Nat /\ m.sub # NoSub
  BY MailFacts
<1>1. r # 0 => r \in 1..Len(rows) /\ rows[r].ext = m.sub  BY <1>0, RowOfFacts
<1> HIDE DEF r
<1>2. Piece(<<>>, m)  BY NoPiece
<1>3. Piece(Settle(m.sub), m)  BY <1>0, PollPieces
<1>4. CASE m.event = "created"  BY <1>4, CreationFacts DEF Handling
<1>5. CASE m.event = "updated"
  <2>1. r # 0 => Piece(ApplyUpdate(r, m), m) /\ Piece(SubscriptionUpdated(r, m), m)  BY <1>1, <1>5, UpdatePieces
  <2> QED  BY <1>2, <1>5, <2>1 DEF Handling, r
<1>6. CASE m.event = "cancelled"
  <2>1. r # 0 => Piece(ScheduleEnd(r, m), m) /\ Piece(SubscriptionCancelled(r, m), m)  BY <1>1, <1>6, EndPieces
  <2> QED  BY <1>2, <1>6, <2>1 DEF Handling, r
<1>7. CASE m.event = "expired"
  <2>1. r # 0 => Piece(EndNow(r, "EXPIRED"), m)
    <3>1. "EXPIRED" \in Statuses  BY DEF Statuses
    <3> QED  BY <1>1, <1>7, <3>1, EndPieces
  <2> QED  BY <1>2, <1>7, <2>1 DEF Handling, r
<1>8. ASSUME r # 0, NEW s \in {"ACTIVE", "PAUSED", "PAST_DUE"}
      PROVE  Piece(Write(r, [status |-> s]), m) /\ Piece(Write(r, [end |-> m.end]), m)
  <2>1. s \in Statuses \ {"EXPIRED", "DELETED", "CANCELLED"} /\ Unscheduled \in Changes /\ Unscheduled.to # 0
    BY <1>8, StatesFacts DEF Statuses
  <2> QED  BY <1>0, <1>1, <1>8, <2>1, PlainWrites
<1>9. CASE m.event \in {"resumed", "paused", "failed"}
  <2>1. r # 0 => /\ Piece(SubscriptionResumed(r), m) /\ Piece(SubscriptionPaused(r), m) /\ Piece(PaymentFailed(r), m)
    BY <1>8 DEF SubscriptionResumed, SubscriptionPaused, PaymentFailed
  <2> QED  BY <1>2, <1>9, <2>1 DEF Handling, r
<1>10. CASE m.event = "activated"
  <2>1. Piece(SubscriptionCreated(m), m)  BY <1>10, CreationFacts
  <2>2. Piece(SubscriptionCreated(m) \o Settle(m.sub), m)  BY <1>3, <2>1, PieceConcat
  <2>3. Handling(m) = RazorpaySubscriptionActivated(m)  BY <1>10 DEF Handling
  <2> QED  BY <2>2, <2>3 DEF RazorpaySubscriptionActivated
<1>11. CASE m.event = "charged"
  <2> DEFINE c == CreateSubscription(m.sub, m.plan, m.end, "ACTIVE")
             s == IF r # 0 THEN <<>> ELSE c \o Settle(m.sub)
  <2>1. Piece(c, m)  BY <1>11, CreationFacts
  <2> HIDE DEF c
  <2>2. Piece(c \o Settle(m.sub), m)  BY <1>3, <2>1, PieceConcat
  <2>3. Piece(s, m)  BY <1>2, <2>2
  <2>4. Piece(Write(r, [end |-> m.end]), m)  BY <1>0, <1>8, NewRowWrite
  <2>5. Handling(m) = RazorpaySubscriptionCharged(m)  BY <1>11 DEF Handling
  <2>6. Handling(m) = s \o Write(r, [end |-> m.end])  BY <2>5 DEF RazorpaySubscriptionCharged, s, c, r
  <2> HIDE DEF s
  <2> QED  BY <2>3, <2>4, <2>6, PieceConcat
<1> QED  BY <1>0, <1>4, <1>5, <1>6, <1>7, <1>9, <1>10, <1>11 DEF Events

\* The end of a subscription clears its row.
LEMMA EndIsHandled ==
  ASSUME BillingInv, NEW m \in mail, NEW r \in 1..Len(rows), rows[r].ext # NoSub, Final(m, rows[r].ext)
  PROVE  \E i \in 1..Len(Handling(m)) : Clears(Handling(m)[i], r)
<1>0. /\ Types /\ RowsAreUnique /\ m.sub = rows[r].ext /\ m.status = "dead" /\ SaysSo(m)
      /\ m.event = (IF gateway = "razorpay" THEN "cancelled" ELSE "expired")
      /\ m.end \in Nat /\ now \in Nat /\ m.end <= now
  BY MailFacts DEF Final, SaysSo, BillingInv
<1>1. RowOf(m.sub) = r /\ r # 0
  <2>1. RowOf(m.sub) \in 1..Len(rows) /\ rows[RowOf(m.sub)].ext = m.sub  BY <1>0, RowOfIs
  <2> QED  BY <1>0, <2>1, RowFacts DEF RowsAreUnique
<1>2. ASSUME NEW t \in Statuses
      PROVE  \E i \in 1..Len(EndNow(r, t)) : Clears(EndNow(r, t)[i], r)
  <2> DEFINE w == [do |-> "write", row |-> r, set |-> Ended(t), skip |-> FALSE]
             s == <<w>>
             u == Limit(r, 0)
  <2>1. Clears(w, r)  BY DEF Clears, Ended
  <2>2. w \in Effects
    <3>1. Ended(t) \in Patches /\ r \in Nat  BY <1>0, PatchTypes, RowFacts
    <3>2. w \in [do : {"write"}, row : Nat, set : Patches, skip : BOOLEAN]  BY <3>1
    <3>3. w.row # 0 /\ w.skip = FALSE  BY <1>1
    <3> QED  BY <3>2, <3>3 DEF Effects, Writes
  <2>3. EndNow(r, t) = s \o u  BY DEF EndNow, Write
  <2> HIDE DEF w
  <2>4. s \in Seq(Effects) /\ Len(s) = 1 /\ s[1] = w  BY <2>2
  <2>5. u \in Seq(Effects)
    <3>1. "ACTIVE" \in Statuses \ {"EXPIRED", "DELETED", "CANCELLED"} /\ Unscheduled \in Changes /\ Unscheduled.to # 0
          /\ 0 \in Plans /\ 0 \in Nat
      BY StatesFacts DEF Statuses
    <3>2. Piece(u, NoMail)  BY <1>0, <3>1, PlainWrites DEF Limit
    <3> QED  BY <3>2 DEF Piece
  <2> HIDE DEF s, u
  <2>6. /\ Len(s \o u) = Len(s) + Len(u) /\ Len(u) \in Nat /\ \A i \in 1..Len(s) : (s \o u)[i] = s[i]
    BY <2>4, <2>5, ConcatFacts
  <2>7. 1 \in 1..Len(s \o u) /\ (s \o u)[1] = w  BY <2>4, <2>6
  <2> QED  BY <2>1, <2>3, <2>7
<1>3. "CANCELLED" \in Statuses /\ "EXPIRED" \in Statuses  BY DEF Statuses
<1>4. CASE gateway = "razorpay"
  <2>1. Handling(m) = ScheduleEnd(r, m)  BY <1>0, <1>1, <1>4 DEF Handling
  <2>2. ScheduleEnd(r, m) = EndNow(r, "CANCELLED")  BY <1>0 DEF ScheduleEnd
  <2> QED  BY <1>2, <1>3, <2>1, <2>2
<1>5. CASE gateway # "razorpay"
  <2>1. Handling(m) = EndNow(r, "EXPIRED")  BY <1>0, <1>1, <1>5 DEF Handling
  <2> QED  BY <1>2, <1>3, <2>1
<1> QED  BY <1>4, <1>5

\* The news that a subscription was paid make it a row.
LEMMA BirthIsHandled ==
  ASSUME BillingInv, NEW m \in mail, NEW e \in Subs, Welcome(m, e)
  PROVE  HasRow(e) \/ \E i \in 1..Len(Handling(m)) : Makes(Handling(m)[i], e)
<1>0. m.sub = e /\ m.event \in {"created", "activated"} /\ Types  BY MailFacts DEF Welcome
<1> DEFINE s == SubscriptionCreated(m)
<1>1. Piece(s, m) /\ (HasRow(e) \/ \E i \in 1..Len(s) : Makes(s[i], e))  BY <1>0, CreationFacts
<1>2. CASE m.event = "created"  BY <1>1, <1>2 DEF Handling
<1>3. CASE m.event = "activated"
  <2>1. Handling(m) = s \o Settle(m.sub)  BY <1>3 DEF Handling, RazorpaySubscriptionActivated
  <2>2. Piece(Settle(m.sub), m)  BY <1>0, PollPieces
  <2> DEFINE t == Settle(m.sub)
  <2> HIDE DEF s, t
  <2>3. s \in Seq(Effects) /\ t \in Seq(Effects)  BY <1>1, <2>2 DEF Piece, t
  <2>4. Len(s \o t) = Len(s) + Len(t) /\ Len(s) \in Nat /\ Len(t) \in Nat /\ \A i \in 1..Len(s) : (s \o t)[i] = s[i]
    BY <2>3, ConcatFacts
  <2>5. ASSUME NEW i \in 1..Len(s), Makes(s[i], e)
        PROVE  \E j \in 1..Len(s \o t) : Makes((s \o t)[j], e)
    <3>1. i \in 1..Len(s \o t) /\ (s \o t)[i] = s[i]  BY <2>4
    <3> QED  BY <2>5, <3>1
  <2> QED  BY <1>1, <2>1, <2>5 DEF t
<1> QED  BY <1>0, <1>2, <1>3

LEMMA WebhookKeeps ==
  ASSUME BillingInv, NEW a \in Actors, NEW m \in mail, Webhook(a, m)
  PROVE  BillingInv'
<1> DEFINE seen == gateway = "razorpay" /\ DedupeKey(m) \in log
           s    == IF seen THEN <<>> ELSE Handling(m)
           todo == s \o <<[do |-> "processed"]>>
<1>0. Types /\ m # NoMail /\ m.sub \in Subs /\ DedupeIsSafe /\ events' \in Nat
  BY MailFacts DEF BillingInv, Webhook, Types
<1>1. Start(a, todo, m) /\ \A b \in Actors : job[b].msg # m  BY DEF Webhook
<1>2. Piece(s, m)  BY HandlingPiece, NoPiece
<1>3. seen => /\ m.event # "activated" /\ m.event # "cancelled"
              /\ gateway = "razorpay"
  BY <1>0 DEF DedupeIsSafe, SaidOnce, DedupeKey
<1>4. ASSUME NEW e \in Subs, Welcome(m, e)
      PROVE  HasRow(e) \/ \E i \in 1..Len(s) : Makes(s[i], e)
  <2>1. ~seen
    <3>1. m.event \in {"created", "activated"} /\ (gateway = "razorpay" => m.event # "created")
      BY <1>4, MailFacts DEF Welcome, SaysSo
    <3> QED  BY <1>3, <3>1
  <2> QED  BY <1>4, <2>1, BirthIsHandled
<1>5. ASSUME NEW r \in 1..Len(rows), rows[r].ext # NoSub, Final(m, rows[r].ext)
      PROVE  \E i \in 1..Len(s) : Clears(s[i], r)
  <2>1. ~seen  BY <1>3, <1>5 DEF Final
  <2> QED  BY <1>5, <2>1, EndIsHandled
<1> HIDE DEF s
<1>6. /\ todo \in Seq(Effects) /\ Sound([todo |-> todo, msg |-> m], rows, provider, mishaps)
      /\ \A i \in 1..Len(s) : i \in 1..Len(todo) /\ todo[i] = s[i]
  BY <1>0, <1>2, PieceProcessed
<1> HIDE DEF todo
<1>7. \A e \in Subs : (m \in mail /\ Welcome(m, e)) => HasRow(e) \/ \E i \in 1..Len(todo) : Makes(todo[i], e)
  BY <1>4, <1>6
<1>8. \A r \in 1..Len(rows) : (m \in mail /\ rows[r].ext # NoSub /\ Final(m, rows[r].ext)) =>
                                \E i \in 1..Len(todo) : Clears(todo[i], r)
  BY <1>5, <1>6
<1> QED  BY <1>0, <1>1, <1>6, <1>7, <1>8, StartKeeps

-------------------------------------------------------------------------------
(* The invariant.                                                               *)

LEMMA BillingInit == Init => BillingInv
<1> SUFFICES ASSUME Init PROVE BillingInv  OBVIOUS
<1>1. PICK s \in Starts :
       /\ rows = <<Updated(FreeRow(1), IF s.served = NoSub THEN [limits |-> 0]
                                       ELSE [limits |-> 1, plan |-> 1, ext |-> s.served])>>
       /\ provider = [e \in Subs |->
            [plan  |-> IF e \in s.opened \union {s.served} THEN 1 ELSE 0,
             end   |-> IF e = s.served THEN 1 ELSE 0,
             state |-> IF e = s.served THEN "active" ELSE IF e \in s.opened THEN "open" ELSE "none"]]
       /\ pending = (IF gateway = "razorpay" THEN s.opened ELSE {})
       /\ log = (IF gateway = "razorpay" THEN {"activated", "charged"} \X ({s.served} \cap Subs) ELSE {})
  BY DEF Init
<1>2. /\ gateway \in Gateways /\ account = "open" /\ mail = {} /\ job = [a \in Actors |-> Idle]
      /\ now = 0 /\ events = 0 /\ mishaps = {}
  BY DEF Init
<1>3. s.opened \in SUBSET Subs /\ s.served \in Subs \union {NoSub}  BY SubsAssumption
<1> DEFINE set == IF s.served = NoSub THEN [limits |-> 0] ELSE [limits |-> 1, plan |-> 1, ext |-> s.served]
           row == Updated(FreeRow(1), set)
<1>4. /\ row \in Row /\ row.ext = s.served /\ row.status = "ACTIVE" /\ row.change = Unscheduled
  <2>1. FreeRow(1) \in Row /\ DOMAIN FreeRow(1) = Columns  BY FreeRowFacts DEF Statuses
  <2>2. row = [column \in Columns |-> IF column \in DOMAIN set THEN set[column] ELSE FreeRow(1)[column]]
    BY <2>1 DEF Updated
  <2>3. CASE s.served = NoSub
    <3>1. /\ row.status = "ACTIVE" /\ row.plan = 0 /\ row.limits = 0 /\ row.ext = NoSub
          /\ row.change = Unscheduled /\ row.end = 1
      BY <2>2, <2>3 DEF FreeRow, Columns
    <3>2. row = [status |-> "ACTIVE", plan |-> 0, limits |-> 0, ext |-> NoSub, change |-> Unscheduled, end |-> 1]
      <4> HIDE DEF set
      <4> QED  BY <2>2, <3>1 DEF Columns
    <3>3. row \in Row  BY <3>2, StatesFacts DEF Row, Statuses
    <3> QED  BY <2>3, <3>1, <3>3
  <2>4. CASE s.served # NoSub
    <3>1. /\ row.status = "ACTIVE" /\ row.plan = 1 /\ row.limits = 1 /\ row.ext = s.served
          /\ row.change = Unscheduled /\ row.end = 1
      BY <2>2, <2>4 DEF FreeRow, Columns
    <3>2. row = [status |-> "ACTIVE", plan |-> 1, limits |-> 1, ext |-> s.served, change |-> Unscheduled, end |-> 1]
      <4> HIDE DEF set
      <4> QED  BY <2>2, <3>1 DEF Columns
    <3>3. row \in Row  BY <1>3, <3>2, StatesFacts DEF Row, Statuses
    <3> QED  BY <2>4, <3>1, <3>3
  <2> QED  BY <2>3, <2>4
<1>5. rows = <<row>>  BY <1>1
<1> HIDE DEF row
<1>6. rows \in Seq(Row) /\ Len(rows) = 1 /\ rows[1] = row /\ \A r \in 1..Len(rows) : r = 1  BY <1>4, <1>5
<1>7. \A e \in Subs : /\ provider[e].state = IF e = s.served THEN "active" ELSE IF e \in s.opened THEN "open" ELSE "none"
                      /\ e # s.served => provider[e].state \in {"none", "open"}
  BY <1>1
<1>8. provider \in [Subs -> Views]
  <2>1. ASSUME NEW e \in Subs PROVE provider[e] \in Views
    <3>1. provider[e] = [plan  |-> IF e \in s.opened \union {s.served} THEN 1 ELSE 0,
             end   |-> IF e = s.served THEN 1 ELSE 0,
             state |-> IF e = s.served THEN "active" ELSE IF e \in s.opened THEN "open" ELSE "none"]
      BY <1>1
    <3>2. 0 \in 0..Horizon + 1 /\ 1 \in 0..Horizon + 1  BY BoundsAssumption
    <3> QED  BY <3>1, <3>2, StatesFacts DEF Views, States
  <2>2. provider = [e \in Subs |-> provider[e]]  BY <1>1
  <2> QED  BY <2>1, <2>2
<1>9. Types
  <2>1. job \in [Actors -> Handlers] /\ pending \subseteq Subs /\ now \in 0..Horizon /\ events \in Nat
    BY <1>1, <1>2, <1>3, IdleFacts, BoundsAssumption
  <2> QED  BY <1>2, <1>6, <1>8, <2>1 DEF Types
<1>10. RowsAreUnique /\ EndedIsCleared  BY <1>4, <1>6 DEF RowsAreUnique, EndedIsCleared
<1>11. \A a \in Actors : Kept(a) /\ Sound(job[a], rows, provider, mishaps)  BY <1>2, IdleFacts DEF Kept
<1>12. DedupeIsSafe
  <2>1. \A e \in Subs : SaidOnce(e, "cancelled") /\ SaidOnce(e, "activated")  BY <1>2 DEF SaidOnce
  <2>2. ASSUME NEW e \in Subs, gateway = "razorpay"
        PROVE  /\ <<"cancelled", e>> \in log => provider[e].state = "dead"
               /\ <<"activated", e>> \in log => provider[e].state \notin {"none", "open"}
    <3>1. log = {"activated", "charged"} \X ({s.served} \cap Subs)  BY <1>1, <2>2
    <3>2. <<"cancelled", e>> \notin log  BY <3>1
    <3>3. <<"activated", e>> \in log => e = s.served  BY <3>1
    <3> QED  BY <1>7, <3>2, <3>3
  <2> QED  BY <2>1, <2>2 DEF DedupeIsSafe
<1>13. \A e \in Subs : Unborn(e) /\ Covered(e)
  <2> SUFFICES ASSUME NEW e \in Subs PROVE Unborn(e) /\ Covered(e)  OBVIOUS
  <2>1. HasRow(e) <=> e = s.served  BY <1>4, <1>6 DEF HasRow
  <2> QED  BY <1>7, <2>1 DEF Unborn, Covered, Paying
<1>14. \A r \in 1..Len(rows) : RowStands(r) /\ EndIsNews(r)
  <2>1. row.change.to # 0  BY <1>4, StatesFacts
  <2>2. row.ext # NoSub => provider[row.ext].state = "active"  BY <1>3, <1>4, <1>7
  <2> QED  BY <1>4, <1>6, <2>1, <2>2 DEF RowStands, EndIsNews, Dead
<1>15. ErasedIsPurged /\ \A m \in mail : SaysSo(m)  BY <1>2 DEF ErasedIsPurged
<1> QED  BY <1>9, <1>10, <1>11, <1>12, <1>13, <1>14, <1>15 DEF BillingInv

LEMMA BillingStutter == BillingInv /\ UNCHANGED vars => BillingInv'
<1> SUFFICES ASSUME BillingInv, UNCHANGED vars PROVE BillingInv'  OBVIOUS
<1>1. /\ gateway' = gateway /\ rows' = rows /\ account' = account /\ pending' = pending /\ provider' = provider
      /\ mail' = mail /\ log' = log /\ job' = job /\ now' = now /\ events' = events /\ mishaps' = mishaps
  BY DEF vars
<1>2. Types' /\ RowsAreUnique' /\ EndedIsCleared' /\ DedupeIsSafe' /\ ErasedIsPurged'
  BY <1>1 DEF BillingInv, Types, RowsAreUnique, EndedIsCleared, DedupeIsSafe, SaidOnce, ErasedIsPurged
<1>3. (\A b \in Actors : Kept(b)') /\ (\A m \in mail' : SaysSo(m)') /\ (\A e \in Subs : Unborn(e)')
  BY <1>1 DEF BillingInv, Kept, SaysSo, Withdrawn, Unborn, HasRow
<1>4. \A b \in Actors : Sound(job[b], rows, provider, mishaps)'  BY <1>1 DEF BillingInv
<1>5. \A r \in 1..Len(rows') : RowStands(r)' /\ EndIsNews(r)'
  BY <1>1 DEF BillingInv, RowStands, EndIsNews, Final
<1>6. \A e \in Subs : Covered(e)'  BY <1>1 DEF BillingInv, Covered, Paying, HasRow
<1> QED  BY <1>2, <1>3, <1>4, <1>5, <1>6 DEF BillingInv

LEMMA BillingStep == BillingInv /\ [Next]_vars => BillingInv'
<1> SUFFICES ASSUME BillingInv, [Next]_vars PROVE BillingInv'  OBVIOUS
<1>1. ASSUME NEW a \in Actors,
             EnsureSubscription(a) \/ PurgeUser(a) \/ Stop(a)
      PROVE  BillingInv'
  BY <1>1, EnsureKeeps, PurgeKeeps, StopKeeps
<1>2. ASSUME NEW a \in Actors,
             Cancel(a) \/ Pause(a) \/ Resume(a) \/ CancelScheduled(a) \/ \E p \in Plans : ChangePlan(a, p)
      PROVE  BillingInv'
  BY <1>2, RequestsKeep
<1>3. ASSUME NEW a \in Actors, NEW m \in mail, Webhook(a, m)
      PROVE  BillingInv'
  BY <1>3, WebhookKeeps
<1>4. ASSUME NEW a \in Actors, NEW e \in Subs, PollCheckout(a, e)
      PROVE  BillingInv'
  BY <1>4, PollKeeps
<1>5. ASSUME NEW a \in Actors, NEW r \in DOMAIN rows, EnforceScheduledChange(a, r)
      PROVE  BillingInv'
  BY <1>5, EnforceKeeps
<1>6. ASSUME NEW a \in Actors, Effect(a)
      PROVE  BillingInv'
  BY <1>6, WriteRowKeeps, CreateRowKeeps, BookkeepKeeps, CallKeeps, ProcessedKeeps DEF Effect
<1>7. ASSUME NEW e \in Subs, NEW op \in {"pay", "cancelAtEnd", "uncancel", "decline", "recover"}, AtProvider(op, e)
      PROVE  BillingInv'
  BY <1>7, AtProviderKeeps
<1>8. CASE DeleteAccount  BY <1>8, DeleteAccountKeeps
<1>9. CASE Boundary  BY <1>9, BoundaryKeeps
<1>10. CASE UNCHANGED vars  BY <1>10, BillingStutter
<1> QED  BY <1>1, <1>2, <1>3, <1>4, <1>5, <1>6, <1>7, <1>8, <1>9, <1>10 DEF Next

\* In every state that the handlers, the provider and the user reach.
LEMMA BillingInvariant == Spec => []BillingInv
<1> QED  BY BillingInit, BillingStep, PTL DEF Spec

-------------------------------------------------------------------------------
(* What follows.                                                                *)

LEMMA TypesAreOK == (Types /\ RowsAreUnique) => TypeOK
<1> SUFFICES ASSUME Types, RowsAreUnique PROVE TypeOK  OBVIOUS
<1>1. DOMAIN rows = 1..Len(rows)  BY RowFacts
<1>2. ASSUME NEW r \in DOMAIN rows
      PROVE  /\ rows[r].status \in Statuses
             /\ rows[r].plan \in Plans /\ rows[r].limits \in Plans \union {-1}
             /\ rows[r].ext \in Subs \union {NoSub}
             /\ rows[r].change = Unscheduled \/ rows[r].change \in [to : Plans, at : Nat]
             /\ rows[r].ext # NoSub => \A q \in DOMAIN rows \ {r} : rows[q].ext # rows[r].ext
  <2>1. rows[r] \in Row  BY <1>1, RowFacts
  <2>2. rows[r].ext # NoSub => \A q \in DOMAIN rows \ {r} : rows[q].ext # rows[r].ext
    BY <1>1 DEF RowsAreUnique
  <2>3. rows[r].change \in Changes  BY <2>1 DEF Row
  <2> QED  BY <2>1, <2>2, <2>3 DEF Row, Changes
<1>3. provider \in [Subs -> [state : States, plan : Plans, end : 0..Horizon + 1]]  BY DEF Types, Views
<1>4. \A m \in mail : m.sub \in Subs /\ m.status \in States  BY DEF Types, Mail
<1>5. DOMAIN job = Actors /\ gateway \in Gateways /\ account \in {"open", "deleted", "purged"} /\ pending \subseteq Subs
  BY DEF Types
<1> QED  BY <1>2, <1>3, <1>4, <1>5 DEF TypeOK

\* Who the provider charges has a row, an excuse, a cancellation next or a first webhook on its way.
LEMMA CoveredIsKnown == BillingInv => NoUnknownCharge
<1> SUFFICES ASSUME BillingInv, NEW e \in Subs, Paying(e), RowOf(e) = 0, ~InHand(e),
                    {"slipped", "withdrawn", "erased"} \X {e} \cap mishaps = {}
             PROVE  \E m \in mail : m.sub = e /\ m.event \in {"created", "activated"}
  BY DEF NoUnknownCharge
<1>1. ~HasRow(e)  BY RowOfNone DEF BillingInv
<1>2. ~Excused(mishaps, e)
  <2>1. \A kind \in {"slipped", "withdrawn", "erased"} : <<kind, e>> \in {"slipped", "withdrawn", "erased"} \X {e}
    OBVIOUS
  <2> QED  BY <2>1 DEF Excused
<1>3. \A a \in Actors : ~Leaving(job[a], e)
  <2> SUFFICES ASSUME NEW a \in Actors, Leaving(job[a], e) PROVE InHand(e)  OBVIOUS
  <2>1. job[a].todo \in Seq(Effects)  BY DEF BillingInv, Types, Handlers
  <2>2. 1 \in DOMAIN job[a].todo  BY <2>1 DEF Leaving
  <2> QED  BY <2>2 DEF Leaving, Cancelling, InHand, Todo
<1>4. Covered(e)  BY DEF BillingInv
<1> QED  BY <1>1, <1>2, <1>3, <1>4 DEF Covered, Welcome

LEMMA EndIsKnown == BillingInv => EndedIsNotServed
<1> SUFFICES ASSUME BillingInv, NEW r \in DOMAIN rows, rows[r].ext # NoSub, provider[rows[r].ext].state = "dead"
             PROVE  \/ <<"overtaken", rows[r].ext>> \in mishaps
                    \/ \E m \in mail : m.sub = rows[r].ext /\ m.event \in {"cancelled", "expired"}
  BY DEF EndedIsNotServed
<1>1. r \in 1..Len(rows)  BY RowFacts DEF BillingInv
<1>2. EndIsNews(r)  BY <1>1 DEF BillingInv
<1> QED  BY <1>2 DEF EndIsNews, Dead, Final

LEMMA PayingIsServed == BillingInv => PaidIsServed
<1> SUFFICES ASSUME BillingInv, Quiet, account = "open", NEW e \in Subs, provider[e].state = "active",
                    {"slipped", "withdrawn"} \X {e} \cap mishaps = {}
             PROVE  Served(e)
  BY DEF PaidIsServed
<1>1. Types /\ EndedIsCleared /\ ErasedIsPurged /\ Covered(e)  BY DEF BillingInv
<1>2. <<"slipped", e>> \notin mishaps /\ <<"withdrawn", e>> \notin mishaps
  <2>1. \A kind \in {"slipped", "withdrawn"} : <<kind, e>> \in {"slipped", "withdrawn"} \X {e}  OBVIOUS
  <2> QED  BY <2>1
<1>3. <<"erased", e>> \notin mishaps  BY <1>1 DEF ErasedIsPurged
<1>4. HasRow(e)
  <2>1. mail = {} /\ \A a \in Actors : ~Leaving(job[a], e)  BY IdleFacts DEF Quiet, Leaving
  <2>2. Paying(e)  BY DEF Paying
  <2> QED  BY <1>1, <1>2, <1>3, <2>1, <2>2 DEF Covered, Excused
<1>5. PICK q \in 1..Len(rows) : rows[q].ext = e  BY <1>4 DEF HasRow
<1> DEFINE r == RowOf(e)
<1>6. r \in 1..Len(rows) /\ rows[r].ext = e /\ r # 0  BY <1>1, <1>5, RowOfIs
<1> HIDE DEF r
<1>7. e # NoSub  BY SubsAssumption
<1>8. RowStands(r)  BY <1>6 DEF BillingInv
<1>9. rows[r].status # "CANCELLED"  BY <1>2, <1>6, <1>7, <1>8 DEF RowStands, Firm
<1>10. rows[r].status \notin {"EXPIRED", "DELETED"}  BY <1>1, <1>6, <1>7 DEF EndedIsCleared
<1>11. rows[r].status \in Statuses  BY <1>1, <1>6, RowFacts
<1> QED  BY <1>6, <1>9, <1>10, <1>11 DEF Served, Statuses, r

\* The rows, the provider's view and the webhooks are always well formed, and no two
\* rows name the same provider subscription, though two handlers may create a row for
\* it at once (createSubscription, the polling of checkouts).
THEOREM BillingTypeCorrect == Spec => []TypeOK
<1>1. BillingInv => TypeOK  BY TypesAreOK DEF BillingInv
<1> QED  BY <1>1, BillingInvariant, PTL

\* Whatever handlers are in progress, cut short or repeated, a subscription that the
\* provider charges for is on a row, about to be put on one or to be cancelled, unless
\* a cancellation failed and was only logged, or an end was withdrawn
\* (createSubscription, purgeUser, handleSubscriptionExpired).
THEOREM NothingIsChargedUnknown == Spec => []NoUnknownCharge
<1> QED  BY CoveredIsKnown, BillingInvariant, PTL

\* A subscription that is over at the provider is not served for longer than the news
\* takes to arrive, in whatever order the webhooks come
\* (handleSubscriptionExpired, handleRazorpaySubscriptionCancelled).
THEOREM EndedIsOver == Spec => []EndedIsNotServed
<1> QED  BY EndIsKnown, BillingInvariant, PTL

\* When every webhook is processed and no handler is in progress, a subscription that
\* is paid for has a row that serves its plan, whatever was repeated or cut short
\* (processWebhook, processRazorpayWebhook and the dedupe log).
THEOREM WhoPaysIsServed == Spec => []PaidIsServed
<1> QED  BY PayingIsServed, BillingInvariant, PTL
================================================================================
