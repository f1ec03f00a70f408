----------------------------- MODULE Subscriptions -----------------------------
(* The subscriptions of one user in payment-service: the rows of its database,  *)
(* the subscriptions a payment provider charges for, and the calls, webhooks    *)
(* and cron jobs that keep the two together (subscription.service.ts,           *)
(* webhook.service.ts, billing-rpc.service.ts). A handler reads the rows when   *)
(* it starts and from them decides its effects: writes, and calls to the        *)
(* provider, each an await of the code and a step of its own here, between      *)
(* which other handlers run. Plans are 0 (FREE), 1 (BASIC) and 2 (PRO); time is *)
(* the number of billing periods that ended.                                    *)
EXTENDS Integers, SequencesExt

CONSTANTS
  Gateways,   \* payment providers the deployment may be configured with
  Subs,       \* subscriptions at the provider
  NoSub,
  Starts,     \* what the user may have at first: checkouts not yet paid, and the paid subscription
  Actors,     \* handlers in progress at once
  Plans,
  MaxEvents,  \* bound: requests of the user, here and on the provider's pages, handlers cut
              \* short, and calls that fail for no reason of the provider's
  Horizon     \* bound: period boundaries passed

ASSUME PlansAssumption    == {0, 1} \subseteq Plans /\ Plans \subseteq Nat
ASSUME GatewaysAssumption == Gateways \subseteq {"lemonSqueezy", "razorpay"}
ASSUME SubsAssumption     == /\ NoSub \notin Subs
                             /\ Starts \subseteq [opened : SUBSET Subs, served : Subs \union {NoSub}]
ASSUME BoundsAssumption   == MaxEvents \in Nat /\ Horizon \in Nat

VARIABLES
  gateway,   \* the configured provider
  rows,      \* the user's subscriptions, oldest first
  account,   \* of the user: "open", "deleted", or "purged" when payment-service knows
  pending,   \* pendingCheckouts: Razorpay subscriptions to poll
  provider,  \* the provider's view of each subscription
  mail,      \* webhooks not yet answered with success
  log,       \* dedupe keys of Razorpay webhooks processed
  job,       \* what each handler has still to do
  now, events,
  mishaps    \* <<kind, subscription>>, for the properties: "slipped", its cancellation failed and
             \* was only logged, or was cut short; "withdrawn", the provider goes on with it
             \* and the row, a webhook or a handler still says that it ends; "overtaken", its row was made after
             \* it had ended; "erased", its row was made while the user's rows were being erased

vars == <<gateway, rows, account, pending, provider, mail, log, job,
          now, events, mishaps>>

Statuses     == {"ACTIVE", "PAUSED", "PAST_DUE", "CANCELLED", "EXPIRED", "DELETED"}
States       == {"none", "open", "active", "ending", "paused", "late", "dead"}
Unscheduled  == [to |-> -1, at |-> -1]
FreeRow(end) == [status |-> "ACTIVE", plan |-> 0, limits |-> -1, ext |-> NoSub,
                 change |-> Unscheduled, end |-> end]
\* What an update writes over a row.
Updated(row, set) == [column \in DOMAIN row |-> IF column \in DOMAIN set THEN set[column] ELSE row[column]]
NoMail       == [event |-> "none"]
Idle         == [todo |-> <<>>, msg |-> NoMail]

TypeOK ==
  /\ gateway \in Gateways
  /\ \A r \in DOMAIN rows :
       /\ rows[r].status \in Statuses
       /\ rows[r].plan \in Plans /\ rows[r].limits \in Plans \union {-1}
       /\ rows[r].ext \in Subs \union {NoSub}
       /\ rows[r].change = Unscheduled \/ rows[r].change \in [to : Plans, at : Nat]
       /\ rows[r].ext # NoSub => \A q \in DOMAIN rows \ {r} : rows[q].ext # rows[r].ext
  /\ account \in {"open", "deleted", "purged"}
  /\ pending \subseteq Subs
  /\ provider \in [Subs -> [state : States, plan : Plans, end : 0..Horizon + 1]]
  /\ \A m \in mail : m.sub \in Subs /\ m.status \in States
  /\ DOMAIN job = Actors

\* The user has the free plan, or is served by a subscription whose webhooks are long
\* processed; other checkouts may wait for payment.
Init ==
  /\ gateway \in Gateways
  /\ \E s \in Starts :
       /\ rows = <<Updated(FreeRow(1), IF s.served = NoSub THEN [limits |-> 0]
                                       ELSE [limits |-> 1, plan |-> 1, ext |-> s.served])>>
       /\ provider = [e \in Subs |->
            [plan  |-> IF e \in s.opened \union {s.served} THEN 1 ELSE 0,
             end   |-> IF e = s.served THEN 1 ELSE 0,
             state |-> IF e = s.served THEN "active" ELSE IF e \in s.opened THEN "open" ELSE "none"]]
       /\ pending = (IF gateway = "razorpay" THEN s.opened ELSE {})
       /\ log = (IF gateway = "razorpay" THEN {"activated", "charged"} \X ({s.served} \cap Subs) ELSE {})
  /\ account = "open" /\ mail = {}
  /\ job = [a \in Actors |-> Idle]
  /\ now = 0 /\ events = 0
  /\ mishaps = {}

-------------------------------------------------------------------------------
(* The rows as the queries see them; 0 is no row.                              *)

Newest(statuses) == LET found == {r \in DOMAIN rows : rows[r].status \in statuses}
                    IN IF found = {} THEN 0 ELSE Max(found)

\* findCurrentSubscription and getUserSubscription
CurrentRow == Newest({"ACTIVE", "PAUSED", "PAST_DUE"})
ActiveRow  == Newest({"ACTIVE"})
RowOf(e)   == LET found == {r \in DOMAIN rows : rows[r].ext = e}
              IN IF found = {} THEN 0 ELSE Max(found)

Scheduled(r)       == rows[r].change # Unscheduled
ScheduledLater(r)  == Scheduled(r) /\ rows[r].change.at > now
HasPaidProvider(r) == rows[r].plan # 0 /\ rows[r].ext # NoSub

-------------------------------------------------------------------------------
(* Effects of handlers. Row 0 is the row the handler itself created.           *)

Write(r, set)      == <<[do |-> "write", row |-> r, set |-> set, skip |-> FALSE]>>
Create(set)        == <<[do |-> "create", set |-> set]>>
Settle(e)          == <<[do |-> "settle", sub |-> e]>>
\* onFail: "throw" ends the handler, "log" goes on, "revert" takes the schedule back and ends.
CallTo(op, e, r, p, onFail) ==
  [do |-> "call", op |-> op, sub |-> e, row |-> r, plan |-> p, onFail |-> onFail]
Call(op, r, p, onFail) ==
  IF rows[r].ext = NoSub THEN <<>> ELSE <<CallTo(op, rows[r].ext, r, p, onFail)>>
Ended(status)      == [status |-> status, plan |-> 0, change |-> Unscheduled, ext |-> NoSub]

\* updateUsageQuotasForPlanChange
Limit(r, p) == Write(r, [limits |-> p])

\* initializeUsageQuotas keeps quotas that exist.
InitializeUsageQuotas(p) == <<[do |-> "write", row |-> 0, set |-> [limits |-> p], skip |-> TRUE]>>

\* Mutant: the replaced subscription stays alive at the provider.
CreateWithoutCancel(e, p, end, status) ==
  IF e # NoSub /\ RowOf(e) # 0 THEN <<>>
  ELSE Create(Updated(FreeRow(end), [ext |-> e, plan |-> p, status |-> status])) \o InitializeUsageQuotas(p)
       \o IF ActiveRow = 0 THEN <<>>
          ELSE Write(ActiveRow, [status |-> "EXPIRED", change |-> Unscheduled, ext |-> NoSub])

\* createSubscription: a known provider subscription is returned as it is; else a
\* row is inserted, given its quotas, and the newest active one is retired.
CreateSubscription(e, p, end, status) ==
  IF e # NoSub /\ RowOf(e) # 0 THEN <<>>
  ELSE LET old == ActiveRow IN
       Create(Updated(FreeRow(end), [ext |-> e, plan |-> p, status |-> status])) \o InitializeUsageQuotas(p)
       \o IF old = 0 THEN <<>>
          ELSE Write(old, [status |-> "EXPIRED", change |-> Unscheduled, ext |-> NoSub])
               \o Call("cancelNow", old, 0, "log")

-------------------------------------------------------------------------------
(* Requests of the user (billing-rpc.service.ts and what it calls).            *)

CreateCheckoutSession(p) ==
  LET unused == {e \in Subs : provider[e].state = "none"} IN
  IF unused = {} THEN <<>>
  ELSE LET e == CHOOSE e \in unused : TRUE IN
       <<CallTo("checkout", e, 0, p, "throw")>>
       \o IF gateway = "razorpay" THEN <<[do |-> "remember", sub |-> e]>> ELSE <<>>

UpgradeSubscription(r, p) ==
  Call("change", r, p, "throw")
  \o Write(r, [plan |-> p, change |-> Unscheduled]) \o Limit(r, p)

\* Quotas keep the higher tier until the period ends.
DowngradeSubscription(r, p) ==
  Write(r, [change |-> [to |-> p, at |-> rows[r].end]])
  \o Call("change", r, p, "revert")

CancelSubscription(r, immediate) ==
  IF immediate
  THEN Call("cancelNow", r, 0, "throw")
       \o Write(r, [status |-> "CANCELLED", change |-> Unscheduled])
  ELSE Call("cancelAtEnd", r, 0, "throw")
       \o Write(r, [status |-> rows[r].status, change |-> [to |-> 0, at |-> rows[r].end]])

PauseSubscription(r)  == Call("pause", r, 0, "throw") \o Write(r, [status |-> "PAUSED"])
ResumeSubscription(r) == Call("resume", r, 0, "throw") \o Write(r, [status |-> "ACTIVE"])

\* Razorpay's uncancel swallows its failure.
CancelScheduledChange(r) ==
  (IF rows[r].change.to = 0
   THEN Call("uncancel", r, 0, IF gateway = "razorpay" THEN "log" ELSE "throw")
   ELSE Call("change", r, rows[r].plan, "throw"))
  \o Write(r, [change |-> Unscheduled])

\* applyPlanChange: getUserSubscription may find nothing although a current row exists.
ApplyPlanChange(p) ==
  LET c == CurrentRow  r == ActiveRow IN
  IF rows[c].plan = p THEN <<>>
  ELSE IF p # 0 /\ ~HasPaidProvider(c) THEN CreateCheckoutSession(p)
  ELSE IF r = 0 THEN <<>>
  ELSE IF p = 0 THEN CancelSubscription(r, FALSE)
  ELSE IF p > rows[c].plan /\ p > rows[r].plan THEN UpgradeSubscription(r, p)
  ELSE IF p < rows[c].plan /\ p < rows[r].plan THEN DowngradeSubscription(r, p)
  ELSE <<>>

-------------------------------------------------------------------------------
(* Webhooks of LemonSqueezy and Razorpay. A handler that finds no row does      *)
(* nothing.                                                                    *)

\* mapLemonSqueezyStatus, mapRazorpayStatus
StatusOf(m) ==
  CASE m.status = "paused" -> "PAUSED"
    [] m.status = "late"   -> "PAST_DUE"
    [] m.status = "ending" -> IF gateway = "razorpay" THEN "ACTIVE" ELSE "CANCELLED"
    [] m.status = "dead"   -> IF gateway = "razorpay" THEN "CANCELLED" ELSE "EXPIRED"
    [] OTHER               -> "ACTIVE"

\* The plan in the message wins over a schedule that is due.
ApplyUpdate(r, m) ==
  IF m.plan = rows[r].plan THEN Write(r, [status |-> StatusOf(m), end |-> m.end])
  ELSE Limit(r, m.plan)
       \o Write(r, [status |-> StatusOf(m), end |-> m.end, plan |-> m.plan, change |-> Unscheduled])

SubscriptionUpdated(r, m) ==
  IF ScheduledLater(r) THEN Write(r, [end |-> m.end]) ELSE ApplyUpdate(r, m)

EndNow(r, status) == Write(r, Ended(status)) \o Limit(r, 0)

ScheduleEnd(r, m) ==
  IF m.end > now THEN Write(r, [change |-> [to |-> 0, at |-> m.end]]) ELSE EndNow(r, "CANCELLED")

SubscriptionCancelled(r, m) ==
  IF ScheduledLater(r) /\ rows[r].change.to = 0 THEN <<>> ELSE ScheduleEnd(r, m)

SubscriptionCreated(m) == CreateSubscription(m.sub, m.plan, m.end, StatusOf(m))

\* Their webhooks say nothing of a schedule, which stays.
SubscriptionResumed(r) == Write(r, [status |-> "ACTIVE"])
SubscriptionPaused(r)  == Write(r, [status |-> "PAUSED"])
PaymentFailed(r)       == Write(r, [status |-> "PAST_DUE"])

RazorpaySubscriptionActivated(m) == SubscriptionCreated(m) \o Settle(m.sub)

RazorpaySubscriptionCharged(m) ==
  LET r == RowOf(m.sub) IN
  (IF r # 0 THEN <<>> ELSE CreateSubscription(m.sub, m.plan, m.end, "ACTIVE") \o Settle(m.sub))
  \o Write(r, [end |-> m.end])

\* Mutant: an expired subscription keeps its row.
HandlingKeepingExpired(m) ==
  CASE m.event = "created" -> SubscriptionCreated(m)
    [] m.event = "expired" -> Limit(RowOf(m.sub), 0)
    [] OTHER               -> <<>>

\* processWebhook and processRazorpayWebhook: what the handler of m does.
Handling(m) ==
  LET r == RowOf(m.sub)  known(effects) == IF r = 0 THEN <<>> ELSE effects IN
  CASE m.event = "created"   -> SubscriptionCreated(m)
    [] m.event = "updated"   -> known(IF gateway = "razorpay" THEN ApplyUpdate(r, m)
                                                             ELSE SubscriptionUpdated(r, m))
    [] m.event = "cancelled" -> known(IF gateway = "razorpay" THEN ScheduleEnd(r, m)
                                                             ELSE SubscriptionCancelled(r, m))
    [] m.event = "expired"   -> known(EndNow(r, "EXPIRED"))
    [] m.event = "resumed"   -> known(SubscriptionResumed(r))
    [] m.event = "paused"    -> known(SubscriptionPaused(r))
    [] m.event = "failed"    -> known(PaymentFailed(r))
    [] m.event = "activated" -> RazorpaySubscriptionActivated(m)
    [] m.event = "charged"   -> RazorpaySubscriptionCharged(m)

-------------------------------------------------------------------------------
(* Handlers start: requests while the account exists, webhooks, cron jobs and   *)
(* the user's deletion.                                                        *)

Start(a, effects, m) ==
  /\ job[a] = Idle
  /\ job' = [job EXCEPT ![a] = [todo |-> effects, msg |-> m]]
  /\ UNCHANGED <<gateway, rows, account, pending, provider, mail, log, now, mishaps>>

Request(a, effects) ==
  /\ account = "open" /\ events < MaxEvents
  /\ effects # <<>>
  /\ events' = events + 1
  /\ Start(a, effects, NoMail)

\* ensureSubscription, the first thing every request does; user.created does it too.
EnsureSubscription(a) ==
  /\ account = "open" /\ CurrentRow = 0
  /\ Start(a, CreateSubscription(NoSub, 0, now + 1, "ACTIVE"), NoMail)
  /\ UNCHANGED events

ChangePlan(a, p) == CurrentRow # 0 /\ Request(a, ApplyPlanChange(p))
Cancel(a) ==
  /\ CurrentRow # 0 /\ ActiveRow # 0
  /\ rows[CurrentRow].plan # 0
  /\ Request(a, CancelSubscription(ActiveRow, TRUE))
Pause(a) ==
  /\ CurrentRow # 0 /\ ActiveRow # 0
  /\ rows[CurrentRow].status # "PAUSED"
  /\ Request(a, PauseSubscription(ActiveRow))
Resume(a) ==
  /\ CurrentRow # 0
  /\ rows[CurrentRow].status = "PAUSED"
  /\ Request(a, ResumeSubscription(CurrentRow))
CancelScheduled(a) ==
  /\ ActiveRow # 0 /\ Scheduled(ActiveRow)
  /\ Request(a, CancelScheduledChange(ActiveRow))

DedupeKey(m) == <<m.event, m.sub>>

\* A Razorpay webhook whose key is in the log is answered at once.
Webhook(a, m) ==
  /\ m \in mail
  /\ \A b \in Actors : job[b].msg # m
  /\ Start(a, (IF gateway = "razorpay" /\ DedupeKey(m) \in log THEN <<>> ELSE Handling(m))
              \o <<[do |-> "processed"]>>, m)
  /\ UNCHANGED events

\* pollPendingRazorpayCheckouts, one checkout at a time; a subscription that is
\* neither active nor over is looked at again later.
PollCheckout(a, e) ==
  /\ e \in pending /\ provider[e].state \in {"active", "ending", "dead"}
  /\ Start(a, (IF provider[e].state = "dead" THEN <<>>
               ELSE CreateSubscription(e, provider[e].plan, provider[e].end, "ACTIVE")) \o Settle(e), NoMail)
  /\ UNCHANGED events

\* enforceScheduledChanges, one row at a time.
EnforceScheduledChange(a, r) ==
  /\ rows[r].status = "ACTIVE" /\ Scheduled(r) /\ ~ScheduledLater(r)
  /\ Start(a, Write(r, IF rows[r].change.to = 0 THEN Ended("EXPIRED")
                       ELSE [plan |-> rows[r].change.to, change |-> Unscheduled])
              \o Limit(r, rows[r].change.to), NoMail)
  /\ UNCHANGED events

\* auth-service deletes the account and publishes user.deleted.
DeleteAccount ==
  /\ account = "open" /\ events < MaxEvents
  /\ account' = "deleted" /\ events' = events + 1
  /\ UNCHANGED <<gateway, rows, pending, provider, mail, log, job, now, mishaps>>

\* purgeUser: cancel what the provider charges for, in the order the database lists it, then erase.
PurgeUser(a) ==
  /\ account = "deleted"
  /\ \E listed \in SetToSeqs({r \in DOMAIN rows : rows[r].ext # NoSub}) :
       Start(a, [i \in DOMAIN listed |-> CallTo("cancelNow", rows[listed[i]].ext, listed[i], 0, "log")]
                \o <<[do |-> "erase", known |-> Len(rows)]>>, NoMail)
  /\ UNCHANGED events

-------------------------------------------------------------------------------
(* Effects happen one at a time.                                               *)

Todo(a)      == job[a].todo
Next1(a)     == Head(Todo(a))
Doing(a, do) == Todo(a) # <<>> /\ Next1(a).do = do
Continue(a, effects) ==
  job' = [job EXCEPT ![a] = IF effects = <<>> THEN Idle ELSE [@ EXCEPT !.todo = effects]]
GoOn(a)      == Continue(a, Tail(Todo(a)))
Throw(a)     == Continue(a, <<>>)

\* A cancellation no later run of the handler will repeat: the row that named the
\* subscription is already cleared.
Slip(a) == IF Doing(a, "call") /\ Next1(a).op = "cancelNow" /\ Next1(a).onFail = "log"
           THEN {<<"slipped", Next1(a).sub>>} ELSE {}

Resolve(r, effects) ==
  [i \in DOMAIN effects |-> IF effects[i].do = "write" /\ effects[i].row = 0
                            THEN [effects[i] EXCEPT !.row = r] ELSE effects[i]]

\* The row learns that the provider goes on with its subscription, and nothing on
\* its way says otherwise.
Learnt(e) ==
  {<<"withdrawn", x>> : x \in {x \in Subs :
     /\ x = rows[e.row].ext /\ rows[e.row].status # "CANCELLED" /\ e.set = [change |-> Unscheduled]
     /\ ~\E m \in mail : m.sub = x /\ m.status = "ending"
     /\ ~\E b \in Actors : \E i \in DOMAIN Todo(b) :
          /\ Todo(b)[i].do = "write" /\ Todo(b)[i].row = e.row
          /\ "change" \in DOMAIN Todo(b)[i].set /\ Todo(b)[i].set # e.set}}

\* An update of an erased row fails.
WriteRow(a) ==
  LET e == Next1(a) IN
  /\ Doing(a, "write")
  /\ IF e.row = 0 \/ rows[e.row].status = "DELETED" THEN Throw(a) /\ UNCHANGED <<rows, mishaps>>
     ELSE /\ GoOn(a)
          /\ rows' = [rows EXCEPT ![e.row] = IF e.skip /\ @.limits # -1 THEN @ ELSE Updated(@, e.set)]
          /\ mishaps' = mishaps \ Learnt(e)
  /\ UNCHANGED <<gateway, account, pending, provider, mail, log, now, events>>

\* Mutant: rows of one provider subscription are not unique.
CreateAnotherRow(a) ==
  /\ Doing(a, "create")
  /\ rows' = Append(rows, Next1(a).set)
  /\ Continue(a, Resolve(Len(rows) + 1, Tail(Todo(a))))
  /\ UNCHANGED <<gateway, account, pending, provider, mail, log, now, events, mishaps>>

\* The provider's id of a row is unique.
CreateRow(a) ==
  LET e == Next1(a) IN
  /\ Doing(a, "create")
  /\ IF e.set.ext # NoSub /\ RowOf(e.set.ext) # 0
     THEN Throw(a) /\ UNCHANGED <<rows, mishaps>>
     ELSE /\ rows' = Append(rows, e.set)
          /\ Continue(a, Resolve(Len(rows) + 1, Tail(Todo(a))))
          /\ mishaps' = mishaps \union {<<"overtaken", x>> : x \in {x \in Subs : x = e.set.ext /\ provider[x].state = "dead"}}
  /\ UNCHANGED <<gateway, account, pending, provider, mail, log, now, events>>

\* pendingCheckouts and the erasure of a deleted user
Bookkeep(a) ==
  LET e == Next1(a) IN
  /\ \/ /\ Doing(a, "settle")
        /\ pending' = pending \ {e.sub}
        /\ UNCHANGED <<rows, account, mishaps>>
     \/ /\ Doing(a, "remember")
        /\ pending' = pending \union {e.sub}
        /\ UNCHANGED <<rows, account, mishaps>>
     \/ /\ Doing(a, "erase")
        /\ pending' = {} /\ account' = "purged"
        /\ rows' = [r \in DOMAIN rows |-> Updated(FreeRow(0), [status |-> "DELETED"])]
        /\ mishaps' = mishaps \union {<<"erased", x>> : x \in {x \in Subs : RowOf(x) > e.known}}
  /\ GoOn(a)
  /\ UNCHANGED <<gateway, provider, mail, log, now, events>>

\* Mutant: a webhook whose handler failed is not sent again.
StopAndForget(a) ==
  /\ job[a] # Idle /\ events < MaxEvents
  /\ events' = events + 1
  /\ Throw(a)
  /\ mail' = mail \ {job[a].msg}
  /\ mishaps' = mishaps \union Slip(a)
  /\ UNCHANGED <<gateway, rows, account, pending, provider, log, now>>

\* A crash, or a failing query: the provider will send the webhook again.
Stop(a) ==
  /\ job[a] # Idle /\ events < MaxEvents
  /\ events' = events + 1
  /\ Throw(a)
  /\ mishaps' = mishaps \union Slip(a)
  /\ UNCHANGED <<gateway, rows, account, pending, provider, mail, log, now>>

Processed(a) ==
  /\ Doing(a, "processed")
  /\ mail' = mail \ {job[a].msg}
  /\ log' = IF gateway = "razorpay" THEN log \union {DedupeKey(job[a].msg)} ELSE log
  /\ GoOn(a)
  /\ UNCHANGED <<gateway, rows, account, pending, provider, now, events, mishaps>>

-------------------------------------------------------------------------------
(* The providers: which states an operation is accepted in, where it leads, and *)
(* the webhooks each sends about it.                                           *)

Operation == [
  checkout    |-> [from |-> {"none"},   to |-> "open",   lemonSqueezy |-> {}, razorpay |-> {}],
  pay         |-> [from |-> {"open"},   to |-> "active", lemonSqueezy |-> {"created"},
                                                         razorpay |-> {"activated", "charged"}],
  change      |-> [from |-> {"active"}, to |-> "active", lemonSqueezy |-> {"updated"},
                                                         razorpay |-> {"updated"}],
  cancelAtEnd |-> [from |-> {"active"}, to |-> "ending", lemonSqueezy |-> {"updated", "cancelled"},
                                                         razorpay |-> {}],
  uncancel    |-> [from |-> {"ending"}, to |-> "active", lemonSqueezy |-> {"updated", "resumed"},
                                                         razorpay |-> {}],
  cancelNow   |-> [from |-> {"open", "active", "ending", "paused", "late"}, to |-> "dead",
                   lemonSqueezy |-> {"cancelled", "expired"}, razorpay |-> {"cancelled"}],
  pause       |-> [from |-> {"active"}, to |-> "paused", lemonSqueezy |-> {"paused"}, razorpay |-> {"paused"}],
  resume      |-> [from |-> {"paused"}, to |-> "active", lemonSqueezy |-> {"resumed"}, razorpay |-> {"resumed"}],
  renew       |-> [from |-> {"active"}, to |-> "active", lemonSqueezy |-> {"updated"}, razorpay |-> {"charged"}],
  decline     |-> [from |-> {"active"}, to |-> "late",   lemonSqueezy |-> {"failed"},  razorpay |-> {"failed"}],
  recover     |-> [from |-> {"late"},   to |-> "active", lemonSqueezy |-> {"updated"}, razorpay |-> {"updated"}],
  lapse       |-> [from |-> {"ending", "late"}, to |-> "dead",
                   lemonSqueezy |-> {"expired"}, razorpay |-> {"cancelled"}]]

Accepted(op, e) == provider[e].state \in Operation[op].from
Outcome(op, e, p, at) ==
  [state |-> Operation[op].to,
   plan  |-> IF op \in {"checkout", "change"} THEN p ELSE provider[e].plan,
   end   |-> CASE op \in {"pay", "renew"}       -> at + 1
               [] op \in {"cancelNow", "lapse"} -> at
               [] OTHER                         -> provider[e].end]
News(op, e, p, at) ==
  LET s == Outcome(op, e, p, at) IN
  {[event |-> v, sub |-> e, status |-> s.state, plan |-> s.plan, end |-> s.end] :
     v \in Operation[op][gateway]}

Change(op, e, p) ==
  /\ Accepted(op, e)
  /\ provider' = [provider EXCEPT ![e] = Outcome(op, e, p, now)]
  /\ mail' = mail \union News(op, e, p, now)

Note(op, e) == mishaps' = mishaps \union (IF op = "uncancel" THEN {<<"withdrawn", e>>} ELSE {})

\* A call the provider refuses, or that fails for another reason, changes nothing there.
CallProvider(a) ==
  LET c == Next1(a) IN
  /\ Doing(a, "call")
  /\ \/ Change(c.op, c.sub, c.plan) /\ GoOn(a) /\ UNCHANGED events /\ Note(c.op, c.sub)
     \/ /\ IF Accepted(c.op, c.sub) THEN events < MaxEvents /\ events' = events + 1
                                    ELSE UNCHANGED events
        /\ \/ c.onFail = "throw"  /\ Throw(a)
           \/ c.onFail = "revert" /\ Continue(a, Write(c.row, [change |-> Unscheduled]))
           \/ c.onFail = "log"    /\ GoOn(a)
        /\ mishaps' = mishaps \union Slip(a)
        /\ UNCHANGED <<provider, mail>>
  /\ UNCHANGED <<gateway, rows, account, pending, log, now>>

\* The user pays, or uses LemonSqueezy's customer portal; a charge fails or recovers.
AtProvider(op, e) ==
  /\ events < MaxEvents /\ events' = events + 1
  /\ op \in {"cancelAtEnd", "uncancel"} => gateway = "lemonSqueezy"
  /\ Change(op, e, 0)
  /\ Note(op, e)
  /\ UNCHANGED <<gateway, rows, account, pending, log, job, now>>

AtBoundary(e) == CASE provider[e].state = "active"             -> {"renew"}
                   [] provider[e].state \in {"ending", "late"} -> {"lapse"}
                   [] OTHER                                    -> {}

\* A period ends. It is far longer than the delivery of the webhooks that opened it,
\* and a checkout is polled for a day.
Boundary ==
  /\ now < Horizon
  /\ \A m \in mail : m.event \notin {"created", "activated"}
  /\ now' = now + 1
  /\ provider' = [e \in Subs |-> IF AtBoundary(e) = {} THEN provider[e]
                                 ELSE Outcome(CHOOSE op \in AtBoundary(e) : TRUE, e, 0, now + 1)]
  /\ mail' = mail \union UNION {UNION {News(op, e, 0, now + 1) : op \in AtBoundary(e)} : e \in Subs}
  /\ pending' = {}
  /\ UNCHANGED <<gateway, rows, account, log, job, events, mishaps>>

-------------------------------------------------------------------------------
Effect(a) == WriteRow(a) \/ CreateRow(a) \/ Bookkeep(a) \/ CallProvider(a) \/ Processed(a)

Next ==
  \/ \E a \in Actors :
       \/ EnsureSubscription(a) \/ Cancel(a) \/ Pause(a) \/ Resume(a) \/ CancelScheduled(a)
       \/ \E p \in Plans : ChangePlan(a, p)
       \/ \E m \in mail : Webhook(a, m)
       \/ \E e \in Subs : PollCheckout(a, e)
       \/ \E r \in DOMAIN rows : EnforceScheduledChange(a, r)
       \/ PurgeUser(a) \/ Effect(a) \/ Stop(a)
  \/ \E e \in Subs : \E op \in {"pay", "cancelAtEnd", "uncancel", "decline", "recover"} : AtProvider(op, e)
  \/ DeleteAccount \/ Boundary

Spec == Init /\ [][Next]_vars

-------------------------------------------------------------------------------
Paying(e) == provider[e].state \in {"active", "paused", "late"}

\* A handler in progress will make a row of e, or cancel e.
InHand(e) == \E a \in Actors : \E i \in DOMAIN Todo(a) :
  \/ Todo(a)[i].do = "create" /\ Todo(a)[i].set.ext = e
  \/ Todo(a)[i].do = "call" /\ Todo(a)[i].sub = e /\ Todo(a)[i].op = "cancelNow"

\* The provider charges for nothing payment-service does not know of: a live
\* subscription is on a row, or is about to be put on one or cancelled. Replacing a
\* subscription, deleting the user and every end of one must keep it so. Left aside:
\* a cancellation that failed and was only logged (subscription.service.ts:183, :485)
\* and one withdrawn on the provider's page, whose schedule handleSubscriptionResumed keeps.
NoUnknownCharge ==
  \A e \in Subs : Paying(e) =>
    \/ RowOf(e) # 0 \/ InHand(e) \/ e \in pending \/ {"slipped", "withdrawn", "erased"} \X {e} \cap mishaps # {}
    \/ \E m \in mail : m.sub = e /\ m.event \in {"created", "activated"}

\* A subscription that ended at the provider serves its plan no longer than it takes
\* the news to arrive, whatever order the webhooks came in.
EndedIsNotServed ==
  \A r \in DOMAIN rows :
    rows[r].status = "ACTIVE" /\ rows[r].ext # NoSub /\ provider[rows[r].ext].state = "dead" =>
      <<"overtaken", rows[r].ext>> \in mishaps \/ \E m \in mail : m.sub = rows[r].ext /\ m.event \in {"cancelled", "expired"}

\* Who pays gets the plan, though handlers stop halfway and webhooks are redelivered:
\* when all is processed the subscription has a current row.
Quiet     == mail = {} /\ \A a \in Actors : job[a] = Idle
Served(e) == RowOf(e) # 0 /\ rows[RowOf(e)].status \in {"ACTIVE", "PAUSED", "PAST_DUE"}
PaidIsServed ==
  Quiet /\ account = "open" => \A e \in Subs :
    provider[e].state = "active" => Served(e) \/ e \in pending \/ {"slipped", "withdrawn"} \X {e} \cap mishaps # {}
===============================================================================
