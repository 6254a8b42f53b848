---------------------------- MODULE Subscription ----------------------------
(* The plan of one workspace: what Stripe bills (stripe) and what the          *)
(* Subscription row says (db).  Billing pages buy and change plans at Stripe,  *)
(* Stripe sends webhooks about every change, and handlers copy them to the row *)
(* and cancel the subscription it named before (payments/webhooks.py,          *)
(* payments/models.py, daras_ai_v2/billing.py, app_users/tasks.py).            *)
EXTENDS Naturals, FiniteSets

CONSTANTS
    Procs,      \* web requests, webhook requests and celery tasks
    Subs,       \* Stripe subscription ids
    NoSub,      \* Subscription.external_id is null
    Plans,      \* paid plans
    Starter,    \* PricingPlan.STARTER
    Tabs,       \* bound: billing pages in the middle of a purchase or change
    Serial,     \* handlers do not overlap, and webhooks arrive in order
    MaxEvents,  \* bound: changes at Stripe
    MaxCrashes, \* bound: webhook requests that fail half way
    FailBefore, \* the steps they may fail before: "save", "cancel"
    MaxAddons,  \* bound: add-on purchases
    Happens     \* what Stripe does by itself: "end", "lapse"

ASSUME SubscriptionAssumption ==
    /\ NoSub \notin Subs /\ Starter \notin Plans /\ IsFiniteSet(Procs)
    /\ Tabs \in Nat /\ MaxEvents \in Nat /\ MaxCrashes \in Nat
    /\ MaxAddons \in Nat
    /\ FailBefore \subseteq {"save", "cancel"}
    /\ Serial \in BOOLEAN /\ Happens \subseteq {"end", "lapse"}

VARIABLES
    stripe,    \* stripe[s]: the subscription at Stripe
    db,        \* the Subscription row
    events,    \* webhooks not answered yet, numbered in Stripe's order
    sent,      \* the number of changes at Stripe so far
    proc,      \* proc[p]: the request p is serving
    addons,    \* addons.task: purchases whose celery task has not run yet, of addons.all
    crashes

plans == <<stripe, db, events, sent, proc, addons, crashes>>

StripeSub == [status : {"none", "active", "past_due", "deleted"},
              plan   : Plans \cup {Starter}]
Db    == [plan : Plans \cup {Starter}, sub : Subs \cup {NoSub}, provider : BOOLEAN]
Event == [n : Nat, type : {"updated", "deleted", "addon"}, sub : Subs \cup {NoSub},
          plan : Plans \cup {Starter}, status : {"active", "past_due", "deleted"}]
Proc  == [pc  : {"idle", "create", "modify", "addon", "save", "cancel"},
          ev  : Event,   \* the change being copied, n = 0 if no webhook brought it
          old : Db]      \* the row as the request read it

NoDb    == [plan |-> Starter, sub |-> NoSub, provider |-> FALSE]
NoEvent == [n |-> 0, type |-> "deleted", sub |-> NoSub, plan |-> Starter,
            status |-> "deleted"]
Idle    == [pc |-> "idle", ev |-> NoEvent, old |-> NoDb]

PlanInit ==
    /\ stripe = [s \in Subs |-> [status |-> "none", plan |-> Starter]]
    /\ db = NoDb
    /\ events = {}
    /\ sent = 0
    /\ proc = [p \in Procs |-> Idle]
    /\ addons = [task |-> 0, all |-> 0]
    /\ crashes = 0

Active(s) == stripe[s].status = "active"
Open(s) == stripe[s].status \in {"active", "past_due"}

Updated(s, plan, status) ==
    [n |-> 0, type |-> "updated", sub |-> s, plan |-> plan, status |-> status]

\* A change at Stripe, which a webhook will report with what it was at the time.
ChangeSub(s, plan, status) ==
    /\ sent < MaxEvents
    /\ sent' = sent + 1
    /\ stripe' = [stripe EXCEPT ![s] = [status |-> status, plan |-> plan]]
    /\ events' = events \cup
         {[n |-> sent + 1, type |-> IF status = "deleted" THEN "deleted" ELSE "updated",
           sub |-> s, plan |-> plan, status |-> status]}

-----------------------------------------------------------------------------
(* Billing pages *)

InTab(p) == proc[p].pc \in {"create", "modify"}
NotOverlapping == Serial => \A p \in Procs : proc[p].pc \notin {"save", "cancel"}
TabFree == Cardinality({p \in Procs : InTab(p)}) < Tabs

\* stripe_subscription_create: an active subscription found at Stripe is copied like
\* a webhook would, otherwise one is created (at once, or at the end of a checkout).
Buy(p, plan) ==
    /\ proc[p].pc = "idle" /\ TabFree
    /\ db.plan = Starter
    /\ \/ \E s \in Subs :
            /\ Active(s) /\ NotOverlapping
            /\ proc' = [proc EXCEPT ![p] =
                   [pc |-> "save", ev |-> Updated(s, stripe[s].plan, "active"), old |-> db]]
       \/ /\ \A s \in Subs : ~Active(s)
          /\ proc' = [proc EXCEPT ![p] =
                   [pc |-> "create", ev |-> Updated(NoSub, plan, "active"), old |-> db]]
    /\ UNCHANGED <<stripe, db, events, sent, addons, crashes>>

Create(p, s) ==
    /\ proc[p].pc = "create"
    /\ stripe[s].status = "none"
    /\ ChangeSub(s, proc[p].ev.plan, "active")
    /\ proc' = [proc EXCEPT ![p] = Idle]
    /\ UNCHANGED <<db, addons, crashes>>

\* The checkout is abandoned, or the page fails.
GiveUp(p) ==
    /\ InTab(p)
    /\ proc' = [proc EXCEPT ![p] = Idle]
    /\ UNCHANGED <<stripe, db, events, sent, addons, crashes>>

\* change_subscription: modify the subscription that the row names.
Switch(p, plan) ==
    /\ proc[p].pc = "idle" /\ TabFree
    /\ db.plan \in Plans \ {plan} /\ db.sub # NoSub
    /\ proc' = [proc EXCEPT ![p] =
                   [pc |-> "modify", ev |-> Updated(db.sub, plan, "active"), old |-> db]]
    /\ UNCHANGED <<stripe, db, events, sent, addons, crashes>>

Modify(p) ==
    LET s == proc[p].ev.sub IN
    /\ proc[p].pc = "modify"
    /\ Open(s)
    /\ ChangeSub(s, proc[p].ev.plan, stripe[s].status)
    /\ proc' = [proc EXCEPT ![p] = Idle]
    /\ UNCHANGED <<db, addons, crashes>>

\* stripe_attempt_addon_purchase, whose payment queues save_stripe_default_payment_method.
BuyAddon ==
    /\ addons.all < MaxAddons
    /\ addons' = [task |-> addons.task + 1, all |-> addons.all + 1]
    /\ UNCHANGED <<stripe, db, events, sent, proc, crashes>>

-----------------------------------------------------------------------------
(* Stripe *)

\* A renewal fails, or succeeds after all.
Lapse(s) ==
    /\ "lapse" \in Happens
    /\ Active(s) /\ ChangeSub(s, stripe[s].plan, "past_due")
    /\ UNCHANGED <<db, proc, addons, crashes>>

Recover(s) ==
    /\ stripe[s].status = "past_due" /\ ChangeSub(s, stripe[s].plan, "active")
    /\ UNCHANGED <<db, proc, addons, crashes>>

\* The owner has asked for it (cancel_at_period_end), or renewals kept failing.
End(s) ==
    /\ "end" \in Happens
    /\ Open(s) /\ ChangeSub(s, stripe[s].plan, "deleted")
    /\ UNCHANGED <<db, proc, addons, crashes>>

-----------------------------------------------------------------------------
(* Handlers *)

Deliverable(e) == NotOverlapping /\ (Serial => \A f \in events : e.n <= f.n)

Answer(p) ==
    /\ events' = events \ {proc[p].ev}
    /\ proc' = [proc EXCEPT ![p] = Idle]

\* handle_subscription_updated: "Subscription is not active. Ignoring event".
Ignore(p, e) ==
    /\ proc[p].pc = "idle" /\ e \in events /\ Deliverable(e)
    /\ e.type = "updated" /\ e.status # "active"
    /\ events' = events \ {e}
    /\ UNCHANGED <<stripe, db, sent, proc, addons, crashes>>

\* webhook_received reads the workspace and its row.
Deliver(p, e) ==
    /\ proc[p].pc = "idle" /\ e \in events /\ Deliverable(e)
    /\ e.type = "updated" => e.status = "active"
    /\ proc' = [proc EXCEPT ![p] = [pc |-> "save", ev |-> e, old |-> db]]
    /\ UNCHANGED <<stripe, db, events, sent, addons, crashes>>

\* save_stripe_default_payment_method: "if user already has a subscription with
\* payment info, we do nothing", and then the workspace is read.
CheckAddon(p) ==
    /\ proc[p].pc = "idle" /\ addons.task > 0
    /\ addons' = [addons EXCEPT !.task = @ - 1]
    /\ IF db.provider THEN UNCHANGED proc
       ELSE proc' = [proc EXCEPT ![p] = [Idle EXCEPT !.pc = "addon"]]
    /\ UNCHANGED <<stripe, db, events, sent, crashes>>

ReadAddon(p) ==
    /\ proc[p].pc = "addon" /\ NotOverlapping
    /\ proc' = [proc EXCEPT ![p] = [pc |-> "save", ev |-> NoEvent, old |-> db]]
    /\ UNCHANGED <<stripe, db, events, sent, addons, crashes>>

\* What set_workspace_subscription writes for an event: its plan, or STARTER.
NewDb(ev) == IF ev.type = "updated"
             THEN [plan |-> ev.plan, sub |-> ev.sub, provider |-> TRUE]
             ELSE [plan |-> Starter, sub |-> NoSub, provider |-> TRUE]

\* Mutant of SaveSub: a deletion leaves the row alone.
SaveUpdates(p) ==
    /\ proc[p].pc = "save"
    /\ db' = IF proc[p].ev.type = "updated" THEN NewDb(proc[p].ev) ELSE db
    /\ Answer(p)
    /\ UNCHANGED <<stripe, sent, addons, crashes>>

\* set_workspace_subscription: save the whole row; a different subscription that the
\* row named when it was read is to be cancelled (old_sub.cancel() returns at once
\* for a free plan).
SaveSub(p) ==
    LET old == proc[p].old IN
    /\ proc[p].pc = "save"
    /\ db' = NewDb(proc[p].ev)
    /\ IF old.sub # NewDb(proc[p].ev).sub /\ old.plan # Starter
       THEN proc' = [proc EXCEPT ![p].pc = "cancel"] /\ UNCHANGED events
       ELSE Answer(p)
    /\ UNCHANGED <<stripe, sent, addons, crashes>>

\* Subscription.cancel() of a subscription that Stripe still has ...
Cancel(p) ==
    /\ proc[p].pc = "cancel"
    /\ LET s == proc[p].old.sub IN
       /\ Open(s)
       /\ sent < MaxEvents
       /\ sent' = sent + 1
       /\ stripe' = [stripe EXCEPT ![s].status = "deleted"]
       /\ events' = (events \ {proc[p].ev}) \cup
             {[n |-> sent + 1, type |-> "deleted", sub |-> s, plan |-> stripe[s].plan,
               status |-> "deleted"]}
    /\ proc' = [proc EXCEPT ![p] = Idle]
    /\ UNCHANGED <<db, addons, crashes>>

\* ... and of one that is gone ("already cancelled"): the row is set to STARTER.
CancelMissing(p) ==
    /\ proc[p].pc = "cancel"
    /\ ~Open(proc[p].old.sub)
    /\ db' = [plan |-> Starter, sub |-> NoSub, provider |-> TRUE]
    /\ Answer(p)
    /\ UNCHANGED <<stripe, sent, addons, crashes>>

\* The request fails before or after a step; Stripe will send its webhook again.
Crash(p) ==
    /\ proc[p].pc \in FailBefore /\ proc[p].ev.n # 0
    /\ crashes < MaxCrashes
    /\ crashes' = crashes + 1
    /\ proc' = [proc EXCEPT ![p] = Idle]
    /\ UNCHANGED <<stripe, db, events, sent, addons>>

PlanNext ==
    \/ \E p \in Procs, plan \in Plans : Buy(p, plan) \/ Switch(p, plan)
    \/ \E p \in Procs, s \in Subs : Create(p, s)
    \/ \E p \in Procs : \/ GiveUp(p) \/ Modify(p) \/ CheckAddon(p) \/ ReadAddon(p)
                        \/ SaveSub(p) \/ Cancel(p) \/ CancelMissing(p) \/ Crash(p)
    \/ \E p \in Procs, e \in events : Ignore(p, e) \/ Deliver(p, e)
    \/ \E s \in Subs : Lapse(s) \/ Recover(s) \/ End(s)
    \/ BuyAddon

PlanSpec == PlanInit /\ [][PlanNext]_plans

-----------------------------------------------------------------------------
PlanTypes ==
    /\ stripe \in [Subs -> StripeSub]
    /\ db \in Db
    /\ events \subseteq Event
    /\ sent \in 0 .. MaxEvents
    /\ proc \in [Procs -> Proc]
    /\ addons \in [task : 0 .. MaxAddons, all : 0 .. MaxAddons]
    /\ crashes \in 0 .. MaxCrashes

Settled == events = {} /\ addons.task = 0 /\ \A p \in Procs : proc[p].pc = "idle"

\* When every webhook has been answered, the row names the subscription that Stripe
\* bills, with its plan unless a renewal has failed, and a workspace that pays nothing
\* is on the free plan: with one billing page at a time and no failed renewals, also if
\* handlers fail before they cancel ("cancel previous subscription if it's not the same").
RowFollowsStripe ==
    Settled => IF \E s \in Subs : Open(s)
               THEN /\ db.sub # NoSub
                    /\ Open(db.sub)
                    /\ Active(db.sub) => db.plan = stripe[db.sub].plan
               ELSE db.plan = Starter /\ db.sub = NoSub

\* A workspace never keeps the plan of a subscription that Stripe does not bill.
NoFreeRide == Settled /\ db.plan # Starter => db.sub # NoSub /\ Open(db.sub)

\* Stripe has ended s, and no webhook is left that will say so to the row.
Gone(s) ==
    /\ stripe[s].status = "deleted"
    /\ \A e \in events : e.type = "deleted" /\ e.sub = s =>
          \E p \in Procs : proc[p].pc = "cancel" /\ proc[p].ev = e

Unpaid == db.plan # Starter /\ Gone(db.sub)

\* A plan that nobody pays is not kept, however webhooks overlap and in whatever order
\* they arrive, but for one way: an "updated" that tells of a subscription from before
\* its end, and is saved after the last that told of the end.
UnpaidIsStale ==
    [][~Unpaid /\ Unpaid' =>
          \E p \in Procs : SaveSub(p) /\ proc[p].ev.type = "updated" /\ Gone(proc[p].ev.sub)]_plans

\* Cancelling the previous subscription never takes the one just bought: a workspace
\* whose owner has not ended it keeps a subscription.
BoughtIsKept ==
    (Settled /\ \E s \in Subs : stripe[s].status # "none") => \E s \in Subs : Open(s)
=============================================================================
