------------------------- MODULE SubscriptionProofs -------------------------
(* Proofs about Subscription: its types, and the one way in which a plan that *)
(* nobody pays comes to be kept.                                               *)
EXTENDS Subscription, FiniteSetTheorems, TLAPS

Handling(p) == proc[p].pc \in {"save", "cancel"}

\* A row is free or names a subscription that Stripe has had.
Known(r) ==
    /\ r.plan = Starter <=> r.sub = NoSub
    /\ r.sub # NoSub => stripe[r.sub].status # "none"

\* What a purchase or an "updated" webhook reports.
Bought(ev) == ev.sub \in Subs /\ ev.plan \in Plans /\ stripe[ev.sub].status # "none"

PaidInv == \A s \in Subs : stripe[s].status # "none" => stripe[s].plan \in Plans

\* Webhooks tell of subscriptions, each at its own time, and of deletions for good.
EventInv ==
    /\ \A e \in events :
          /\ e.n \in 1 .. sent
          /\ Bought(e)
          /\ e.type \in {"updated", "deleted"}
          /\ e.type = "deleted" => stripe[e.sub].status = "deleted"
          /\ e.type = "updated" => e.status # "deleted"
    /\ \A e, f \in events : e.n = f.n => e = f

Request(p) ==
    /\ Known(proc[p].old)
    /\ InTab(p) => proc[p].ev.plan \in Plans
    /\ proc[p].pc = "modify" => proc[p].ev.sub \in Subs
    /\ Handling(p) =>
          \/ proc[p].ev.type = "updated" /\ Bought(proc[p].ev)
          \/ proc[p].ev.type = "deleted"
    /\ proc[p].pc = "cancel" => proc[p].old.sub # NoSub

RequestInv == \A p \in Procs : Request(p)

AddonInv == addons.task <= addons.all

PlanInv == PlanTypes /\ PaidInv /\ Known(db) /\ EventInv /\ RequestInv /\ AddonInv

\* A change at Stripe: ChangeSub, and Cancel, which also answers a webhook.
Report(s, plan, status) ==
    [n |-> sent + 1, type |-> IF status = "deleted" THEN "deleted" ELSE "updated",
     sub |-> s, plan |-> plan, status |-> status]

Changes(s, plan, status) ==
    /\ sent < MaxEvents
    /\ sent' = sent + 1
    /\ stripe' = [stripe EXCEPT ![s] = [status |-> status, plan |-> plan]]
    /\ events' \subseteq events \cup {Report(s, plan, status)}

-----------------------------------------------------------------------------
LEMMA StartTyped == PlanInit => PlanInv
  BY SubscriptionAssumption
  DEF PlanInit, PlanInv, PlanTypes, AddonInv, PaidInv, Known, EventInv, RequestInv, Request, StripeSub,
      Db, Proc, Event, Idle, NoEvent, NoDb, Bought, InTab, Handling

\* A change at Stripe keeps what is known of subscriptions and reports itself.
LEMMA ChangeTyped ==
  ASSUME PlanInv, NEW s \in Subs, NEW plan \in Plans,
         NEW status \in {"active", "past_due", "deleted"}, Changes(s, plan, status),
         stripe[s].status # "deleted"
  PROVE  /\ sent' \in 0 .. MaxEvents
         /\ stripe' \in [Subs -> StripeSub]
         /\ events' \subseteq Event
         /\ PaidInv' /\ EventInv'
         /\ \A u \in Subs : stripe[u].status # "none" => stripe'[u].status # "none"
<1> DEFINE new == Report(s, plan, status)
<1>1. /\ sent \in Nat /\ sent < MaxEvents /\ sent' = sent + 1
      /\ stripe' = [stripe EXCEPT ![s] = [status |-> status, plan |-> plan]]
      /\ events' \subseteq events \cup {new}
      /\ stripe \in [Subs -> StripeSub]
      /\ events \subseteq Event
  BY SubscriptionAssumption DEF Changes, PlanInv, PlanTypes
<1>2. [status |-> status, plan |-> plan] \in StripeSub
  BY DEF StripeSub
<1>3. stripe' \in [Subs -> StripeSub]
  BY <1>1, <1>2
<1>4. new \in Event
  BY <1>1 DEF Event, Report
<1>5. sent' \in 0 .. MaxEvents
  BY <1>1, SubscriptionAssumption
<1>6. \A u \in Subs : stripe'[u] = IF u = s THEN [status |-> status, plan |-> plan] ELSE stripe[u]
  BY <1>1
<1>7. PaidInv'
  BY <1>6 DEF PaidInv, PlanInv
<1>8. \A u \in Subs : stripe[u].status # "none" => stripe'[u].status # "none"
  BY <1>6
<1>9. \A e \in events : e # new /\ e.n # new.n /\ e.n \in 1 .. sent'
  BY <1>1 DEF PlanInv, EventInv, Report
<1>10. ASSUME NEW e \in events'
       PROVE  /\ e.n \in 1 .. sent'
              /\ Bought(e)'
              /\ e.type \in {"updated", "deleted"}
              /\ e.type = "deleted" => stripe'[e.sub].status = "deleted"
              /\ e.type = "updated" => e.status # "deleted"
  <2>1. CASE e = new
    BY <1>1, <1>6, <2>1 DEF Bought, Report
  <2>2. CASE e \in events
    BY <1>6, <1>8, <1>9, <2>2 DEF PlanInv, EventInv, Bought
  <2> QED  BY <1>1, <1>10, <2>1, <2>2
<1>11. \A e, f \in events' : e.n = f.n => e = f
  BY <1>1, <1>9 DEF PlanInv, EventInv
<1>12. EventInv'
  BY <1>10, <1>11 DEF EventInv
<1> QED  BY <1>1, <1>3, <1>4, <1>5, <1>7, <1>8, <1>12

\* What is known of subscriptions stays known, and an idle request knows nothing.
LEMMA RequestTyped ==
  ASSUME PlanInv, \A u \in Subs : stripe[u].status # "none" => stripe'[u].status # "none",
         \A q \in Procs : proc'[q] \in {proc[q], Idle} \/ (proc'[q] \in Proc /\ Request(q)'),
         proc' = [q \in Procs |-> proc'[q]]
  PROVE  RequestInv' /\ proc' \in [Procs -> Proc]
<1>1. Idle \in Proc
  BY DEF Idle, Proc, Event, NoEvent, Db, NoDb
<1>2. \A q \in Procs : proc'[q] \in Proc
  BY <1>1 DEF PlanInv, PlanTypes
<1>3. ASSUME NEW q \in Procs PROVE Request(q)'
  <2>1. CASE proc'[q] = proc[q]
    <3>1. proc[q] \in Proc /\ Request(q)
      BY DEF PlanInv, PlanTypes, RequestInv
    <3>2. proc[q].old.sub \in Subs \cup {NoSub}
      BY <3>1 DEF Proc, Db
    <3> QED  BY <2>1, <3>1, <3>2 DEF Request, Known, InTab, Handling, Bought
  <2>2. CASE proc'[q] = Idle
    BY <2>2 DEF Request, Known, InTab, Handling, Idle, NoDb
  <2> QED  BY <2>1, <2>2
<1> QED  BY <1>2, <1>3 DEF RequestInv

\* The pages.
LEMMA BuyTyped ==
  ASSUME PlanInv, NEW p \in Procs, NEW plan \in Plans, Buy(p, plan)
  PROVE  PlanInv'
<1> USE SubscriptionAssumption
<1>1. PICK new \in Proc :
         /\ proc' = [proc EXCEPT ![p] = new]
         /\ new.old = db
         /\ \/ /\ new.pc = "create" /\ new.ev.plan \in Plans
            \/ /\ new.pc = "save" /\ new.ev.type = "updated" /\ Bought(new.ev)
  <2>1. CASE \E s \in Subs : Active(s) /\ proc' = [proc EXCEPT ![p] =
                   [pc |-> "save", ev |-> Updated(s, stripe[s].plan, "active"), old |-> db]]
    <3>1. PICK s \in Subs : Active(s) /\ proc' = [proc EXCEPT ![p] =
                   [pc |-> "save", ev |-> Updated(s, stripe[s].plan, "active"), old |-> db]]
      BY <2>1
    <3>2. stripe[s].plan \in Plans /\ stripe[s].status # "none"
      BY <3>1 DEF PlanInv, PaidInv, Active
    <3>3. Updated(s, stripe[s].plan, "active") \in Event
      BY <3>2 DEF Updated, Event
    <3>4. [pc |-> "save", ev |-> Updated(s, stripe[s].plan, "active"), old |-> db] \in Proc
      BY <3>3 DEF Proc, PlanInv, PlanTypes
    <3> QED  BY <3>1, <3>2, <3>4 DEF Updated, Bought
  <2>2. CASE proc' = [proc EXCEPT ![p] =
                   [pc |-> "create", ev |-> Updated(NoSub, plan, "active"), old |-> db]]
    <3>1. Updated(NoSub, plan, "active") \in Event
      BY DEF Updated, Event
    <3>2. [pc |-> "create", ev |-> Updated(NoSub, plan, "active"), old |-> db] \in Proc
      BY <3>1 DEF Proc, PlanInv, PlanTypes
    <3> QED  BY <2>2, <3>2 DEF Updated
  <2> QED  BY <2>1, <2>2 DEF Buy
<1>2. /\ UNCHANGED <<stripe, db, events, sent, addons, crashes>>
      /\ proc \in [Procs -> Proc]
  BY DEF Buy, PlanInv, PlanTypes
<1>3. \A q \in Procs : proc'[q] = IF q = p THEN new ELSE proc[q]
  BY <1>1, <1>2
<1>4. Request(p)'
  <2>1. Known(db)
    BY DEF PlanInv
  <2> QED  BY <1>1, <1>2, <1>3, <2>1 DEF Request, Known, InTab, Handling, Bought
<1>5. RequestInv' /\ proc' \in [Procs -> Proc]
  <2>1. \A q \in Procs : proc'[q] \in {proc[q], Idle} \/ (proc'[q] \in Proc /\ Request(q)')
    BY <1>3, <1>4
  <2> QED  BY <1>1, <1>2, <2>1, RequestTyped
<1> QED  BY <1>2, <1>5 DEF PlanInv, PlanTypes, AddonInv, PaidInv, Known, EventInv, Bought

\* A step that changes nothing at Stripe: a few requests move, webhooks are answered.
LEMMA QuietTyped ==
  ASSUME PlanInv, UNCHANGED <<stripe, sent>>, events' \subseteq events,
         db' \in Db, Known(db)',
         addons' \in [task : 0 .. MaxAddons, all : 0 .. MaxAddons], AddonInv',
         crashes' \in 0 .. MaxCrashes,
         \A q \in Procs : proc'[q] \in {proc[q], Idle} \/ (proc'[q] \in Proc /\ Request(q)'),
         proc' = [q \in Procs |-> proc'[q]]
  PROVE  PlanInv'
<1>1. RequestInv' /\ proc' \in [Procs -> Proc]
  BY RequestTyped
<1>2. EventInv' /\ PaidInv'
  BY DEF PlanInv, EventInv, PaidInv, Bought
<1>3. PlanTypes'
  BY <1>1 DEF PlanInv, PlanTypes
<1> QED  BY <1>1, <1>2, <1>3 DEF PlanInv

\* A change at Stripe, made by a page or by Stripe itself.
LEMMA StripeTyped ==
  ASSUME PlanInv, NEW s \in Subs, NEW plan \in Plans,
         NEW status \in {"active", "past_due", "deleted"}, Changes(s, plan, status),
         stripe[s].status # "deleted", UNCHANGED <<db, addons, crashes>>,
         \A q \in Procs : proc'[q] \in {proc[q], Idle}, proc' = [q \in Procs |-> proc'[q]]
  PROVE  PlanInv'
<1>1. /\ sent' \in 0 .. MaxEvents
      /\ stripe' \in [Subs -> StripeSub]
      /\ events' \subseteq Event
      /\ PaidInv' /\ EventInv'
      /\ \A u \in Subs : stripe[u].status # "none" => stripe'[u].status # "none"
  BY ChangeTyped
<1>2. RequestInv' /\ proc' \in [Procs -> Proc]
  BY <1>1, RequestTyped
<1>3. Known(db)'
  BY <1>1 DEF PlanInv, PlanTypes, Known, Db
<1>4. PlanTypes'
  BY <1>1, <1>2 DEF PlanInv, PlanTypes
<1> QED  BY <1>1, <1>2, <1>3, <1>4 DEF PlanInv, AddonInv

LEMMA ChangeSubChanges ==
  ASSUME NEW s, NEW plan, NEW status, ChangeSub(s, plan, status)
  PROVE  Changes(s, plan, status)
  BY DEF ChangeSub, Changes, Report

LEMMA CreateTyped ==
  ASSUME PlanInv, NEW p \in Procs, NEW s \in Subs, Create(p, s)
  PROVE  PlanInv'
<1>1. proc[p].ev.plan \in Plans /\ proc \in [Procs -> Proc]
  BY DEF Create, PlanInv, PlanTypes, RequestInv, Request, InTab
<1>2. \A q \in Procs : proc'[q] \in {proc[q], Idle}
  BY <1>1 DEF Create
<1> QED  BY <1>1, <1>2, ChangeSubChanges, StripeTyped DEF Create

LEMMA GiveUpTyped ==
  ASSUME PlanInv, NEW p \in Procs, GiveUp(p)
  PROVE  PlanInv'
<1>1. \A q \in Procs : proc'[q] \in {proc[q], Idle}
  BY DEF GiveUp, PlanInv, PlanTypes
<1>2. Known(db)' /\ db' \in Db
  BY DEF GiveUp, PlanInv, PlanTypes, Known
<1> QED  BY <1>1, <1>2, QuietTyped DEF GiveUp, PlanInv, PlanTypes, AddonInv

LEMMA SwitchTyped ==
  ASSUME PlanInv, NEW p \in Procs, NEW plan \in Plans, Switch(p, plan)
  PROVE  PlanInv'
<1> DEFINE new == [pc |-> "modify", ev |-> Updated(db.sub, plan, "active"), old |-> db]
<1>1. /\ proc \in [Procs -> Proc] /\ proc' = [proc EXCEPT ![p] = new]
      /\ UNCHANGED <<stripe, db, events, sent, addons, crashes>>
      /\ db \in Db /\ db.sub \in Subs /\ Known(db)
  BY DEF Switch, PlanInv, PlanTypes, Db
<1>2. Updated(db.sub, plan, "active") \in Event
  BY <1>1 DEF Updated, Event
<1>3. new \in Proc
  BY <1>1, <1>2 DEF Proc
<1>4. \A q \in Procs : proc'[q] = IF q = p THEN new ELSE proc[q]
  BY <1>1
<1>5. Request(p)'
  BY <1>1, <1>4 DEF Request, Known, InTab, Handling, Updated
<1>6. \A q \in Procs : proc'[q] \in {proc[q], Idle} \/ (proc'[q] \in Proc /\ Request(q)')
  BY <1>3, <1>4, <1>5
<1>7. Known(db)'
  BY <1>1 DEF Known
<1> QED  BY <1>1, <1>6, <1>7, QuietTyped DEF PlanInv, PlanTypes, AddonInv

LEMMA ModifyTyped ==
  ASSUME PlanInv, NEW p \in Procs, Modify(p)
  PROVE  PlanInv'
<1> DEFINE s == proc[p].ev.sub
<1>1. /\ s \in Subs /\ proc[p].ev.plan \in Plans /\ proc \in [Procs -> Proc]
  BY DEF Modify, PlanInv, PlanTypes, RequestInv, Request, InTab
<1>2. stripe[s].status \in {"active", "past_due"}
  BY DEF Modify, Open
<1>3. \A q \in Procs : proc'[q] \in {proc[q], Idle}
  BY <1>1 DEF Modify
<1>4. ChangeSub(s, proc[p].ev.plan, stripe[s].status)
  BY DEF Modify
<1>5. Changes(s, proc[p].ev.plan, stripe[s].status)
  BY <1>4, ChangeSubChanges
<1>6. proc' = [q \in Procs |-> proc'[q]] /\ UNCHANGED <<db, addons, crashes>>
  BY <1>1 DEF Modify
<1> HIDE DEF s
<1> QED  BY <1>1, <1>2, <1>3, <1>5, <1>6, StripeTyped

LEMMA BuyAddonTyped ==
  ASSUME PlanInv, BuyAddon
  PROVE  PlanInv'
<1>1. addons' \in [task : 0 .. MaxAddons, all : 0 .. MaxAddons] /\ AddonInv'
  BY SubscriptionAssumption DEF BuyAddon, PlanInv, PlanTypes, AddonInv
<1>2. Known(db)' /\ db' \in Db
  BY DEF BuyAddon, PlanInv, PlanTypes, Known
<1>3. proc' = [q \in Procs |-> proc'[q]] /\ \A q \in Procs : proc'[q] = proc[q]
  BY DEF BuyAddon, PlanInv, PlanTypes
<1> QED  BY <1>1, <1>2, <1>3, QuietTyped DEF BuyAddon, PlanInv, PlanTypes

\* Stripe itself.
LEMMA StripeItselfTyped ==
  ASSUME PlanInv, NEW s \in Subs, Lapse(s) \/ Recover(s) \/ End(s)
  PROVE  PlanInv'
<1>1. stripe[s].plan \in Plans
  BY DEF Lapse, Recover, End, Active, Open, PlanInv, PaidInv
<1>2. proc' = [q \in Procs |-> proc'[q]] /\ \A q \in Procs : proc'[q] = proc[q]
  BY DEF Lapse, Recover, End, PlanInv, PlanTypes
<1>3. PICK status \in {"active", "past_due", "deleted"} : ChangeSub(s, stripe[s].plan, status)
  BY DEF Lapse, Recover, End
<1> QED  BY <1>1, <1>2, <1>3, ChangeSubChanges, StripeTyped
         DEF Lapse, Recover, End, Active, Open

\* The handlers.
LEMMA IgnoreTyped ==
  ASSUME PlanInv, NEW p \in Procs, NEW e \in events, Ignore(p, e)
  PROVE  PlanInv'
<1>1. proc' = [q \in Procs |-> proc'[q]] /\ \A q \in Procs : proc'[q] = proc[q]
  BY DEF Ignore, PlanInv, PlanTypes
<1>2. Known(db)' /\ db' \in Db
  BY DEF Ignore, PlanInv, PlanTypes, Known
<1> QED  BY <1>1, <1>2, QuietTyped DEF Ignore, PlanInv, PlanTypes, AddonInv

LEMMA DeliverTyped ==
  ASSUME PlanInv, NEW p \in Procs, NEW e \in events, Deliver(p, e)
  PROVE  PlanInv'
<1> DEFINE new == [pc |-> "save", ev |-> e, old |-> db]
<1>1. /\ proc \in [Procs -> Proc] /\ proc' = [proc EXCEPT ![p] = new]
      /\ UNCHANGED <<stripe, db, events, sent, addons, crashes>>
      /\ db \in Db /\ Known(db) /\ e \in Event
  BY DEF Deliver, PlanInv, PlanTypes
<1>2. new \in Proc
  BY <1>1 DEF Proc
<1>3. \A q \in Procs : proc'[q] = IF q = p THEN new ELSE proc[q]
  BY <1>1
<1>4. Bought(e) /\ e.type \in {"updated", "deleted"}
  BY DEF PlanInv, EventInv
<1>5. Request(p)'
  BY <1>1, <1>3, <1>4 DEF Request, Known, InTab, Handling, Bought
<1>6. \A q \in Procs : proc'[q] \in {proc[q], Idle} \/ (proc'[q] \in Proc /\ Request(q)')
  BY <1>2, <1>3, <1>5
<1>7. Known(db)'
  BY <1>1 DEF Known
<1> QED  BY <1>1, <1>6, <1>7, QuietTyped DEF PlanInv, PlanTypes, AddonInv

LEMMA CheckAddonTyped ==
  ASSUME PlanInv, NEW p \in Procs, CheckAddon(p)
  PROVE  PlanInv'
<1> DEFINE new == [pc |-> "addon", ev |-> NoEvent, old |-> NoDb]
<1>1. /\ proc \in [Procs -> Proc]
      /\ proc' \in {proc, [proc EXCEPT ![p] = new]}
      /\ UNCHANGED <<stripe, db, events, sent, crashes>>
      /\ db \in Db /\ Known(db)
  BY DEF CheckAddon, PlanInv, PlanTypes, Idle
<1>2. new \in Proc
  BY DEF Proc, Event, NoEvent, Db, NoDb
<1>3. \A q \in Procs : proc'[q] = proc[q] \/ (q = p /\ proc'[q] = new)
  BY <1>1
<1>4. ASSUME proc'[p] = new PROVE Request(p)'
  BY <1>4 DEF Request, Known, InTab, Handling, NoDb
<1>5. \A q \in Procs : proc'[q] \in {proc[q], Idle} \/ (proc'[q] \in Proc /\ Request(q)')
  BY <1>2, <1>3, <1>4
<1>6. addons' \in [task : 0 .. MaxAddons, all : 0 .. MaxAddons] /\ AddonInv'
  <2>1. /\ addons \in [task : 0 .. MaxAddons, all : 0 .. MaxAddons] /\ AddonInv
        /\ addons.task > 0 /\ addons' = [addons EXCEPT !.task = addons.task - 1]
    BY DEF CheckAddon, PlanInv, PlanTypes
  <2>2. addons.task - 1 \in 0 .. MaxAddons /\ addons.task - 1 <= addons.all
    BY <2>1, SubscriptionAssumption DEF AddonInv
  <2> QED  BY <2>1, <2>2 DEF AddonInv
<1>7. Known(db)'
  BY <1>1 DEF Known
<1>8. proc' = [q \in Procs |-> proc'[q]]
  BY <1>1
<1> QED  BY <1>1, <1>5, <1>6, <1>7, <1>8, QuietTyped DEF PlanInv, PlanTypes

LEMMA ReadAddonTyped ==
  ASSUME PlanInv, NEW p \in Procs, ReadAddon(p)
  PROVE  PlanInv'
<1> DEFINE new == [pc |-> "save", ev |-> NoEvent, old |-> db]
<1>1. /\ proc \in [Procs -> Proc]
      /\ UNCHANGED <<stripe, db, events, sent, addons, crashes>>
      /\ db \in Db /\ Known(db)
  BY DEF ReadAddon, PlanInv, PlanTypes
<1>2. proc' = [proc EXCEPT ![p] = new]
  BY DEF ReadAddon
<1>3. new \in Proc
  BY <1>1 DEF Proc, Event, NoEvent
<1>4. \A q \in Procs : proc'[q] = IF q = p THEN new ELSE proc[q]
  BY <1>1, <1>2
<1>5. Request(p)'
  BY <1>1, <1>4 DEF Request, Known, InTab, Handling, NoEvent
<1>6. \A q \in Procs : proc'[q] \in {proc[q], Idle} \/ (proc'[q] \in Proc /\ Request(q)')
  BY <1>3, <1>4, <1>5
<1>7. Known(db)'
  BY <1>1 DEF Known
<1> QED  BY <1>1, <1>2, <1>6, <1>7, QuietTyped DEF PlanInv, PlanTypes, AddonInv

LEMMA NewRowTyped ==
  ASSUME PlanInv, NEW p \in Procs, Handling(p)
  PROVE  NewDb(proc[p].ev) \in Db /\ Known(NewDb(proc[p].ev))
<1>1. \/ proc[p].ev.type = "updated" /\ Bought(proc[p].ev)
      \/ proc[p].ev.type = "deleted"
  BY DEF PlanInv, RequestInv, Request
<1> QED  BY <1>1, SubscriptionAssumption DEF NewDb, Bought, Known, Db

LEMMA SaveTyped ==
  ASSUME PlanInv, NEW p \in Procs, SaveSub(p)
  PROVE  PlanInv'
<1>1. /\ proc \in [Procs -> Proc] /\ proc[p].pc = "save"
      /\ db' = NewDb(proc[p].ev)
      /\ events' \subseteq events
      /\ UNCHANGED <<stripe, sent, addons, crashes>>
  BY DEF SaveSub, Answer, PlanInv, PlanTypes
<1>2. db' \in Db /\ Known(db)'
  BY <1>1, NewRowTyped DEF Handling, Known
<1>3. \/ proc' = [proc EXCEPT ![p] = Idle]
      \/ /\ proc' = [proc EXCEPT ![p].pc = "cancel"]
         /\ proc[p].old.plan # Starter
  BY DEF SaveSub, Answer
<1>4. proc[p] \in Proc /\ Request(p) /\ proc[p].old.sub \in Subs \cup {NoSub}
  BY <1>1 DEF PlanInv, RequestInv, Proc, Db
<1>5. ASSUME proc' = [proc EXCEPT ![p].pc = "cancel"], proc[p].old.plan # Starter
      PROVE  proc'[p] \in Proc /\ Request(p)'
  <2>1. proc'[p] = [pc |-> "cancel", ev |-> proc[p].ev, old |-> proc[p].old]
    BY <1>1, <1>4, <1>5 DEF Proc
  <2>2. proc'[p] \in Proc
    BY <2>1, <1>4 DEF Proc
  <2>3. proc[p].old.sub # NoSub
    BY <1>4, <1>5 DEF Request, Known
  <2> QED  BY <1>1, <1>4, <2>1, <2>2, <2>3 DEF Request, Known, InTab, Handling, Bought
<1>6. \A q \in Procs : proc'[q] \in {proc[q], Idle} \/ (proc'[q] \in Proc /\ Request(q)')
  BY <1>1, <1>3, <1>5
<1>7. proc' = [q \in Procs |-> proc'[q]]
  BY <1>1, <1>3
<1> QED  BY <1>1, <1>2, <1>6, <1>7, QuietTyped DEF PlanInv, PlanTypes, AddonInv

LEMMA CancelTyped ==
  ASSUME PlanInv, NEW p \in Procs, Cancel(p)
  PROVE  PlanInv'
<1> DEFINE s == proc[p].old.sub
<1>1. proc \in [Procs -> Proc] /\ proc[p].pc = "cancel" /\ Open(s)
  BY DEF Cancel, PlanInv, PlanTypes
<1>2. s \in Subs
  BY <1>1 DEF PlanInv, RequestInv, Request, Proc, Db
<1>3. stripe \in [Subs -> StripeSub] /\ stripe[s] \in StripeSub
  BY <1>2 DEF PlanInv, PlanTypes
<1>4. stripe[s].plan \in Plans
  BY <1>1, <1>2 DEF PlanInv, PaidInv, Open
<1>5. [stripe[s] EXCEPT !.status = "deleted"] = [status |-> "deleted", plan |-> stripe[s].plan]
  BY <1>3 DEF StripeSub
<1>6. Changes(s, stripe[s].plan, "deleted")
  BY <1>5 DEF Cancel, Changes, Report
<1>7. \A q \in Procs : proc'[q] \in {proc[q], Idle}
  BY <1>1 DEF Cancel
<1>8. proc' = [q \in Procs |-> proc'[q]] /\ UNCHANGED <<db, addons, crashes>>
  BY <1>1 DEF Cancel
<1> QED  BY <1>1, <1>2, <1>4, <1>6, <1>7, <1>8, StripeTyped DEF Open

LEMMA CancelMissingTyped ==
  ASSUME PlanInv, NEW p \in Procs, CancelMissing(p)
  PROVE  PlanInv'
<1>1. db' \in Db /\ Known(db)'
  BY SubscriptionAssumption DEF CancelMissing, Db, Known
<1>2. \A q \in Procs : proc'[q] \in {proc[q], Idle}
  BY DEF CancelMissing, Answer, PlanInv, PlanTypes
<1> QED  BY <1>1, <1>2, QuietTyped DEF CancelMissing, Answer, PlanInv, PlanTypes, AddonInv

LEMMA CrashTyped ==
  ASSUME PlanInv, NEW p \in Procs, Crash(p)
  PROVE  PlanInv'
<1>1. db' \in Db /\ Known(db)'
  BY DEF Crash, PlanInv, PlanTypes, Known
<1>2. \A q \in Procs : proc'[q] \in {proc[q], Idle}
  BY DEF Crash, PlanInv, PlanTypes
<1>3. crashes' \in 0 .. MaxCrashes
  BY SubscriptionAssumption DEF Crash, PlanInv, PlanTypes
<1> QED  BY <1>1, <1>2, <1>3, QuietTyped DEF Crash, PlanInv, PlanTypes, AddonInv

\* Every step keeps what the rows, the webhooks and the requests name known to Stripe.
LEMMA PlanStep ==
  ASSUME PlanInv, [PlanNext]_plans
  PROVE  PlanInv'
<1>1. CASE UNCHANGED plans
  BY <1>1 DEF plans, PlanInv, PlanTypes, PaidInv, Known, EventInv, Bought, RequestInv,
     Request, InTab, Handling, AddonInv
<1>2. ASSUME NEW p \in Procs, NEW plan \in Plans, Buy(p, plan) \/ Switch(p, plan)
      PROVE  PlanInv'
  BY <1>2, BuyTyped, SwitchTyped
<1>3. ASSUME NEW p \in Procs, NEW s \in Subs, Create(p, s) PROVE PlanInv'
  BY <1>3, CreateTyped
<1>4. ASSUME NEW p \in Procs,
             \/ GiveUp(p) \/ Modify(p) \/ CheckAddon(p) \/ ReadAddon(p)
             \/ SaveSub(p) \/ Cancel(p) \/ CancelMissing(p) \/ Crash(p)
      PROVE  PlanInv'
  BY <1>4, GiveUpTyped, ModifyTyped, CheckAddonTyped, ReadAddonTyped, SaveTyped,
     CancelTyped, CancelMissingTyped, CrashTyped
<1>5. ASSUME NEW p \in Procs, NEW e \in events, Ignore(p, e) \/ Deliver(p, e) PROVE PlanInv'
  BY <1>5, IgnoreTyped, DeliverTyped
<1>6. ASSUME NEW s \in Subs, Lapse(s) \/ Recover(s) \/ End(s) PROVE PlanInv'
  BY <1>6, StripeItselfTyped
<1>7. CASE BuyAddon
  BY <1>7, BuyAddonTyped
<1> QED  BY <1>1, <1>2, <1>3, <1>4, <1>5, <1>6, <1>7 DEF PlanNext

LEMMA PlanAlways == PlanSpec => []PlanInv
  BY StartTyped, PlanStep, PTL DEF PlanSpec

\* Rows, webhooks and requests are well typed: what a handler is about to save or cancel
\* is a subscription that Stripe has had (payments/webhooks.py, set_workspace_subscription).
THEOREM PlansTyped == PlanSpec => []PlanTypes
<1>1. PlanInv => PlanTypes
  BY DEF PlanInv
<1> QED  BY <1>1, PlanAlways, PTL

-----------------------------------------------------------------------------
(* Plans that nobody pays *)

\* What a request handles has been sent: a new webhook is nobody's yet.
SentInv == \A p \in Procs : proc[p].ev.n <= sent

LEMMA StartSent == PlanInit => SentInv
  BY SubscriptionAssumption DEF PlanInit, SentInv, Idle, NoEvent

LEMMA SentStep ==
  ASSUME PlanInv, SentInv, [PlanNext]_plans
  PROVE  SentInv'
<1>1. /\ sent \in Nat /\ proc \in [Procs -> Proc] /\ Idle.ev.n = 0
      /\ \A e \in events : e.n <= sent /\ e.n \in Nat
  BY SubscriptionAssumption DEF PlanInv, PlanTypes, EventInv, Idle, NoEvent, Event
<1>2. SUFFICES ASSUME NEW q \in Procs PROVE proc'[q].ev.n <= sent'
  BY DEF SentInv
<1>3. proc[q].ev.n <= sent /\ proc[q].ev.n \in Nat
  BY <1>1 DEF SentInv, Proc, Event
<1>4. sent' \in {sent, sent + 1}
  BY DEF PlanNext, plans, Buy, Create, GiveUp, Switch, Modify, BuyAddon, Lapse, Recover, End,
     Ignore, Deliver, CheckAddon, ReadAddon, SaveSub, Cancel, CancelMissing, Crash, ChangeSub
<1>5. proc'[q].ev.n = proc[q].ev.n \/ proc'[q].ev.n = 0 \/ \E e \in events : proc'[q].ev.n = e.n
  <2>1. ASSUME NEW p \in Procs, NEW plan \in Plans, Buy(p, plan) \/ Switch(p, plan)
        PROVE  proc'[q].ev.n = proc[q].ev.n \/ proc'[q].ev.n = 0
    BY <1>1, <2>1 DEF Buy, Switch, Updated
  <2>2. ASSUME NEW p \in Procs, NEW s \in Subs, Create(p, s)
        PROVE  proc'[q].ev.n = proc[q].ev.n \/ proc'[q].ev.n = 0
    BY <1>1, <2>2 DEF Create
  <2>3. ASSUME NEW p \in Procs, \/ GiveUp(p) \/ Modify(p) \/ CheckAddon(p) \/ ReadAddon(p)
                                \/ Cancel(p) \/ CancelMissing(p) \/ Crash(p)
        PROVE  proc'[q].ev.n = proc[q].ev.n \/ proc'[q].ev.n = 0
    BY <1>1, <2>3 DEF GiveUp, Modify, CheckAddon, ReadAddon, Cancel, CancelMissing, Crash, Answer,
       Idle, NoEvent
  <2>4. ASSUME NEW p \in Procs, SaveSub(p)
        PROVE  proc'[q].ev.n = proc[q].ev.n \/ proc'[q].ev.n = 0
    <3>1. proc' = [proc EXCEPT ![p] = Idle] \/ proc' = [proc EXCEPT ![p].pc = "cancel"]
      BY <2>4 DEF SaveSub, Answer
    <3> QED  BY <1>1, <3>1 DEF Proc
  <2>5. ASSUME NEW p \in Procs, NEW e \in events, Ignore(p, e) \/ Deliver(p, e)
        PROVE  proc'[q].ev.n = proc[q].ev.n \/ proc'[q].ev.n = e.n
    BY <1>1, <2>5 DEF Ignore, Deliver
  <2>6. ASSUME \/ \E s \in Subs : Lapse(s) \/ Recover(s) \/ End(s)
               \/ BuyAddon \/ UNCHANGED plans
        PROVE  proc'[q].ev.n = proc[q].ev.n
    BY <2>6 DEF Lapse, Recover, End, BuyAddon, plans
  <2> QED  BY <2>1, <2>2, <2>3, <2>4, <2>5, <2>6 DEF PlanNext
<1> QED  BY <1>1, <1>3, <1>4, <1>5

\* An end at Stripe is told to the row: right after it the row is not yet unpaid.
LEMMA EndIsTold ==
  ASSUME PlanInv, SentInv, NEW s \in Subs, UNCHANGED db,
         NEW e \in events', e.n = sent + 1, e.type = "deleted", e.sub = s,
         \A q \in Procs : proc'[q] \in {proc[q], Idle}
  PROVE  ~Gone(s)'
<1>1. sent \in Nat /\ Idle.pc = "idle"
  BY SubscriptionAssumption DEF PlanInv, PlanTypes, Idle
<1>2. \A q \in Procs : ~(proc'[q].pc = "cancel" /\ proc'[q].ev = e)
  BY <1>1 DEF SentInv
<1> QED  BY <1>2 DEF Gone

\* A subscription that stays as it was and of which no webhook has come or gone.
LEMMA GoneBefore ==
  ASSUME NEW s, stripe'[s] = stripe[s], Gone(s)',
         \A e \in events : e.type = "deleted" /\ e.sub = s =>
             \/ e \in events'
             \/ \E p \in Procs : proc[p].pc = "cancel" /\ proc[p].ev = e,
         \A q \in Procs : proc'[q].pc = "cancel" /\ proc'[q].ev.type = "deleted" => proc'[q] = proc[q]
  PROVE  Gone(s)
  BY DEF Gone

\* A row that comes to be unpaid without a change of it.
LEMMA StaysUnpaid ==
  ASSUME UNCHANGED db, ~Unpaid, db.plan # Starter => db.sub \in Subs, Unpaid'
  PROVE  \E t \in Subs : t = db.sub /\ Gone(t)' /\ ~Gone(t)
<1>1. db.plan # Starter /\ db.sub \in Subs
  BY DEF Unpaid
<1>2. PICK t \in Subs : t = db.sub
  BY <1>1
<1>3. Gone(t)'
  BY <1>2 DEF Unpaid, Gone
<1>4. ~Gone(t)
  BY <1>1, <1>2 DEF Unpaid
<1> QED  BY <1>2, <1>3, <1>4

LEMMA OtherSteps ==
  ASSUME PlanInv, SentInv, [PlanNext]_plans, \A p \in Procs : ~SaveSub(p), ~Unpaid
  PROVE  ~Unpaid'
<1>1. /\ proc \in [Procs -> Proc] /\ Idle.pc = "idle" /\ Idle.ev.type = "deleted"
      /\ stripe \in [Subs -> StripeSub]
      /\ db.plan # Starter => db.sub \in Subs
      /\ \A s \in Subs : Open(s) => stripe[s].status # "deleted"
  BY DEF PlanInv, PlanTypes, Known, Db, Idle, NoEvent, Open
<1>2. ASSUME NEW p \in Procs, CancelMissing(p) PROVE ~Unpaid'
  BY <1>2 DEF CancelMissing, Unpaid
<1>3. ASSUME NEW s \in Subs, NEW plan, NEW status, ChangeSub(s, plan, status), UNCHANGED db,
             \A q \in Procs : proc'[q] \in {proc[q], Idle}
      PROVE  ~Unpaid'
  <2>1. SUFFICES ASSUME NEW t \in Subs, t = db.sub, Gone(t)', ~Gone(t) PROVE FALSE
    BY <1>1, <1>3, StaysUnpaid
  <2>2. /\ stripe' = [stripe EXCEPT ![s] = [status |-> status, plan |-> plan]]
        /\ events' = events \cup {Report(s, plan, status)}
    BY <1>3 DEF ChangeSub, Report
  <2>3. CASE s = t
    <3>1. status = "deleted"
      BY <1>1, <2>1, <2>2, <2>3 DEF Gone
    <3>2. \E e \in events' : e.n = sent + 1 /\ e.type = "deleted" /\ e.sub = s
      <4>1. Report(s, plan, status) \in events'
        BY <2>2
      <4> QED  BY <3>1, <4>1 DEF Report
    <3> QED  BY <1>3, <2>1, <2>3, <3>2, EndIsTold
  <2>4. CASE s # t
    BY <1>1, <1>3, <2>1, <2>2, <2>4, GoneBefore
  <2> QED  BY <2>3, <2>4
<1>4. ASSUME NEW p \in Procs, Cancel(p) PROVE ~Unpaid'
  <2>1. UNCHANGED db /\ \A q \in Procs : proc'[q] \in {proc[q], Idle}
    BY <1>1, <1>4 DEF Cancel
  <2>2. SUFFICES ASSUME NEW t \in Subs, t = db.sub, Gone(t)', ~Gone(t) PROVE FALSE
    BY <1>1, <2>1, StaysUnpaid
  <2> DEFINE old == proc[p].old.sub
             new == [n |-> sent + 1, type |-> "deleted", sub |-> old, plan |-> stripe[old].plan,
                     status |-> "deleted"]
  <2>5. /\ stripe' = [stripe EXCEPT ![old].status = "deleted"]
        /\ events' = (events \ {proc[p].ev}) \cup {new} /\ proc[p].pc = "cancel"
    BY <1>4 DEF Cancel
  <2>3. CASE old = t
    <3>1. \E e \in events' : e.n = sent + 1 /\ e.type = "deleted" /\ e.sub = t
      <4>1. new \in events'
        BY <2>5
      <4> QED  BY <2>3, <4>1
    <3> QED  BY <2>1, <2>2, <3>1, EndIsTold
  <2>4. CASE old # t
    <3>1. stripe'[t] = stripe[t]
      BY <1>1, <2>4, <2>5
    <3>2. \A e \in events : e \in events' \/ (proc[p].pc = "cancel" /\ proc[p].ev = e)
      BY <2>5
    <3> QED  BY <1>1, <2>1, <2>2, <3>1, <3>2, GoneBefore
  <2> QED  BY <2>3, <2>4
<1>5. ASSUME UNCHANGED <<stripe, db>>,
             \A e \in events : e.type = "deleted" => e \in events',
             \A q \in Procs : proc'[q].pc = "cancel" => proc'[q] = proc[q]
      PROVE  ~Unpaid'
  <2>1. SUFFICES ASSUME NEW t \in Subs, t = db.sub, Gone(t)', ~Gone(t) PROVE FALSE
    BY <1>1, <1>5, StaysUnpaid
  <2> QED  BY <1>5, <2>1, GoneBefore
<1>6. ASSUME NEW p \in Procs, NEW plan \in Plans, Buy(p, plan) \/ Switch(p, plan) PROVE ~Unpaid'
  BY <1>1, <1>5, <1>6 DEF Buy, Switch
<1>7. ASSUME NEW p \in Procs, NEW s \in Subs, Create(p, s) PROVE ~Unpaid'
  BY <1>1, <1>3, <1>7 DEF Create
<1>8. ASSUME NEW p \in Procs, Modify(p) PROVE ~Unpaid'
  <2>1. proc[p].ev.sub \in Subs
    BY <1>8 DEF Modify, PlanInv, RequestInv, Request
  <2> QED  BY <1>1, <1>3, <1>8, <2>1 DEF Modify
<1>9. ASSUME NEW p \in Procs, GiveUp(p) \/ CheckAddon(p) \/ ReadAddon(p) \/ Crash(p) PROVE ~Unpaid'
  <2>1. \A q \in Procs : proc'[q].pc = "cancel" => proc'[q] = proc[q]
    BY <1>1, <1>9 DEF GiveUp, CheckAddon, ReadAddon, Crash, Idle
  <2>2. UNCHANGED <<stripe, db, events>>
    BY <1>9 DEF GiveUp, CheckAddon, ReadAddon, Crash
  <2> QED  BY <1>5, <2>1, <2>2
<1>10. ASSUME NEW p \in Procs, NEW e \in events, Ignore(p, e) \/ Deliver(p, e) PROVE ~Unpaid'
  BY <1>1, <1>5, <1>10 DEF Ignore, Deliver
<1>11. ASSUME NEW s \in Subs, Lapse(s) \/ Recover(s) \/ End(s) PROVE ~Unpaid'
  BY <1>3, <1>11 DEF Lapse, Recover, End
<1>12. CASE BuyAddon \/ UNCHANGED plans
  BY <1>5, <1>12 DEF BuyAddon, plans
<1> QED  BY <1>2, <1>4, <1>6, <1>7, <1>8, <1>9, <1>10, <1>11, <1>12 DEF PlanNext

LEMMA SaveStep ==
  ASSUME PlanInv, NEW p \in Procs, SaveSub(p), Unpaid'
  PROVE  proc[p].ev.type = "updated" /\ Gone(proc[p].ev.sub)
<1> DEFINE ev == proc[p].ev
<1>1. /\ proc \in [Procs -> Proc] /\ proc[p].pc = "save"
      /\ db' = NewDb(ev) /\ stripe' = stripe /\ Idle.pc = "idle"
  BY DEF SaveSub, PlanInv, PlanTypes, Idle
<1>2. db'.plan # Starter
  BY DEF Unpaid
<1>3. ev.type = "updated" /\ db'.sub = ev.sub
  BY <1>1, <1>2 DEF NewDb
<1>9. PICK t : t = ev.sub
  OBVIOUS
<1>10. Gone(t)'
  BY <1>3, <1>9 DEF Unpaid, Gone
<1>4. \/ events' = events /\ proc' = [proc EXCEPT ![p].pc = "cancel"]
      \/ events' = events \ {ev} /\ proc' = [proc EXCEPT ![p] = Idle]
  BY DEF SaveSub, Answer
<1>5. \A e \in events : e.type = "deleted" => e \in events'
  BY <1>3, <1>4
<1>6. \A q \in Procs \ {p} : proc'[q] = proc[q]
  BY <1>1, <1>4
<1>7. proc'[p].pc = "cancel" => proc'[p].ev = ev
  BY <1>1, <1>4 DEF Proc
<1>8. \A q \in Procs : proc'[q].pc = "cancel" /\ proc'[q].ev.type = "deleted" => proc'[q] = proc[q]
  BY <1>3, <1>6, <1>7
<1>11. Gone(t)
  BY <1>1, <1>5, <1>8, <1>10, GoneBefore
<1> QED  BY <1>3, <1>9, <1>11

\* For any number of pages, add-ons, failing renewals and failing handlers, and webhooks
\* that are handled at once and in any order: a workspace comes to keep a plan that nobody
\* pays only by an "updated" webhook that is saved when all that told of its
\* subscription's end have been handled (payments/webhooks.py, set_workspace_subscription
\* and handle_subscription_cancelled).
THEOREM NobodyRidesFree == PlanSpec => UnpaidIsStale
<1>1. PlanInv /\ SentInv /\ [PlanNext]_plans =>
        [~Unpaid /\ Unpaid' =>
            \E p \in Procs : SaveSub(p) /\ proc[p].ev.type = "updated" /\ Gone(proc[p].ev.sub)]_plans
  BY OtherSteps, SaveStep
<1>2. PlanInv /\ SentInv /\ [PlanNext]_plans => SentInv'
  BY SentStep
<1> QED  BY <1>1, <1>2, StartSent, PlanAlways, PTL DEF PlanSpec, UnpaidIsStale
=============================================================================
