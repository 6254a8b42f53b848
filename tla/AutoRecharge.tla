---------------------------- MODULE AutoRecharge ----------------------------
(* Automatic top-ups of one workspace (payments/auto_recharge.py): processes   *)
(* that see a low balance queue on a redis lock, check the monthly budget,     *)
(* reuse or create a Stripe invoice, pay it and credit the workspace, while    *)
(* Stripe collects open invoices itself and delivers invoice.paid webhooks,    *)
(* the owner changes the settings or buys an add-on, the plan is renewed, runs *)
(* spend the balance and processes die.  Stripe's list of invoices grows at    *)
(* its end and is read a page at a time, newest first.  Amounts are dollars, a *)
(* dollar being worth a fixed number of credits.  Time is kept only as far as  *)
(* the code's clock needs it: whether an invoice is younger than the cooldown. *)
EXTENDS Integers, Sequences, Functions

CONSTANTS
    Procs,        \* celery workers and web requests that may try a recharge
    PageSize,     \* invoices in one answer of Stripe's list
    MaxInvoices,  \* bound: invoices of the customer
    Topups,       \* values the owner may set auto_recharge_topup_amount to
    Budgets,      \* values of monthly_spending_budget
    Threshold,    \* subscription.auto_recharge_balance_threshold
    Opening,      \* the balance to begin with
    Floor,        \* bound: runs do not spend below it
    MaxAttempts,  \* bound: recharges and purchases that are started
    MaxCrashes,   \* bound: processes that die inside one
    Events,       \* what else happens: "settings", "addon", "renewal", "collects",
                  \* "slow"
    Free,         \* the redis lock does not exist
    Orphan        \* the redis lock exists and its owner is dead

ASSUME RechargeAssumption ==
    /\ Topups \subseteq Nat \ {0} /\ Topups # {}
    /\ Budgets \subseteq Nat /\ Budgets # {}
    /\ Threshold \in Int /\ Opening \in Int /\ Floor \in Int
    /\ MaxAttempts \in Nat /\ MaxCrashes \in Nat
    /\ PageSize \in Nat \ {0} /\ MaxInvoices \in Nat
    /\ Events \subseteq {"settings", "addon", "renewal", "collects", "slow"}
    /\ Free \notin Procs /\ Orphan \notin Procs /\ Free # Orphan

VARIABLES
    setting,   \* the subscription's top-up amount and monthly budget
    balance,   \* workspace.balance
    lock,      \* redis: gooey/auto_recharge_user/v1/<workspace>/lock
    proc,      \* proc[p]: what p is doing, and what it read
    invoice,   \* the customer's invoices as Stripe has them, oldest first
    credited,  \* the invoices with an AppUserTransaction row (see CreditLedger)
    attempts, crashes

vars == <<setting, balance, lock, proc, invoice, credited, attempts, crashes>>

Ids == 1 .. MaxInvoices

Invoice == [status : {"draft", "open", "paid"},
            amount : Topups \cup {0},
            key    : {"auto_recharge", "addon", "renewal"},
            fresh  : BOOLEAN]     \* a recharge, created less than a cooldown ago

Setting == [topup : Topups, budget : Budgets]

\* "end" leaves the lock's block; for a purchase, which has none, it just returns.
Proc == [pc    : {"idle", "wait", "budget", "fetch", "create", "finalize", "pay",
                  "credit", "end"},
         key   : {"auto_recharge", "addon"},
         topup : Topups \cup {0},
         budget : Budgets \cup {0},
         inv   : Ids \cup {0}]

Idle == [pc |-> "idle", key |-> "addon", topup |-> 0, budget |-> 0, inv |-> 0]

Init ==
    /\ setting \in Setting
    /\ balance = Opening
    /\ lock = Free
    /\ proc = [p \in Procs |-> Idle]
    /\ invoice = <<>>
    /\ credited = {}
    /\ attempts = 0
    /\ crashes = 0

Known == 1 .. Len(invoice)

IsRecharge(i) == invoice[i].key = "auto_recharge"

\* get_dollars_spent_this_month: what the recorded transactions of the month charged.
Spent == FoldFunctionOnSet(+, 0, [i \in Known |-> invoice[i].amount], credited)

Goto(p, pc) == proc' = [proc EXCEPT ![p].pc = pc]

-----------------------------------------------------------------------------
(* One recharge *)

\* should_attempt_auto_recharge, on the workspace as it was read; the subscription
\* read with it is used to the end.
Start(p) ==
    /\ proc[p].pc = "idle"
    /\ attempts < MaxAttempts
    /\ balance < Threshold
    /\ proc' = [proc EXCEPT ![p] = [pc |-> "wait", key |-> "auto_recharge",
                                    topup |-> setting.topup,
                                    budget |-> setting.budget, inv |-> 0]]
    /\ attempts' = attempts + 1
    /\ UNCHANGED <<setting, balance, lock, invoice, credited, crashes>>

\* Mutant of Acquire: two processes inside at once.
EnterUnlocked(p) ==
    /\ proc[p].pc = "wait"
    /\ lock' = p
    /\ Goto(p, "budget")
    /\ UNCHANGED <<setting, balance, invoice, credited, attempts, crashes>>

\* redis_lock: acquire() polls until the lock is free.
Acquire(p) ==
    /\ proc[p].pc = "wait"
    /\ lock = Free
    /\ lock' = p
    /\ Goto(p, "budget")
    /\ UNCHANGED <<setting, balance, invoice, credited, attempts, crashes>>

\* MonthlyBudgetReachedException if this top-up would exceed the budget.  The
\* balance, which another process may have recharged meanwhile, is not read again.
CheckBudget(p) ==
    /\ proc[p].pc = "budget"
    /\ Goto(p, IF Spent + proc[p].topup > proc[p].budget THEN "end" ELSE "fetch")
    /\ UNCHANGED <<setting, balance, lock, invoice, credited, attempts, crashes>>

\* stripe.Invoice.list without paging on: the newest PageSize invoices of any kind.
Page == {i \in Known : i > Len(invoice) - PageSize}

Open(i) == IsRecharge(i) /\ invoice[i].status = "open"
InCooldown(i) == IsRecharge(i) /\ invoice[i].status = "paid" /\ invoice[i].fresh

PayFor(p, i) == proc' = [proc EXCEPT ![p] = [@ EXCEPT !.pc = "pay", !.inv = i]]

\* Mutant of Fetch: no cooldown.
FetchOpen(p) ==
    /\ proc[p].pc = "fetch"
    /\ \/ \E i \in Page : /\ Open(i)
                          /\ \A j \in Page : Open(j) => j <= i
                          /\ PayFor(p, i)
       \/ (\A i \in Page : ~Open(i)) /\ Goto(p, "create")
    /\ UNCHANGED <<setting, balance, lock, invoice, credited, attempts, crashes>>

\* stripe_get_or_create_auto_invoice: the newest open invoice of the page whatever its
\* amount, else AutoRechargeCooldownException for one of the page that was paid recently,
\* else create.
Fetch(p) ==
    /\ proc[p].pc = "fetch"
    /\ \/ \E i \in Page : /\ Open(i)
                          /\ \A j \in Page : Open(j) => j <= i
                          /\ PayFor(p, i)
       \/ /\ \A i \in Page : ~Open(i)
          /\ Goto(p, IF \E i \in Page : InCooldown(i) THEN "end" ELSE "create")
    /\ UNCHANGED <<setting, balance, lock, invoice, credited, attempts, crashes>>

\* Stripe puts a new invoice first on its list.
AddInvoice(status, amount, key) ==
    /\ Len(invoice) < MaxInvoices
    /\ invoice' = Append(invoice, [status |-> status, amount |-> amount, key |-> key,
                                   fresh |-> key = "auto_recharge"])

\* Mutant of Create: the id of the new invoice is not kept.
CreateAndForget(p) ==
    /\ proc[p].pc = "create"
    /\ AddInvoice("draft", proc[p].topup, proc[p].key)
    /\ Goto(p, "finalize")
    /\ UNCHANGED <<setting, balance, lock, credited, attempts, crashes>>

\* stripe_create_auto_invoice: create a draft (auto_advance=False) and its item, ...
Create(p) ==
    /\ proc[p].pc = "create"
    /\ AddInvoice("draft", proc[p].topup, proc[p].key)
    /\ proc' = [proc EXCEPT ![p] = [@ EXCEPT !.pc = "finalize", !.inv = Len(invoice')]]
    /\ UNCHANGED <<setting, balance, lock, credited, attempts, crashes>>

\* ... and finalize it (auto_advance=True): it is open, and Stripe collects it too.
Finalize(p) ==
    /\ proc[p].pc = "finalize"
    /\ invoice' = [invoice EXCEPT ![proc[p].inv].status = "open"]
    /\ Goto(p, "pay")
    /\ UNCHANGED <<setting, balance, lock, credited, attempts, crashes>>

Paid(i) == invoice' = [invoice EXCEPT ![i].status = "paid"]

\* invoice.pay with the default payment method; paying a paid invoice is an error.
Pay(p) ==
    /\ proc[p].pc = "pay"
    /\ invoice[proc[p].inv].status = "open"
    /\ Paid(proc[p].inv)
    /\ Goto(p, "credit")
    /\ UNCHANGED <<setting, balance, lock, credited, attempts, crashes>>

\* The card is declined, there is no payment method, or Stripe fails: the invoice is
\* left as it is.
PaymentFailed(p) ==
    /\ proc[p].pc \in {"fetch", "create", "finalize", "pay"}
    /\ Goto(p, "end")
    /\ UNCHANGED <<setting, balance, lock, invoice, credited, attempts, crashes>>

\* add_balance_for_payment: a row per invoice id, once.
AddBalance(i) ==
    /\ credited' = credited \cup {i}
    /\ balance' = balance + (IF i \in credited THEN 0 ELSE invoice[i].amount)

\* handle_invoice_paid by the process that paid.
Credit(p) ==
    /\ proc[p].pc = "credit"
    /\ AddBalance(proc[p].inv)
    /\ Goto(p, "end")
    /\ UNCHANGED <<setting, lock, invoice, attempts, crashes>>

\* lock.release(), by the owner only.
Release(p) ==
    /\ proc[p].pc = "end"
    /\ lock' = IF lock = p THEN Free ELSE lock
    /\ proc' = [proc EXCEPT ![p] = Idle]
    /\ UNCHANGED <<setting, balance, invoice, credited, attempts, crashes>>

-----------------------------------------------------------------------------
(* Around it *)

\* stripe_attempt_addon_purchase: an invoice of its own, without the lock.
BuyAddon(p, amount) ==
    /\ "addon" \in Events
    /\ proc[p].pc = "idle"
    /\ attempts < MaxAttempts
    /\ proc' = [proc EXCEPT ![p] = [pc |-> "create", key |-> "addon",
                                    topup |-> amount, budget |-> 0, inv |-> 0]]
    /\ attempts' = attempts + 1
    /\ UNCHANGED <<setting, balance, lock, invoice, credited, crashes>>

\* Stripe invoices the next period of the plan (or a change of it) by itself.
Renew(amount) ==
    /\ "renewal" \in Events
    /\ AddInvoice("open", amount, "renewal")
    /\ UNCHANGED <<setting, balance, lock, proc, credited, attempts, crashes>>

\* Mutant of Webhook: recharge invoices are left to the process that paid.
WebhookIgnores(i) ==
    /\ i \in Known
    /\ invoice[i].status = "paid"
    /\ ~IsRecharge(i)
    /\ AddBalance(i)
    /\ UNCHANGED <<setting, lock, proc, invoice, attempts, crashes>>

\* Stripe delivers invoice.paid, late, and more than once.
Webhook(i) ==
    /\ i \in Known
    /\ invoice[i].status = "paid"
    /\ AddBalance(i)
    /\ UNCHANGED <<setting, lock, proc, invoice, attempts, crashes>>

\* Stripe collects an open invoice on its own.
Collect(i) ==
    /\ "collects" \in Events
    /\ i \in Known
    /\ invoice[i].status = "open"
    /\ Paid(i)
    /\ UNCHANGED <<setting, balance, lock, proc, credited, attempts, crashes>>

\* AUTO_RECHARGE_COOLDOWN_SECONDS have passed since the creation of the invoice;
\* unless processes or Stripe are slow, never while a recharge runs or waits.  The
\* oldest comes first.
Age(i) ==
    /\ i \in Known
    /\ invoice[i].fresh
    /\ \A j \in 1 .. i - 1 : ~invoice[j].fresh
    /\ "slow" \in Events \/ \A p \in Procs : proc[p].pc = "idle"
    /\ invoice' = [invoice EXCEPT ![i].fresh = FALSE]
    /\ UNCHANGED <<setting, balance, lock, proc, credited, attempts, crashes>>

\* A run is charged.
Spend ==
    /\ balance > Floor
    /\ balance' = balance - 1
    /\ UNCHANGED <<setting, lock, proc, invoice, credited, attempts, crashes>>

\* render_auto_recharge_section: the owner saves another amount and budget.
ChangeSetting(new) ==
    /\ "settings" \in Events
    /\ setting' = new
    /\ UNCHANGED <<balance, lock, proc, invoice, credited, attempts, crashes>>

\* The process dies; its lock stays until it times out.
Crash(p) ==
    /\ proc[p].pc # "idle"
    /\ crashes < MaxCrashes
    /\ crashes' = crashes + 1
    /\ proc' = [proc EXCEPT ![p] = Idle]
    /\ lock' = IF lock = p THEN Orphan ELSE lock
    /\ UNCHANGED <<setting, balance, invoice, credited, attempts>>

\* Mutant of LockExpires: redis_lock(timeout=None).
LockStays == FALSE /\ UNCHANGED vars

\* LOCK_TIMEOUT_SEC is ten cooldowns, so what its owner created is not fresh any more.
LockExpires ==
    /\ lock = Orphan
    /\ \A i \in Known : IsRecharge(i) => ~invoice[i].fresh
    /\ lock' = Free
    /\ UNCHANGED <<setting, balance, proc, invoice, credited, attempts, crashes>>

Step(p) == \/ Acquire(p) \/ CheckBudget(p) \/ Fetch(p) \/ Create(p)
           \/ Finalize(p) \/ Pay(p) \/ PaymentFailed(p) \/ Credit(p) \/ Release(p)

Next ==
    \/ \E p \in Procs : Start(p) \/ Step(p) \/ Crash(p)
    \/ \E p \in Procs, amount \in Topups : BuyAddon(p, amount)
    \/ \E amount \in Topups : Renew(amount)
    \/ \E i \in Ids : Webhook(i) \/ Collect(i) \/ Age(i)
    \/ \E new \in Setting : ChangeSetting(new)
    \/ Spend
    \/ LockExpires

Spec == Init /\ [][Next]_vars

\* A process goes on until it ends or dies, clocks run, redis expires the key, and
\* Stripe retries a webhook until it is answered.
FairSpec ==
    /\ Spec
    /\ \A p \in Procs : WF_vars(Step(p))
    /\ \A i \in Ids : WF_vars(Webhook(i)) /\ WF_vars(Age(i))
    /\ WF_vars(LockExpires)

-----------------------------------------------------------------------------
TypeOK ==
    /\ setting \in Setting
    /\ balance \in Int
    /\ lock \in Procs \cup {Free, Orphan}
    /\ proc \in [Procs -> Proc]
    /\ invoice \in Seq(Invoice) /\ Len(invoice) <= MaxInvoices
    /\ credited \subseteq Known
    /\ attempts \in 0 .. MaxAttempts
    /\ crashes \in 0 .. MaxCrashes

\* However many runs end at once below the threshold, and wherever a process dies, no
\* recharge invoice is charged or chargeable while an older one that Stripe still
\* collects is within a page of it: the page that showed the new one's place showed the
\* unpaid one.  (Beyond a page it is forgotten, and Stripe may collect both.)
Chargeable(i) == IsRecharge(i) /\ invoice[i].status \in {"open", "paid"}

OneOpenInvoice ==
    \A i, j \in Known : Open(i) /\ Chargeable(j) /\ i < j => j - i > PageSize

\* ... nor while an older one, younger than a cooldown, is within a page of it.
OneInvoicePerCooldown ==
    \A i, j \in Known : /\ Chargeable(i) /\ invoice[i].fresh
                        /\ Chargeable(j) /\ i < j
                        => j - i > PageSize

\* The lock's block is never run by two live processes, dead owners included.
Inside(p) == proc[p].key = "auto_recharge" /\ proc[p].pc \notin {"idle", "wait"}

OneInside == \A p, q \in Procs : Inside(p) /\ Inside(q) => p = q

\* The inductive invariant behind these.  Whoever is inside owns the lock; ...
LockInv == \A p \in Procs : Inside(p) => lock = p

\* ... an invoice that a process works on exists and is of the kind it was made for,
\* so that a purchase beside the lock never touches a recharge invoice; ...
InvoiceInv ==
    \A p \in Procs :
        /\ proc[p].pc \in {"wait", "budget", "fetch"} => proc[p].key = "auto_recharge"
        /\ proc[p].pc \in {"finalize", "pay", "credit"} =>
              /\ proc[p].inv \in Known
              /\ invoice[proc[p].inv].key = proc[p].key

\* ... from the search for an invoice until a new one is made, nothing on the page is
\* due, open or charged within the cooldown; ...
Due(i) == Chargeable(i) /\ (invoice[i].status = "open" \/ invoice[i].fresh)

CreateInv ==
    \A p \in Procs : Inside(p) /\ proc[p].pc = "create" =>
        \A i \in Known : Due(i) => Len(invoice) - i >= PageSize

\* ... and until that one is finalized, what is due is further away than a page, and
\* nobody has made a newer one.
FinalizeInv ==
    \A p \in Procs : Inside(p) /\ proc[p].pc = "finalize" =>
        /\ \A i \in Known : Due(i) => proc[p].inv - i > PageSize
        /\ \A j \in Known : Chargeable(j) => j < proc[p].inv

RechargeInv == /\ TypeOK /\ LockInv /\ InvoiceInv /\ CreateInv /\ FinalizeInv
               /\ OneOpenInvoice /\ OneInvoicePerCooldown

\* What the month's payments have charged, recorded or not.
Charged == FoldFunctionOnSet(+, 0, [i \in Known |-> invoice[i].amount],
                             {i \in Known : invoice[i].status = "paid"})

\* monthly_spending_budget, "pause auto-recharge just before the spending exceeds
\* this amount in a calendar month": no recharge pays beyond the budget that its
\* process read (the model is one month).
RechargesWithinBudget ==
    [][\A p \in Procs : proc[p].key = "auto_recharge" /\ Pay(p) =>
          Charged + invoice[proc[p].inv].amount <= proc[p].budget]_vars

\* Every payment reaches the balance, also when the process that paid has died.
PaidIsCredited ==
    \A i \in Ids : (i \in Known /\ invoice[i].status = "paid") ~> (i \in credited)

\* The lock of a dead process does not stop recharges for ever: whoever waits gets
\* its turn.
AttemptsEnd == \A p \in Procs : (proc[p].pc # "idle") ~> (proc[p].pc = "idle")
=============================================================================
