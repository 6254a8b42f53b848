----------------------------- MODULE RunCredits -----------------------------
(* Runs and the credits they are paid with (daras_ai_v2/base.py): a worker     *)
(* checks, when it begins a run, whether the workspace or, on a team plan, the *)
(* member has the price of it, and deducts the price when the run is over.     *)
(* Between the two lies the whole run: the price is computed again, others are *)
(* charged, the plan changes, members come and go.                             *)
EXTENDS Integers, FiniteSets

CONSTANTS
    Jobs,        \* deliveries of run tasks, of the runs of one member of one workspace
    Workers,     \* celery's worker slots
    MaxPrice,    \* bound: get_price_roundoff
    MaxCredits   \* bound: balances that purchases and seats lead to

ASSUME CreditAssumption ==
    /\ IsFiniteSet(Jobs) /\ Workers \in Nat
    /\ MaxPrice \in Nat \ {0} /\ MaxCredits \in Nat

VARIABLES
    money,   \* Workspace.balance and WorkspaceMembership.balance
    blind,   \* blind[a]: charges to a that no check of a's balance came before
    plan,    \* of the workspace's subscription
    joined,  \* the member has a membership
    job      \* job[j]: a page object in a worker, and what it has cached

credit == <<money, blind, plan, joined, job>>

Accounts == {"workspace", "member"}

Job == [pc      : {"idle", "recharging", "open", "charged", "closed"},
        quote   : 0 .. MaxPrice,          \* the price, while a recharge is tried
        checked : Accounts \cup {"none"}, \* whose balance was compared with it
        reread  : BOOLEAN,                \* the workspace has been refreshed since
        cost    : 0 .. MaxPrice]          \* sr.price

Page(pc) == [pc |-> pc, quote |-> 0, checked |-> "none", reread |-> FALSE, cost |-> 0]

CreditInit ==
    /\ money = [a \in Accounts |-> 0]
    /\ blind = [a \in Accounts |-> 0]
    /\ plan \in {"team", "other"}
    /\ joined \in BOOLEAN
    /\ job = [j \in Jobs |-> Page("idle")]

Prices == 1 .. MaxPrice    \* max(1, price)

Busy == {j \in Jobs : job[j].pc \in {"recharging", "open", "charged"}}

-----------------------------------------------------------------------------
(* ensure_credits_and_auto_recharge: the worker has just loaded the workspace *)

Take(j, q) == job[j].pc = "idle" /\ Cardinality(Busy) < Workers /\ q \in Prices

Opened(account, refreshed) ==
    [Page("open") EXCEPT !.checked = account, !.reread = refreshed]

\* A team plan: the member's own credits.
EnsureMember(j, q) ==
    /\ Take(j, q)
    /\ plan = "team" /\ joined /\ money["member"] >= q
    /\ job' = [job EXCEPT ![j] = Opened("member", FALSE)]
    /\ UNCHANGED <<money, blind, plan, joined>>

EnsureWorkspace(j, q) ==
    /\ Take(j, q)
    /\ plan = "other" /\ money["workspace"] >= q
    /\ job' = [job EXCEPT ![j] = Opened("workspace", FALSE)]
    /\ UNCHANGED <<money, blind, plan, joined>>

\* "Low balance detected. Recharging..."
Recharge(j, q) ==
    /\ Take(j, q)
    /\ plan = "other" /\ money["workspace"] < q
    /\ job' = [job EXCEPT ![j] = [Page("recharging") EXCEPT !.quote = q]]
    /\ UNCHANGED <<money, blind, plan, joined>>

\* InsufficientCredits, or the UserError of a team that the member has left.
Refuse(j, q) ==
    /\ Take(j, q)
    /\ IF plan = "team" THEN joined => money["member"] < q ELSE money["workspace"] < q
    /\ job' = [job EXCEPT ![j] = Page("closed")]
    /\ UNCHANGED <<money, blind, plan, joined>>

\* Mutant of Recharged: the run begins without another look.
RechargedAnyway(j) ==
    /\ job[j].pc = "recharging"
    /\ job' = [job EXCEPT ![j] = Opened("workspace", TRUE)]
    /\ UNCHANGED <<money, blind, plan, joined>>

\* After the attempt and refresh_from_db: the balance again, but not the plan.
Recharged(j) ==
    /\ job[j].pc = "recharging"
    /\ job' = [job EXCEPT ![j] =
                 IF money["workspace"] >= @.quote THEN Opened("workspace", TRUE) ELSE Page("closed")]
    /\ UNCHANGED <<money, blind, plan, joined>>

-----------------------------------------------------------------------------
(* deduct_credits *)

\* The page keeps the workspace, its subscription and the membership it has checked;
\* refresh_from_db has dropped the subscription.
Account(j) ==
    IF job[j].checked # "none" /\ ~job[j].reread THEN job[j].checked
    ELSE IF plan = "team" /\ joined THEN "member" ELSE "workspace"

Charge(j, p, pc) ==
    /\ p \in Prices
    /\ money' = [money EXCEPT ![Account(j)] = @ - p]
    /\ blind' = [blind EXCEPT ![Account(j)] = IF job[j].checked = Account(j) THEN @ ELSE @ + 1]
    /\ job' = [job EXCEPT ![j].pc = pc, ![j].cost = @ + p]
    /\ UNCHANGED <<plan, joined>>

\* Mutant of Deduct: a run that was charged is charged again.
DeductAgain(j, p) == job[j].pc \in {"open", "charged"} /\ Charge(j, p, "charged")

\* The price of what the run has become, whatever the balance is by now.
Deduct(j, p) == job[j].pc = "open" /\ Charge(j, p, "charged")

\* A voice call, in no worker of celery: deduct_credits right after create_new_run,
\* without any check.
Call(j, p) == job[j].pc = "idle" /\ Charge(j, p, "closed")

\* The run is over: charged, failed, stopped, not to be charged (deduct_credits=False),
\* or dead with its worker.
Finish(j) ==
    /\ job[j].pc \in {"recharging", "open", "charged"}
    /\ job' = [job EXCEPT ![j] = Page("closed")]
    /\ UNCHANGED <<money, blind, plan, joined>>

-----------------------------------------------------------------------------
(* Meanwhile *)

ChangePlan ==
    /\ plan' \in {"team", "other"} \ {plan}
    /\ UNCHANGED <<money, blind, joined, job>>

JoinOrLeave ==
    /\ joined' = ~joined
    /\ UNCHANGED <<money, blind, plan, job>>

\* A purchase, a renewal, a recharge.
Refill(n) ==
    /\ money["workspace"] + n <= MaxCredits
    /\ money' = [money EXCEPT !["workspace"] = @ + n]
    /\ UNCHANGED <<blind, plan, joined, job>>

\* A seat and its month's credits: read and written at once here (see Team).
Seat(n) ==
    /\ money' = [money EXCEPT !["member"] = n]
    /\ UNCHANGED <<blind, plan, joined, job>>

CreditNext ==
    \/ \E j \in Jobs, q \in Prices :
          \/ EnsureMember(j, q) \/ EnsureWorkspace(j, q) \/ Recharge(j, q) \/ Refuse(j, q)
          \/ Deduct(j, q) \/ Call(j, q)
    \/ \E j \in Jobs : Recharged(j) \/ Finish(j)
    \/ ChangePlan \/ JoinOrLeave
    \/ \E n \in 1 .. MaxCredits : Refill(n)
    \/ \E n \in 0 .. MaxCredits : Seat(n)

CreditSpec == CreditInit /\ [][CreditNext]_credit

-----------------------------------------------------------------------------
\* A run is charged one price at most, and shows it.
CreditTypes ==
    /\ money \in [Accounts -> Int] /\ blind \in [Accounts -> Nat]
    /\ plan \in {"team", "other"} /\ joined \in BOOLEAN
    /\ job \in [Jobs -> Job]

\* A balance is looked at before a run and charged after it, at the price of then, by as
\* many runs as there are workers: that is how far an account is overdrawn, but for the
\* runs that are charged to another account than was checked, or without a check.
OverdraftBounded ==
    \A a \in Accounts : money[a] >= -(MaxPrice * (Workers + blind[a]))
=============================================================================
