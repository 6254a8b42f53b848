# gooey-server: TLA+ models and proofs

This directory specifies the parts of gooey-server that move money, run workflows
and keep what runs work on: the credit ledger, the life of a run and of the runs it
starts, the limits a run is admitted under, automatic recharges, subscriptions and
team seats, the costs of phone calls, bot conversations and their analysis, the
embeddings of documents, and the fitting of texts to a model. TLC checks the models
on small instances and TLAPS proves the main invariants of twelve of them for every
instance. Source paths are relative to the repository's root (`src/`).

- [The system](#the-system)
- [Inventory](#inventory)
- [Modules](#modules)
- [Runs](#runs)
- [Fairness](#fairness)
- [Proofs](#proofs)
- [Where code and claims disagree](#where-code-and-claims-disagree)
- [Abstractions](#abstractions)
- [Plan](#plan)

## The system

A browser talks to the Remix front end (`gooey-gui/`), which asks the FastAPI server
(`server.py`, `routers/`) to render a page. A page is Python code that reads the
request's widget state, changes the database and returns a tree of UI nodes. Pages
start *runs* of workflows ("recipes"): a row in `SavedRun`, and a celery task that
computes it. Everything that lasts is in Postgres; redis holds caches, locks and
pub/sub channels; RabbitMQ carries celery messages; Vespa indexes documents; Stripe
and PayPal hold the payment side, and report to the server by webhooks.

Concurrency comes from these actors:

| actor | how it runs | what it shares |
| --- | --- | --- |
| web requests | threads and processes of uvicorn, one per request | rows they read, changed and saved without locks unless said otherwise |
| celery workers | prefork children, one task per child, `acks_late` (`celeryapp/celeryconfig.py:18`) | the same rows; a lost worker's message is delivered again |
| webhooks | web requests made by Stripe, retried until they answer 2xx, not ordered | workspace, subscription and invoice state |
| Stripe | collects open invoices and renews subscriptions by itself | the invoices and subscriptions that handlers read and change |
| celery beat | `exec_scheduled_runs` once a day | published runs |
| bots | webhooks of WhatsApp, Slack, Telegram and others, which start runs | conversations |
| Twilio | status callbacks about a call, at any time around the end of its run | the run's price and usage costs |
| authors | edit the documents that runs embed | files behind URLs, seen through their metadata |

The steps interleave wherever code does not hold a Postgres row lock
(`select_for_update`) or a redis lock (`redis_lock`, `daras_ai_v2/redis_cache.py:57`).
Both are held in few places, and those are where the models are most detailed.

## Inventory

For each component: its state, its operations, what it interacts with, what is hard
about it, and what makes it correct. Status is repeated in `PROJECT.json`.

### Credit ledger (modelled)

- State: `Workspace.balance`, `WorkspaceMembership.balance`, the rows of
  `AppUserTransaction` with their unique `invoice_id` and `end_balance`.
- Operations: `Workspace.add_balance`, `add_balance_raw`,
  `WorkspaceMembership.add_balance` (`workspaces/models.py:324-386`, `594-637`).
- Callers: `deduct_credits` of every run, every payment handler, add-ons, seats,
  telephony costs.
- Hard: many processes change one balance at once; Stripe repeats webhooks; a
  transaction may fail anywhere; a member's row and its workspace's row are locked
  together.
- Correct: the rows explain the balance, an invoice counts once, and a call that
  returns has recorded its invoice.

### Workspace edits (partly modelled)

- State: whole rows of `Workspace`, copied by a form and saved later.
- Operations: the edit dialog (`workspaces/views.py:396-432`), the profile page, the
  sign-up. All save without `update_fields`.
- Hard: the copy is older than the row it overwrites.
- Correct: an edit of name or photo leaves the balance as the ledger has it.

### Run lifecycle (modelled)

- State: the `SavedRun` columns `run_status`, `error_*`, `run_time`, `is_cancelled`,
  `celery_task_id`, `transaction` and `price`; the message in the broker; the child's
  copy of the row; the worker's set of revoked ids.
- Operations: `submit_and_redirect`, `publish_and_redirect`, `call_runner_task`
  (`daras_ai_v2/base.py`), `runner_task` and `save_on_step` (`celeryapp/tasks.py`), the
  Stop button and its `pre_save`/`post_save` receivers (`bots/signals.py`).
- Hard: double starts, redelivery after a lost worker, a SIGUSR1 that comes up at any
  instruction, a stop racing a save, web requests that die half way.
- Correct: a run is charged once per delivery and never by two tasks; what is
  announced as complete is closed and priced; a stop in time is not charged and ends
  the run; an undisturbed run ends.

### Run admission (partly modelled)

- State: the user's recent `SavedRun` rows.
- Operations: `ensure_rate_limits` (`daras_ai_v2/ratelimits.py:67-134`), `create_new_run`.
- Hard: limits are counted before the row that they limit exists, and requests overlap; rows of
  bulk runs, tools and users with `disable_rate_limits` are created without a look at the limits, and
  count; so do rows that nobody closes.
- Correct: limits are exceeded by no more than the requests served at once, nobody is locked out
  for ever.

### Paying for runs (modelled)

- State: the balances of a workspace and of its member, the plan and the membership, and
  what a page object in a worker has cached of them (`daras_ai_v2/base.py:1519-1534`).
- Operations: `ensure_credits_and_auto_recharge`, `deduct_credits` (`daras_ai_v2/base.py:2556-2608`),
  the deduction of a voice call (`livekit_agent.py:589`).
- Hard: credits are checked when a run begins and taken when it ends, at a price that is computed
  again, possibly from another account; others are charged in between.
- Correct: a balance is overdrawn by a bounded amount, a run is charged once.

### Automatic recharge and add-ons (modelled)

- State: the recharge settings on `Subscription`, the redis lock, Stripe's invoices,
  the ledger's rows for them.
- Operations: `should_attempt_auto_recharge`, `run_auto_recharge_gracefully`
  (`payments/auto_recharge.py`), `stripe_get_or_create_auto_invoice`,
  `stripe_attempt_addon_purchase` (`payments/models.py`), `handle_invoice_paid`.
- Hard: many runs end below the threshold at once; a process dies between creating,
  finalizing, paying and crediting; Stripe collects the same invoice by itself; invoices are looked
  for on the first page of Stripe's list only (`payments/models.py:320`), which purchases and renewals share.
- Correct: one open invoice and one per cooldown as far as that page shows, within the monthly budget,
  and every payment reaches the balance.

### Runs inside runs (modelled)

- State: the callers' and callees' rows and tasks, the celery queue, the messages that
  each worker has prefetched, the results in the backend.
- Operations: `BulkRunner.run_v2` (one run per row), functions and tools
  (`functions/workflow_tools.py:77-138`), the safety checker; all submit with
  `submit_api_call` (`routers/api.py:365`) and wait with `wait_for_celery_result`
  (`bots/models/saved_run.py:371`), which has no timeout.
- Hard: callers occupy the workers that their callees need; callees die, are stopped
  or delivered again while somebody waits.
- Correct: what a caller reads is over and charged, a row is paid once per delivery,
  and no wait lasts for ever unless all workers wait.

### Subscriptions (partly modelled)

- State: Stripe's subscriptions, and the `Subscription` row (plan, `external_id`,
  provider).
- Operations: `stripe_subscription_create`, `change_subscription`
  (`daras_ai_v2/billing.py`), `set_workspace_subscription` and the webhook handlers
  (`payments/webhooks.py`), `Subscription.cancel`, the task
  `save_stripe_default_payment_method` (`app_users/tasks.py`).
- Hard: two billing pages at once; a replaced subscription's own webhook; a handler
  that fails between saving the row and cancelling the old subscription.
- Correct: the row names what Stripe bills; a workspace is billed once; nobody keeps a
  plan that is not paid.

### Team seats, member balances, memberships and invites (partly modelled)

- State: `SubscriptionSeat` rows with their type and member, members' balances,
  invites, the ids of the transactions that changed a balance.
- Operations: `set_subscription_seats_from_stripe_sub`, `auto_assign_team_seats`
  (`payments/webhooks.py:355-484`), `reset_member_balance`
  (`workspaces/models.py:390-420`), inviting, accepting, cancelling, leaving.
- Hard: three kinds of webhooks change the same seats, are repeated and fail half way;
  members come and go meanwhile; seat types are matched with counts one by one.
- Correct: there are as many seats as Stripe bills, credits follow seats, a month's
  reset counts once.

### Telephony costs (partly modelled)

- State: `SavedRun.price` and `transaction`, `UsageCost` rows, the deductions.
- Operations: `get_raw_price` and `deduct_credits` at the end of the run,
  `record_twilio_voice_call_cost` (`usage_costs/twilio_usage_cost.py`).
- Hard: the callback decides by a row that it read before it asked Twilio for prices.
- Correct: the price shown is what was deducted, and no call is paid twice.

### Bot conversations and message analysis (partly modelled)

- State: messages in the order of `created_at`, the analysis row (`last_run_at`,
  `scheduled_task_id`), queued tasks with a countdown.
- Operations: `save_msg_pair_to_db` (`daras_ai_v2/bots.py:733`),
  `run_after_message_save` (`bots/signals.py:51`), `msg_analysis` (`bots/tasks.py:48`).
- Hard: turns of several conversations interleave, nothing makes them save one after the other; a
  task may begin before its id is saved; the row's copy is older than what it overwrites.
- Correct: of the messages of one cooldown a late one is analysed, and an answer with its own
  question.

### Embeddings and vector search (partly modelled)

- State: a document behind a URL, its `EmbeddedFile` and `EmbeddingsReference` rows,
  Vespa's documents, the redis lock.
- Operations: `do_check_document_updates`, `create_embedded_file`, `query_vespa`,
  `vespa_search_results_to_refs` (`daras_ai_v2/vector_search.py`).
- Hard: metadata is fetched before the lock and the text downloaded inside it; outdated
  files are searched too; Vespa is never cleaned; runs race with older metadata.
- Correct: a search that checks for updates gets nothing older than what it checked,
  and a file taken for current is current.

### Context windows and summaries (partly modelled)

- Operations: the text splitter's `_join` (`daras_ai_v2/text_splitter.py:158`), the rounds
  of `_map_reduce` (`recipes/DocSummary.py:205`), `convo_window_clipper`
  (`recipes/VideoBots.py:1465`).
- Hard: boundaries of overlap and chunk size, odd numbers of documents.
- Correct: chunks fit the window and leave nothing out, every chunk is in the summary once.

### Not modelled yet, with the reason

| component | state and operations | why it is left out, or when it comes |
| --- | --- | --- |
| Published runs | versions of a workflow, forks, visibility | in the plan; needs a property that is not already that of `WorkspaceEdit` |
| Whole-row saves of the settings form | `daras_ai_v2/billing.py:1910` against `set_workspace_subscription` | same shape as `EditKeepsBalance`; plan and settings are in different modules |
| Roles, expiry, kicking, workspace deletion | `workspaces/models.py:630-700` | permission checks on one row; the deletion of the last member's workspace is excluded in `Team` |
| URL shortener, number cycling | counters and allocations with a limit | in the plan, small |
| Public API | starts runs by the same functions as the pages | its own code is conversion |
| Recipes | about forty workflows, mostly calls of models | a run sees them as yields that end or raise, which is how `RunnerTask` and `NestedRuns` have them |
| Language models, speech, images (`daras_ai_v2/language_model.py`, `asr.py` and others) | one remote call per function, with conversion around it | no state of the system; a failure is a run that raises |
| Admin pages, statistics, scripts, migrations, pricing tables | single queries and data | no concurrency or control to check |
| Functions' executors, memory, secrets | tools called inside a run | input and output |
| Realtime UI state | set, then publish over redis | lossy by design, no promise to check |
| Browser front end | renders the server's tree | keeps no state of the system |
| Authentication | Firebase sessions | users are a parameter of the models |
| PayPal | subscription and payment webhooks | same shape as Stripe's, fewer operations |

Most of the repository is in these rows: recipes, pages and adapters of remote
services are the bulk of its lines, and what they do to the shared state is what the
modelled components do on their behalf.

## Modules

| module | what it is | main source |
| --- | --- | --- |
| `CreditLedger` | abstract ledger: a credit happens at once, once per invoice | `workspaces/models.py` |
| `Ledger` | the same as transactions with locks, a unique index and failures | `workspaces/models.py` |
| `LedgerProofs` | TLAPS proofs about `Ledger`, refinement included | |
| `WorkspaceEdit` | `Ledger` composed with forms that save whole rows | `workspaces/views.py` |
| `RunnerTask` | a run from the button to the closed row | `celeryapp/tasks.py`, `bots/signals.py`, `daras_ai_v2/base.py` |
| `RunnerProofs` | TLAPS proofs about `RunnerTask` | |
| `NestedRuns` | runs that start runs and wait for them, workers and queue | `recipes/BulkRunner.py`, `functions/workflow_tools.py`, `bots/models/saved_run.py` |
| `NestedProofs` | TLAPS proofs about `NestedRuns` | |
| `RunAdmission` | the rate limits for the runs of one user | `daras_ai_v2/ratelimits.py` |
| `RunCredits` | the credits that runs are checked for and charged | `daras_ai_v2/base.py` |
| `AutoRecharge` | recharges under the redis lock, add-ons, webhooks | `payments/auto_recharge.py`, `payments/models.py` |
| `AutoRechargeProofs` | TLAPS proofs about `AutoRecharge` | |
| `Subscription` | one workspace's plan at Stripe and in the database | `payments/webhooks.py`, `daras_ai_v2/billing.py` |
| `SubscriptionProofs` | TLAPS proofs about `Subscription` | |
| `Team` | seats, member balances, invites and their webhooks | `payments/webhooks.py`, `workspaces/models.py` |
| `TeamProofs` | TLAPS proofs about `Team` | |
| `CallCost` | a call's cost between the run's end and Twilio's callback | `usage_costs/twilio_usage_cost.py`, `celeryapp/tasks.py` |
| `Conversation` | the messages of bot conversations and the question of an answer | `daras_ai_v2/bots.py`, `bots/tasks.py` |
| `Analysis` | when answers are analysed, and which give way | `bots/signals.py`, `bots/tasks.py` |
| `Embeddings` | one document's embeddings under the redis lock, and searches | `daras_ai_v2/vector_search.py` |
| `WorkspaceProofs` | TLAPS proofs about `Embeddings`, and about `MCWorkspace` as a whole | |
| `Summary` | chunks, rounds of merging, clipping of a history | `daras_ai_v2/text_splitter.py`, `recipes/DocSummary.py` |
| `UsageProofs` | TLAPS proofs about `RunAdmission`, `RunCredits`, `CallCost`, `Conversation`, `Analysis` and `Summary`, and about `MCUsage` as a whole | |
| `MCLedger`, `MCAutoRecharge`, `MCWorkspaceEdit`, `MCSubscription`, `MCTeam` | small constants and symmetry for TLC | |
| `MCRunnerTask` | `RunnerTask` and `NestedRuns` side by side | |
| `MCWorkspace` | `Embeddings`, `Subscription` (twice) and `Team` side by side | |
| `MCUsage` | `RunAdmission`, `RunCredits`, `CallCost`, `Conversation`, `Analysis` and `Summary` side by side | |

The last three put modules side by side that share no state: the variable `part` picks
one at the start, and the others keep their initial values. This is not an
interleaving; it only checks several small instances, with their own constants, in
one run. The composing module EXTENDS them, so that a run checks the same definitions that the
theorems are about; this is why the specifications of `NestedRuns`, `RunCredits`, `CallCost`, `Conversation`,
`Analysis`, `Subscription`, `Team` and `Summary` have names of their own (`NestedNext`, `CreditNext`, `CallNext`,
`ConvoNext`, `AnalNext`, `PlanNext`, `TeamNext`, `TextNext`) beside the `Next` of the module that comes first. Only the plan with two billing pages
(`TwoPages`) is an instance with its constants in the `INSTANCE` statement.

Operators whose comment says "Mutant of X" are wrong variants of X, defined just
before it. They are never part of a specification; replacing X by its variant shows
that a property really depends on X.

### Ledger

`call[p]` is a call of `add_balance` by process `p`; its `pc` names the next statement.
`Lookup` is the `get` by invoice id, `LockRow` the `select_for_update`, `LockWorkspace`
the joined row that the same statement locks for a member, `InsertRow` and
`InsertConflict` the two outcomes of `objects.create` under the unique index, `Commit`
the end of `transaction.atomic`, and `Abort` a failure anywhere in it. An uncommitted
insert of the same invoice id makes another insert wait, as Postgres does. The
balance column is written inside the transaction and becomes visible at `Commit`, so the
uncommitted value is `call[p].view`. `hist[a]` is the sequence of committed rows of `a`.
`CreditLedger` has the one action `Credit`; `Commit` implements it and all other
steps stutter.

### WorkspaceEdit

`OpenForm` copies a row and `SaveForm` writes the copy back as soon as nobody holds
the row's lock. `Ledger`'s steps go on between the two.

### RunnerTask

`row` is the committed `SavedRun`; `web[w]` a request that starts it, with `Dispatch`
(`runner_task.delay`) and `SaveTaskId` as separate steps; `stop[s]` a press of Stop with
the copy of the row it read. `task[t].pc` follows `runner_task`: `load` is everything
before the `try`, `refresh` and `save` the two halves of `save_on_step`, `main` the
workflow, `except` and `error` the handler, `charge` and `record` the `else` block, `final`
and `post` the `finally` block, `ack` the end. `StopRevoke` and `Interrupt` are celery's
`revoke(terminate=True, signal="SIGUSR1")`: the running task is acknowledged, and
`SoftTimeLimitExceeded` comes up at any later instruction. `WorkerDies` has the broker
deliver the message again unless it was acknowledged, `ChildDies` loses it, `WebDies`
ends a request between two statements.

### RunAdmission

`run[r].pc` goes from `idle` over `counted` (within the limit of a minute) and `admitted` (within both, no row
yet) to `open`, `closed` or `lost`; `age` says which of the two windows (a minute, 30 minutes) the row is
still in. The two counts of `ensure_rate_limits` and the row are three steps, and `Clients` requests may be
anywhere between them. `CreateUnchecked` is a row that `ensure_rate_limits` was not asked about
(`daras_ai_v2/base.py:2200`) or let pass (`ratelimits.py:78`); it counts as any other, but the limits are
stated for the rows that were checked (`checked`).

### RunCredits

`job[j]` is the page object that a worker makes for a run: `EnsureMember`, `EnsureWorkspace`, `Recharge` with
`Recharged`, and `Refuse` are the ways through `ensure_credits_and_auto_recharge`, `Deduct` is `deduct_credits`,
at any price. `current_workspace` and `current_membership` are cached properties, so the page
charges what it has checked (`Account`), unless a refresh after a recharge has dropped the cached
subscription; what the plan and the membership have become then decides. `Call` is the voice agent, which
charges without a check, and `Finish` every end of a run without a (further) charge, that of
`runner_task(deduct_credits=False)` included. `blind[a]` counts the charges to `a` that no check of `a`'s balance came before.
With `CREDITS_TO_DEDUCT_PER_RUN = 0` the check is off for all of them (`base.py:2557`), and the bound
says nothing.

### AutoRecharge

`proc[p].pc` follows `_auto_recharge_workspace`: `wait` for the redis lock, check the
`budget`, `fetch` an open or recent invoice, `create`, `finalize`, `pay`, `credit`, `end`.
A purchase of an add-on takes the same way from `create` on, without the lock.
`invoice` is the sequence of Stripe's invoices for the customer, of recharges, add-ons and renewals, the oldest
first; `fresh` says of a recharge that it was created less than `AUTO_RECHARGE_COOLDOWN_SECONDS` (60) ago.
`Fetch` sees the newest `PageSize` of them (`Page`), since `stripe.Invoice.list` is not paged on; Stripe's default is 10. `Collect`, `Renew` and `Webhook` are Stripe's doing,
`Crash` leaves the lock `Orphan` until `LockExpires` (600 s, so nothing that its owner
created is fresh by then).

### Subscription

`stripe[s]` is what Stripe bills, `db` the row, `events` the webhooks that are not
answered yet. A billing page is `Buy` or `Switch` followed by `Create` or `Modify`. A
handler is `Deliver` (which reads the row), `SaveSub`, and `Cancel` or `CancelMissing` for the
subscription that the row named before. `CheckAddon` and `ReadAddon` are the task that an
add-on purchase queues.

### NestedRuns

`run[r]` joins the row (`open`, `flag`, `charges`), the task (`pc`, `outcome`, `worker`) and its
result in the backend. `Call` submits another run, as a row of a bulk run, a tool or a
function that nobody waits for ("post"); `Resume` is the return of `result.get()` and `Read`
the `refresh_from_db` after it. `Begin` takes the next prefetched message, `StopRun` revokes
the one run's task, `WorkerLost` gives its messages back to the broker, `ChildLost` loses the
child, whose result the worker then reports. `RunnerTask` has the details of one task;
here the steps are those that another run can tell apart.

### Team

`billed` is what Stripe bills, a sequence of items, `hooks` the webhooks in the order of their events
(`updated` and `paid` of a change, `deleted`, `cycle`), from sent over saved and read to done. A handler is three
steps: `SaveRow`, which commits the `Subscription` row (a paid invoice only reads it); `ReadSeats`, which deletes the
seats of a replaced subscription and then reads the seats; and `SetSeats`, the transaction of
`set_subscription_seats_from_stripe_sub`. Its loop
over the seats is a recursive function over the naturals: `Passes(i)[k]` is what is left of the counts, the
rows and the credits after `k` seats in the order of `Place`, `Visit` one seat, with the counts in the
order of Python's dict. `Created` adds a seat for every count that is left, in free slots (which ones does
not matter), and `Assignments` is `auto_assign_team_seats`. `Fails` says when `SetSeats` cannot succeed because a
row it has read is gone, `Retry` is any failure; both have Stripe send the event again, as does a lost
answer (`Answered`). `txns` holds the invoice ids that make a repeated credit count once. `Reset` is
`reset_member_balance`. Memberships are numbered as they are created; `OpenInvite` reads the invite that
`Accept` decides by. `OneByOne` says that webhooks are handled in the order of their events and that
no two handlers, nor a handler and an acceptance, overlap between reading the seats and writing them; the runs
need it for three properties, the theorems do without.

### CallCost

`Look` is the callback's read of the run, `RecordCost` its transaction after the price was
fetched from Twilio. `RawPrice`, `Deduct` and `SaveRow` are the steps of the run's `else` block.

### Conversation

`turn[t]` is how far the two messages of a turn are: the run, the save of each, the commit of both or its rollback,
the analysis. `log` has every message at the time it took its `created_at`; other requests see
those whose turn is `Committed`. Turns overlap in every way. `Ask` is the choice of the question when the answer is
analysed, at any time after the commit.

### Analysis

`request[m]` is the request that has committed the answer `m` and goes on in `on_commit`: `ReadSchedule` reads the
analysis row, `Enqueue` queues the task with its countdown, `SaveSchedule` writes `scheduled_task_id`, of its own task or
the one it has read. `task[m]` is the task, which begins (`Begin`) or gives way (`Skip`); `n` numbers the
requests in the order they saved, and `early` says that the task was looked at before that. Nothing
orders requests or tasks but their countdowns.

### Embeddings

Versions of the document stand for its metadata (etag, size, time). A `Doc` has the
version its `vespa_file_id` was computed from and the version of the text it holds; the two differ
when the author edits between `FetchMeta` and `Download`. `Save` replaces the row and with it
the references; `Search` takes what Vespa has under the ids, `Read` what has a reference still.

### Summary

Fragments are lengths. `Grow` and `Yield` are the two branches of `_join`, `window` the deque,
`chunks` intervals of fragments; `Merge` is a round of `_map_reduce`, where documents are intervals
of chunks, `extra` the one left over and `tree` what `prompt_tree` goes back to. `Clip` is
`convo_window_clipper`.

## Runs

`CHECK_DEADLOCK FALSE` appears where the bounded system may stop: all attempts are
used up, or all runs are over.

| run | shows | bounds |
| --- | --- | --- |
| `ledger` | the rows explain the balance (`LedgerInv`, `BalanceIsSum`), a normal return means recorded, every call ends, and `Ledger` implements `CreditLedger` | 2 processes, a team and a member, 2 invoices |
| `ledger_duplicate` | violation: the loser of a race between two deliveries gets an error instead of the row | 2 processes |
| `workspace_edit` | violation: an edit writes back an old balance | 1 edit, 1 process |
| `runner` | one run: `RunnerInv`, `ChargedPerDelivery`, `PostedIsClosed`, `PriceIsCharged`, `StoppedInTimeNotCharged`, `StopEnds`, `RunCloses`; runs inside runs: `UsedIsClosed`, `RowPaidPerDelivery`, `WaitsEnd` | 2 requests, 1 Stop, 2 tasks, 1 failure of any kind; a root and 2 callees, 2 workers that prefetch 2, 1 stop or failure |
| `runner_stuck` | violation: a Stop that interrupts the `finally` block leaves the row running | 1 of each, no failure |
| `recharge` | `RechargeInv`, `OneOpenInvoice`, `OneInvoicePerCooldown`, `PaidIsCredited`, `AttemptsEnd` | 2 processes, 3 invoices listed one at a time, 2 attempts, 1 death, every event |
| `recharge_over_budget` | violation: an invoice of an earlier, larger amount is paid beyond the budget | 1 process, 3 invoices, all on one page |
| `workspace` | plans: `RowFollowsStripe` and `NoFreeRide` with one page and webhooks in order, `NoUnpaidPlan` with two pages, failed renewals and webhooks in any order; seats: `SeatsMatchStripe`, `CreditsFollowSeats`, `CreditsHaveCause`; knowledge: `NoStaleHit`, `TrustedIsCurrent` | 3 subscriptions, 2 plans, 6 changes, 1 failing handler and 1 add-on; 2 subscriptions with 2 pages, failed renewals, 4 changes and 1 failing handler, any two handlers at once; 2 users, 2 seats of one type at a time, 3 changes, 1 use, 1 lost answer; 3 searches, 1 edit |
| `subscription_tabs` | violation: the webhook of a replaced subscription cancels its successor | 2 billing pages, 5 changes |
| `team_cancelled` | violation: cancelling a team plan leaves the members their credits | 2 users, 2 changes |
| `usage` | admission: `WithinLimits`, `LimitIsLifted`; credits: `OverdraftBounded`; calls: `PriceIsDeducted`, `CallPaidOnce`; conversations: `SkippedForLater`, `LastIsAnalysed`, `NearQuestion`; texts: `FitsWindow`, `WholeIsSummarized` | 3 requests, 2 at once, limits of 1; 3 runs, 2 workers, prices up to 2; 2 runs, 3 callbacks; 3 turns; 3 answers, a cooldown of 2; all texts of up to 5 fragments of 1 to 4 tokens with chunks of 4 |
| `conversation_pair` | violation: an answer is analysed with another conversation's question | 2 turns |

Why the bounds are enough for the questions asked:

- Races between calls are between two of them. Two processes and two invoices give
  every pair: the same row or two rows that share a workspace, the same invoice or two,
  before or after the other's commit. For the ledger, for recharges and for the charges
  of a run the proofs then cover any number.
- A run can be charged twice by a second task or by a second delivery; two tasks and
  one failure give both.
- A jam of waiting callers needs as many callers as workers, so three runs and two workers
  have all of it: a caller alone, a callee that calls, a callee behind its caller in one worker.
- A recharge model needs one process inside and one that waits, and a second attempt
  after a death. The budget of 2 lets a second top-up of 1 through and stops a third. With a page of one invoice, two of three
  are off it, so that an open one is missed as well as found; the proofs cover a page of any size.
- Two subscriptions are the least that can replace each other, and a third may be bought after that;
  six changes at Stripe allow purchases, changes, a replacement, their cancellations and a renewal.
  The proofs then cover any number of each.
- Plans with webhooks in any order: two subscriptions, two billing pages and four changes give a purchase, its end and an
  `updated` event that is handled after the `deleted` one. The proof covers any number.
- Seats: two users and two seats give joining, leaving, upgrades, downgrades and a member
  without a seat; three changes are a purchase, a change and a cancellation or a renewal. With
  `MaxJoins = 3` (a member that leaves and returns) the seats alone pass as well. The proofs then cover
  any number of each, and for credits any mix of seat types.
- Embeddings: the run that embeds, one with other metadata and one that searches are three.
  One edit lies at any point between their steps. The proofs then cover any number.
- Calls: two callbacks of one run and one of another are enough to overlap; the proof
  covers the rest. Conversations: three turns are two whose messages mix and an older one; three answers are one that is
  analysed at once and two that schedule each other away; the proofs cover any number. Texts: five fragments make
  up to four chunks, so rounds with even and odd numbers of documents follow each other.
- Admission: two requests between count and row and a third that is counted when they have a row, with rows that nobody
  checked, reach every limit and go beyond it by one. Credits: two runs under way and a third that waits, one more than there are
  workers, with a price that doubles after the check. The proofs cover any numbers.

Each property has a mutant in `PROJECT.json`: a plausible bug of the code (a
missing row lock, a dropped unique index, a missing cooldown, a lock without timeout, an
off-by-one) under which TLC finds that property violated in that run.

## Fairness

Only the schedulers that the code relies on are fair. No user has to press a
button, no failure has to happen, no limit has to be reached.

- Ledger: a process inside a call keeps running (weak fairness); Postgres wakes the
  waiters of a row lock or of an insert in turn, so a waiter that could go on again and
  again does (strong fairness).
- Runner: a request finishes what it began, workers take queued messages, and a child
  that is not killed runs on. A workflow may yield for ever: `RunCloses` is stated for
  workflows that end, `StopEnds` is not. `RunCloses` also assumes that nobody stops the
  run and no web process or child alone dies, since each of these can leave a row open.
- Admission: clocks run. Rows need not be closed by anyone.
- Recharge: a process goes on until it ends or dies, redis expires keys, and Stripe
  repeats `invoice.paid` until it is answered.
- Nested runs: the broker delivers, workers begin what they hold and a run goes on by itself.
  A workflow that waits can only go on when its callee's result is there, so `WaitsEnd` says
  that nothing but a jam (excluded by its antecedent `[]<>~Jam`) keeps a run from its end.
- Analysis: celery begins tasks once their countdown is over. A request need not ever finish.
- Summary: the task goes on.
- Subscriptions, seats, calls and embeddings are checked for safety only, in states where all
  webhooks are answered.

## Proofs

All proofs hold for every value of the constants that satisfies the `ASSUME` of
the module: any sets of processes, requests, tasks, accounts and invoices, integer
amounts, any number of attempts, deaths and other failures. What a theorem assumes beyond that is
in its statement, and below.

Induction over data is out of the prover's reach, where the library states it with an operator as
parameter. What a recursive function over the naturals computes is proved all the same, by its least
counterexample: were `f` wrong somewhere there would be a least place (`NatLessThanWellFounded` with
`WFMin`, which takes a set), and the place before it would be right.

### Ledger

- `TypeCorrect`, `LedgerCorrect`: `LedgerInv` is inductive. The claim itself, that the rows
  explain the balance, is not: one must know that who is between the lock and the end
  of the transaction holds the row alone (`LockInv`), that what it is about to write is the
  committed balance plus its amount (`ViewInv`), and that no two transactions have
  inserted the same invoice id (`InsertInv`). `LockInv` makes `ViewInv` stable, because
  nobody else can commit to the row; `ViewInv` gives `LedgerExplainsBalance` at `Commit`;
  `InsertInv` gives `OneRowPerInvoice`.
- `InvoiceOnce`, `ReturnsAreRecorded`: consequences for the webhook handlers.
- `BalanceAddsUp` (`BalanceIsSum`): the balance is the sum of the amounts of all rows. The sum is a
  recursive function over the rows (`SumsUnique`); as every row's `end_balance` is the one before plus its
  amount (`LedgerExplainsBalance`), the running sum is the `end_balance` everywhere, or at a least place it is not.
- `LedgerImplementsCredit`: every step of `Ledger` is a `Credit` of `CreditLedger` or a
  stutter; only `Commit` is a `Credit`, by `ViewInv` and `InsertInv`.

### AutoRecharge

For any number of processes, invoices and deaths and any size of a page:

- `RechargeCorrect`: `RechargeInv` is inductive. Who is inside owns the lock (`LockInv`). Add-on
  purchases run beside the lock, so one must know that they never hold a recharge
  invoice (`InvoiceInv`: an invoice keeps its kind, a new one is the last). From the search that found
  nothing until the new invoice is made, what is due (open, or younger than a cooldown) is off the page
  (`CreateInv`): purchases and renewals only push it further away. From then until it is finalized, what is due lies
  more than a page before it, and nobody has made a newer recharge chargeable (`FinalizeInv`): that
  takes the lock, and a payment or Stripe's collection only turns open into paid. Finalizing then adds
  one that is more than a page after everything due.
- `NeverTwoOpen` and `NeverTwoPerCooldown`: among the invoices of one page there are never two recharges of which the older is
  unpaid, or younger than a cooldown, and the newer chargeable. That is what the code gives: an unpaid invoice
  that 10 newer ones have pushed off Stripe's page is not found, and another one is made (below).
  `NeverTwoInside` and `TypeCorrect` follow as well.
  `TypeOK` alone is not inductive: the record of a credited invoice needs `InvoiceInv`.

### RunnerTask

- `RunnerCorrect`: `RunnerInv` is inductive. That two tasks never both charge depends on two
  places far apart. A run that nobody has stopped is started once, and `Publish` does not
  find it again, because only a press of Stop with its flag on record can clear the status
  before the first save of the run (`StartInv`, `StopInv`). After a stop a second task may well
  start, beside the first one that is already past the flag; but the flag is never taken
  back, so every later `Refresh` sees it and only the first can still reach the charge
  (`OnePassed`). One delivery charges once because the charge comes after all steps
  that may be repeated (`ChargeInv`).
- `EmailIsLast` (`PostedIsClosed`) needs `PostInv` in that invariant: a task that reaches its `finally` block
  without an error has charged and recorded its price, and nobody but a second delivery can open the row
  that it closes; a stop that is saved late only writes the flag.
- `StopInTime` (`StoppedInTimeNotCharged`), the one action property: a flag on record before the
  worker's next look at it is never cleared, and from `queued`, `load` or `refresh` no step leads to the
  charge but through a `save` that has seen the flag (`Stopped`). The temporal argument is two invariants
  of one task: once in time, always `Stopped`.
- `ChargedOnce`, `PriceCorrect` and `TypeCorrect` follow. The proof reads every step of a worker, the
  broker or a failure through three facts: where the task may come from (`WorkMoves`), what
  it does to the row (`WorkRows`) and to the charges (`WorkCharges`).

### NestedRuns (`NestedProofs`)

For finitely many runs, and any number of workers, prefetched messages, calls, stops and failures:

- `NestedCorrect`: `NestedInv` is inductive. A run is charged after its calls and before its row is closed, and
  each delivery makes each call at most once (`PaidInv`, `LineInv`). While no worker has died every
  message is that of a queued run that has no other, whether the broker or a worker holds it (`MsgInv`), so
  that each run is executed once: it is charged, then closed, and its result is stored last (`OnceInv`).
- `UsedAreClosed` (`UsedIsClosed`): a caller that reads its callee finds a closed and, for a row of a bulk run, charged
  one. `RowsPaidPerDelivery` (`RowPaidPerDelivery`): a row of the input is paid no more often than the bulk run was
  delivered. It counts the runs of a row by cardinalities (`Called`), of which each call adds one.
- As in `RunnerProofs`, every step is read once as what it makes of one record (`Moves`, `Becomes`).

### RunAdmission (`UsageProofs`)

For any finite set of runs and any number of requests at once:

- `LimitsCorrect`: `LimitInv` is inductive. A request that has passed a count has its place among the rows already
  (`Admitting`, `Requesting`), so that `Create` changes neither number. A count that lets a request pass has seen fewer
  rows than the limit, and what it has not seen is at most the other requests, fewer than `Clients` (`PlaceInv`).
- `LimitsHold` is `WithinLimits`: the limit is exceeded by no more than `Clients - 1`. With requests one after the
  other, that is the limit.

### RunCredits (`UsageProofs`)

For any number of runs, workers and prices, plans that change and members that come and go:

- `OverdraftIsBounded` (`OverdraftBounded`): `CreditInv` is inductive. Were all runs that are open and had the price in an
  account charged now, at the highest price, the account would be overdrawn by no more than `Workers` of them and the blind
  charges (`DebtInv`). A run joins them only when the balance is not negative, and then no more than
  `Workers` are open; a charge takes one of them away, or is blind.
- `ChargedOncePerRun` (`CreditTypes`, part of `UsageTypes`): `cost` stays within one price, since a page that has charged is not
  open any more.

### CallCost (`UsageProofs`)

- `CallCorrect`: a run has been charged nothing before its charge and its price afterwards, and a row
  with a transaction shows that price (`PriceInv`); a price is at most the run's own credit plus the
  costs recorded. A callback that has read a transaction still finds it on the row (`HookInv`).
- `PriceCorrect` and `NeverPaidTwice` follow: `PriceIsDeducted` and `CallPaidOnce` for any number of runs and
  callbacks.

### Conversation and Analysis (`UsageProofs`)

For any number of turns and answers that overlap in any way:

- `ConversationCorrect`: `ConvoInv` is inductive. Each message is in the log once, and a turn's question before its
  answer (`LogInv`). When an answer is analysed its own question is committed and before it, so the latest committed
  message before it (`Greatest`) is that one or a later one (`NearInv`).
- `QuestionIsNear` (`NearQuestion`) follows. That it is the question of the same turn is false (`conversation_pair`).
- `SkipIsForLater` (`SkippedForLater`): `AnalInv` is inductive. Requests are numbered as they save (`NumberInv`). The one that saved last is not
  skipped once it has saved, because the row names it if it waits (`LastInv`): a request that writes back what it
  has read does so for a task that is not delayed, and is then itself the last. So whoever is skipped has the last
  one after it (`LaterInv`). Tasks that were looked at before their own request had saved (`early`) are excepted, and the
  model shows that they must be (below).

### Summary (`UsageProofs`)

- `TextsFit` (`FitsWindow`): chunks fit the window, overlap by no more than allowed and leave nothing out. In `TextInv` the
  window that grows fits and reaches to the fragment before `next` (`WindowInv`); what is yielded begins before the
  next window, since a window with its first fragment and the new one would not fit. Lengths are differences
  of a running sum (`Upto`), which is a number everywhere by its least counterexample. `ClipFits` is the half about
  histories: the greatest position that is too long exists, and two messages later the rest fits.
- `NothingLeftOut`, the safety half of `WholeIsSummarized`: the documents of every round are intervals of chunks that go on
  where the one before ends, from the first chunk to the last (`Tile`), and a round keeps that, whether the number
  is odd or even (`MergeTiles`). One document is then the summary of all chunks.

### Subscription (`SubscriptionProofs`)

- `PlansTyped`, without any assumption: `PlanInv` adds to the types what is known of the ids that requests and
  webhooks carry. A plan that a page modifies or a handler saves is one that Stripe has had.
- `NobodyRidesFree` (`UnpaidIsStale`), also without any: in every order of webhooks, with overlapping and failing handlers, any number of
  billing pages, add-ons and renewals, a workspace gets a plan that nobody pays only when an `updated` event is saved whose
  subscription is `Gone`: Stripe has ended it, and no webhook is left that will say so to the row. What a
  handler works on has been sent (`SentInv`), so the event of an end is new and still to be handled (`EndIsTold`); when it is
  handled the row is free before the event is answered; and no other step makes a subscription gone.
  That the plan must be free once all webhooks are answered (`NoFreeRide`) is checked with webhooks in order only.
  `NoUnpaidPlanEver` is the same of the instance in `MCWorkspace`.

### Team (`TeamProofs`)

For any users, seats, seat types, limits, changes, joins, uses, failures and lost answers, and handlers that overlap
in any order. The runs check `CreditsFollowSeats`, `CreditsHaveCause` and `SeatsMatchStripe` for handlers
that take their turn (`OneByOne`), which nothing in Stripe or the code ensures. The theorems assume no such
order; they say of each step what must have gone before when the claim fails. `Fresh(i)` says that what handler
`i` has read is still so, but for members that have left and credits that were used.

- `TeamKeepsTypes` (`TeamTypes`): `TypeInv` is inductive. That no membership gets
  two seats rests on who is given one: a new member has a new id (`IdInv`), the loop leaves a seat to its member or
  to nobody (`LoopSeats`), and `Assignments` pairs members without a seat with vacant seats so that
  each has one partner at most (`Matching`): both sides are ordered, and partners have the same rank (`RankMonotone`).
- `CreditsNeverExceedSeats`: a member comes to have more credits than the seat allows, or credits and no seat, by three kinds of steps
  only: `SetSeats` of a handler that is not `Fresh`, `SetSeats` that repeats an invoice whose credits are recorded (a lost
  answer), and `ReadSeats` that deletes the seats of a replaced subscription (`team_cancelled`). All other
  steps, joins, leaves, months, runs and handlers that are fresh, keep each member within its seat (`Within`, `WithinStep`).
  Each of the three does happen in the model.
- `BalancesRiseForACause`: a balance rises with a change of the member's seat, once for a month's invoice,
  or by a handler that is not `Fresh`. Every credit of the loop goes with a change of its seat's row, and a fresh handler
  writes the rows it has read, so it is the seat of the member who gets it.
- `SeatsAreThoseBilled`: a handler that is `Fresh` leaves exactly the seats of its items, if these are one item
  (`OneItem`) and all seats are of one type (`OneTypeOfSeat`), which is what `get_stripe_line_item` (`payments/plans.py:410`) makes
  of a plan. `LoopMatch` counts pass by pass: the seats that stay or are retyped so far, and what is left of
  the count, together are what is billed; the passes are what
  their equation says, by least counterexample (`PassesAre`), there is one seat at every place, and `Created` adds
  what is left. With two types at once the claim is false (below).

### Embeddings (`WorkspaceProofs`)

For embeddings that are faster than the lock's timeout (`~Slow`):

- `KnowledgeCorrect`: whoever is inside the lock owns it (`LockInv`); a row has references, they
  are its own, and none is older than the row's metadata (`DocInv`); a download is as new as the
  metadata fetched before it and as the row it replaces (`TextInv`).
- `SearchIsFresh` (`NoStaleHit`): that there is a row with a text as new as `n`, `Floor(n)`, stays true
  once it is. A run that checked metadata `m` has `Floor(m)` when it searches (`SeenInv`), so a hit that
  still has its reference when it is read is as new (`FoundInv`). `TrustIsJustified`
  (`TrustedIsCurrent`): metadata equal to that of now was fetched after the last edit, and so was the text.

### The parts together (`UsageProofs`, `WorkspaceProofs`)

- `PartsOfUsage` and `PartsOfWorkspace`: a behaviour of the composing module is one of each of its parts, so
  what is proved of a part holds in it. `UsageTyped` (`UsageTypes`) follows with `ChargedOncePerRun`, and the types of
  the other parts.
- `NoUnpaidPlanEver` (`NoUnpaidPlan`): the plan with two billing pages, failed renewals and webhooks in any order. `SP2` is the module of
  the theorems with the constants and variables of `TwoPages`; its assumption holds if there are two
  subscriptions and a plan (`TwoPagesAssumption`), its actions are those of `TwoPages` (`SameStep`), and `NobodyRidesFree`
  of it is the claim.

### A note on CHOOSE

The SMT translation of this version of tlapm reads `x = CHOOSE y : P(y)` as `(\E y : P(y)) => P(x)`, which is
right for a hypothesis and too weak for a goal. Where a goal speaks of a chosen value the proofs therefore
first state that it has the property (`(CHOOSE y \in S : P(y)) \in S`), hide its definition, and go on with that; a
goal that is an equation with a CHOOSE by definition is left to Zenon.

### Only model-checked

- Liveness (`CallsEnd`, `StopEnds`, `RunCloses`, `PaidIsCredited`, `AttemptsEnd`,
  `LimitIsLifted`, `WaitsEnd`, `LastIsAnalysed`, `WholeIsSummarized`): out of the prover's reach, and stated under fairness.

- What needs webhooks in order, which only the runs assume: `RowFollowsStripe` and `NoFreeRide` (`Serial`),
  `SeatsMatchStripe`, `CreditsFollowSeats` and `CreditsHaveCause` (`OneByOne`). What holds in any order is proved of the same
  handlers (`NoUnpaidPlan`, and the step theorems of `TeamProofs`).

Every other safety property that a passing run checks, invariant or action property, is the property of a theorem.

## Where code and claims disagree

With a run each; the trace is what TLC prints for it:

1. `ledger_duplicate`: the handler of `IntegrityError` in `add_balance_raw` looks the row
   up inside the broken transaction, so the losing duplicate fails with
   `TransactionManagementError` (`workspaces/models.py:382`). The invoice is credited all
   the same, and Stripe repeats the failed webhook.
2. `workspace_edit`: `workspace_copy.save()` writes the balance the form has read
   (`workspaces/views.py:427`), undoing a charge or a payment made meanwhile.
3. `runner_stuck`: SIGUSR1 in the `finally` block, or before the `try`, ends the task without
   closing the row (`celeryapp/tasks.py:167`).
4. `recharge_over_budget`: an open invoice is reused whatever its amount
   (`payments/models.py:331`), though the budget was checked against today's amount.
5. `subscription_tabs`: `handle_subscription_cancelled` does not look at which
   subscription was deleted (`payments/webhooks.py:237`).
6. `team_cancelled`: `set_workspace_subscription` deletes the seats (`payments/webhooks.py:331`) before
   the code that takes the members' credits back (`:403`) can see them.
7. `conversation_pair`: `get_previous_by_created_at` (`bots/tasks.py:87`) takes the message before in time,
   of any conversation; saving a pair in one transaction (`daras_ai_v2/bots.py:776`) does not
   keep other messages from in between.

Met in the same models under other constants, without a run of their own:

- `Subscription` with `MaxAddons = 1`, `Tabs = 1`, `MaxEvents = 5`: `BoughtIsKept` fails, because the
  task of an add-on purchase finds no subscription, reads the workspace after one was
  bought, sets STARTER and cancels it (`app_users/tasks.py:46`).
- The same module with `"lapse"` in `Happens`, one page: `RowFollowsStripe` fails. A first renewal or payment that fails
  before its webhook was handled leaves the row free and no subscription active, so a second one is bought; with
  more such failures that recover, Stripe bills two at last.
- With two billing pages and no failed renewal it fails as well: `cancel()` of a replaced subscription that is
  already gone sets the row to STARTER (`payments/models.py:207`) while its successor is billed. A handler that also
  fails after the row is saved and before the old subscription is cancelled (`payments/webhooks.py:330`)
  leaves both billed, since the retried webhook takes the new one for the old one.
- `RunAdmission` with `Clients = 2`: the limits themselves do not hold, both requests being counted before
  either has a row (`daras_ai_v2/ratelimits.py:117`); by how much they can be exceeded is `WithinLimits`.
- `AutoRecharge`: there can be two open recharge invoices, although `payments/models.py:313` says "Fetches the relevant
  invoice, or creates one if it doesn't exist": `stripe.Invoice.list` (`:320`) answers with one page of invoices of every kind, and
  an open one behind it is not seen. Stripe may collect both.
- `Subscription` with webhooks in any order: `NoFreeRide` fails. An `updated` event from before a subscription's end that is handled
  after the `deleted` one restores the plan, and nobody takes it back.
- `AutoRecharge`: the cooldown counts from the creation of an invoice
  (`payments/models.py:337`), though `payments/models.py:316` speaks of one "recently paid":
  an old open invoice may be paid and another one made and paid at once.
- `Team` with `OneByOne = FALSE`: `invoice.paid` and `customer.subscription.updated` of a new team plan both
  see no seats and both create them; `CreditsFollowSeats` and `CreditsHaveCause` fail as well, when webhooks
  of two changes are handled in the wrong order or at once. With two seat types at once, two seats of type A and a bill for
  one A leave both as they are, since the exhausted count of 0 stays in the dict and is popped again
  (`payments/webhooks.py:372`). A member who leaves between a handler's read and its write fails it.
- `Team`, a webhook that is answered twice (`MaxLost = 1`): a repeated `invoice.paid` finds its ids used and skips
  the change of balance although it changes seats, which is why `CreditsFollowSeats` is stated for `lost = 0`;
  a repeated cycle invoice never succeeds (`workspaces/models.py:420`).
- `Team`: `Accept` decides by the invite it has read, so an invite cancelled meanwhile still lets its
  user in.
- `CallCost`, `CallPaid`: a callback between the run's pricing and its saved transaction, or of a run
  that failed, leaves its call unpaid, whatever `usage_costs/twilio_usage_cost.py:64` expects.
- `Analysis`: the message that is saved last may not be analysed. If an earlier message's request saves its schedule
  after it (`bots/signals.py:83`), the row names the earlier task, and the later one gives way to it (`bots/tasks.py:51`).
  And without the exception for tasks that were looked at before their own request had saved, `SkippedForLater` and
  `LastIsAnalysed` fail: two tasks may each be skipped for the other.
- `NestedRuns`: a pool whose workers all wait for runs that they hold back never moves again (`Jam`);
  with two failures a lost result can leave a caller waiting for ever.
- `Embeddings` with `Slow = TRUE`: a lock that expires under its owner lets an older embedding replace a
  newer one, and `NoStaleHit` fails. Without it, a re-embedding with older metadata can still leave
  another run's search without results, and documents in Vespa that nobody refers to take up hits.
- `Summary`: the `tree` loses the children of a document that was left over
  (`recipes/DocSummary.py:285`); only the shown prompt tree depends on it. `Clip` of an odd number of messages
  never tests the whole history, so the result may exceed its limit (`recipes/VideoBots.py:568`).

## Abstractions

- Amounts are small integers, in credits or dollars; a dollar is worth a fixed number of
  credits, so the recharge model counts both in dollars. A run's price is any number up to a bound, and another one after the run
  (`RunCredits`); where only its being paid matters (`RunnerTask`, `NestedRuns`) it is left out.
- Time is what the code compares: younger or older than a cooldown or window. The recharge
  model is one calendar month. A holder of the redis lock is faster than its timeout
  of ten minutes, or dead.
- `add_balance` is one step in every module but `Ledger`, which `LedgerImplementsCredit`
  justifies; a duplicate that fails there has its invoice credited by the winner.
- `RowFollowsStripe`, `NoFreeRide` and `subscription_tabs` have webhooks in order and handlers that do not overlap
  (`Serial = TRUE`), `NoUnpaidPlan` and the proofs do not.
  PayPal and scheduled downgrades are not in it; seats are in `Team`.
- `RunAdmission` is one user and one workflow, with the limits that the workspace has when the model begins
  (they differ for paying workspaces).
- `RunCredits` is one workspace and one member; the charges of its other members to the workspace are runs of the same kind.
  A seat's credits are written in one step, what happens between their reading and writing is in `Team`.
- `Team` has one subscription per behaviour and no admin or enterprise seats. In the run webhooks are in order and do
  not overlap (`OneByOne`), in the proofs they may; a membership that has left is read as balance 0 by the handlers.
- `CallCost` counts every amount as one credit: the properties compare sums of the same amounts.
- `Analysis` has one analysis script; its result, and the run that computes it, are in `NestedRuns`' terms
  a run that nobody waits for. Times are whole units, and a countdown of none is 0. Whether an answer is analysed does not
  depend on its question, so `Conversation` takes the analysis to begin at any time after the commit.
- `Embeddings` is one document with the settings of one bot; ranking, splitting and translation are left
  out, a text is told by its version only.
- `Summary` takes lengths to add up and `_split` to have produced fragments that fit; stripping can
  only shorten a chunk. A piece of text that no separator splits and that is longer than a chunk is dropped
  by `_split` without a word (`SeparatorFallback.IGNORE`, `daras_ai_v2/text_splitter.py:121`): that nothing is left
  out is said of the fragments it yields.
- In `NestedRuns`, a bulk run's rows and the calls of functions come one after the other, as in the code;
  the parallel tool calls of a chat model are not in it.
- In `RunnerTask`, `submit_and_redirect`'s row creation and its first save are one step, since no
  other process knows the row's id in between. Emails and low-balance notices are left out. Every task charges
  its run; those that are started with `deduct_credits=False` (`celeryapp/tasks.py:159`), and are never charged, are in `RunCredits`
  (`Finish`).
- Reads of several columns by one query are atomic, as in Postgres at READ COMMITTED;
  two queries of one request are two steps.

## Plan

1. *Done*: `CreditLedger`, `Ledger`, `WorkspaceEdit`, `RunnerTask`, `NestedRuns`, `RunAdmission`, `AutoRecharge`,
   `Subscription`, `Team`, `RunCredits`, `CallCost`, `Conversation`, `Analysis`, `Embeddings`, `Summary`; proofs about all of them
   but `WorkspaceEdit`, whose one property the code violates.
2. `Team` with two seat types at once: how far `SeatsMatchStripe` can be off, seat by seat.
3. `Versions`: `add_version` and the whole-row saves of published runs
   (`bots/models/published_run.py`), two of which may leave the row at an older version.
4. `Settings`: the settings form against `set_workspace_subscription`, composing `Subscription` with the
   settings of `AutoRecharge`.
5. `UrlShortener`, number provisioning: smaller modules.
