----------------------------- MODULE RunnerTask -----------------------------
(* One workflow run (a SavedRun row) from the button to the result: web        *)
(* processes start it, celery delivers it to workers (acks_late, so again      *)
(* after a lost worker), the worker saves every step, charges for a completed  *)
(* run and closes the row, and other web processes stop it with a flag and a   *)
(* SIGUSR1.  Every save writes only its update_fields, and every process works *)
(* on the copy of the row it read.                                             *)
EXTENDS Naturals, FiniteSets

CONSTANTS
    Webs,       \* web requests that may start the run
    Stops,      \* presses of the Stop button
    Tasks,      \* celery task ids
    NoTask,     \* SavedRun.celery_task_id / transaction is empty
    Faults,     \* kinds of failure that may happen: "web", "worker", "child"
    MaxFaults   \* bound: how many of them

FaultKinds == {"web", "worker", "child"}

ASSUME RunnerAssumption ==
    /\ NoTask \notin Tasks
    /\ MaxFaults \in Nat
    /\ Faults \subseteq FaultKinds

VARIABLES
    row,      \* the SavedRun row as committed
    web,      \* web[w]: what the starting request w still has to do
    stop,     \* stop[s]: how far press s is, and the copy of the row it works on
    task,     \* task[t]: the message and the execution of task id t
    charges,  \* charges[t]: deductions executions of t have committed to the ledger
    posted,   \* posted[t]: times t has queued post_runner_tasks (the completion email)
    faults    \* faults[kind]: failures so far

vars == <<row, web, stop, task, charges, posted, faults>>

STATUS == {"", "Starting", "Running"}  \* "" also when the row does not exist yet

Row == [exists : BOOLEAN, status : STATUS, error : BOOLEAN, ran : BOOLEAN,
        cancelled : BOOLEAN, taskId : Tasks \cup {NoTask}, txn : Tasks \cup {NoTask}]

Web == [pc : {"idle", "dispatch", "saveid"}, id : Tasks \cup {NoTask}]

Stop == [pc : {"idle", "check", "flag", "clear", "revoke", "done"},
         status : STATUS, taskId : Tasks \cup {NoTask}]

\* "refresh" and "save" are the two halves of save_on_step, "final" is its call in
\* the finally block, "error" the rest of the except block.
Inside == {"load", "refresh", "save", "main", "except", "error", "charge", "record",
           "final", "post"}

Task == [pc     : {"none", "queued", "ack", "end"} \cup Inside,
         seen   : BOOLEAN,       \* sr.is_cancelled in the worker's memory
         result : {"ok", "error", "stopped", "raise", "failed"},
         sig    : BOOLEAN,       \* SIGUSR1 sent to the child, not yet handled
         acked  : BOOLEAN,       \* a terminated request is acked at once
         revoked : BOOLEAN,      \* the id is in the workers' revoked set
         deliveries : Nat]

Fresh == [pc |-> "none", seen |-> FALSE, result |-> "ok", sig |-> FALSE,
          acked |-> FALSE, revoked |-> FALSE, deliveries |-> 0]

Init ==
    /\ row = [exists |-> FALSE, status |-> "", error |-> FALSE, ran |-> FALSE,
              cancelled |-> FALSE, taskId |-> NoTask, txn |-> NoTask]
    /\ web = [w \in Webs |-> [pc |-> "idle", id |-> NoTask]]
    /\ stop = [s \in Stops |-> [pc |-> "idle", status |-> "", taskId |-> NoTask]]
    /\ task = [t \in Tasks |-> Fresh]
    /\ charges = [t \in Tasks |-> 0]
    /\ posted = [t \in Tasks |-> 0]
    /\ faults = [kind \in FaultKinds |-> 0]

-----------------------------------------------------------------------------
(* Web: start the run *)

\* submit_and_redirect: a new row in "Starting...", to be dispatched by this request.
Submit(w) ==
    /\ web[w].pc = "idle"
    /\ ~row.exists
    /\ row' = [row EXCEPT !.exists = TRUE, !.status = "Starting"]
    /\ web' = [web EXCEPT ![w].pc = "dispatch"]
    /\ UNCHANGED <<stop, task, charges, posted, faults>>

\* create_and_validate_new_run(run_status=None): a row that waits for the login.
SaveDraft(w) ==
    /\ web[w].pc = "idle"
    /\ ~row.exists
    /\ row' = [row EXCEPT !.exists = TRUE]
    /\ UNCHANGED <<web, stop, task, charges, posted, faults>>

\* RecipeRunState.standby as the UPDATE of publish_and_redirect filters for it.
Standby == row.exists /\ row.status = "" /\ ~row.error /\ ~row.ran

\* Mutant of Publish: test the row that was read, then update it unconditionally.
PublishAnyway(w) ==
    /\ web[w].pc = "idle"
    /\ row.exists /\ ~row.error /\ ~row.ran
    /\ row' = [row EXCEPT !.status = "Starting"]
    /\ web' = [web EXCEPT ![w].pc = "dispatch"]
    /\ UNCHANGED <<stop, task, charges, posted, faults>>

\* publish_and_redirect: the conditional UPDATE lets one request at a time start it.
Publish(w) ==
    /\ web[w].pc = "idle"
    /\ Standby
    /\ row' = [row EXCEPT !.status = "Starting"]
    /\ web' = [web EXCEPT ![w].pc = "dispatch"]
    /\ UNCHANGED <<stop, task, charges, posted, faults>>

\* call_runner_task: runner_task.delay(), ...
Dispatch(w, t) ==
    /\ web[w].pc = "dispatch"
    /\ task[t].pc = "none"
    /\ task' = [task EXCEPT ![t].pc = "queued"]
    /\ web' = [web EXCEPT ![w] = [pc |-> "saveid", id |-> t]]
    /\ UNCHANGED <<row, stop, charges, posted, faults>>

\* ... then "persist task id so a Stop click can revoke it mid-run".
SaveTaskId(w) ==
    /\ web[w].pc = "saveid"
    /\ row' = [row EXCEPT !.taskId = web[w].id]
    /\ web' = [web EXCEPT ![w] = [pc |-> "idle", id |-> NoTask]]
    /\ UNCHANGED <<stop, task, charges, posted, faults>>

-----------------------------------------------------------------------------
(* Web: stop the run *)

\* The button is there while the page's own run_status says so, which may lag behind
\* the row that this request has just read.
StopPressed(s) ==
    /\ stop[s].pc = "idle"
    /\ row.status # "" \/ row.ran
    /\ ~row.cancelled
    /\ stop' = [stop EXCEPT ![s] = [pc |-> "check", status |-> row.status,
                                    taskId |-> row.taskId]]
    /\ UNCHANGED <<row, web, task, charges, posted, faults>>

\* What revoke_saved_run_task_on_cancel does next with the instance it was given.
AfterFlag(s) ==
    IF stop[s].status = "Starting" THEN "clear"
    ELSE IF stop[s].taskId # NoTask THEN "revoke" ELSE "done"

\* Mutant of StopCheck: the status is cleared and the task revoked in pre_save, when the
\* flag is not on record yet.
StopBeforeFlag(s) ==
    /\ stop[s].pc = "check"
    /\ stop' = [stop EXCEPT ![s].pc = IF row.cancelled THEN "done" ELSE AfterFlag(s)]
    /\ UNCHANGED <<row, web, task, charges, posted, faults>>

\* pre_save: has somebody else cancelled the row since it was read?
StopCheck(s) ==
    /\ stop[s].pc = "check"
    /\ IF row.cancelled
       THEN stop' = [stop EXCEPT ![s].pc = "done"]
       ELSE stop' = [stop EXCEPT ![s].pc = "flag"]
    /\ UNCHANGED <<row, web, task, charges, posted, faults>>

StopFlag(s) ==
    /\ stop[s].pc = "flag"
    /\ row' = [row EXCEPT !.cancelled = TRUE]
    /\ stop' = [stop EXCEPT ![s].pc = AfterFlag(s)]
    /\ UNCHANGED <<web, task, charges, posted, faults>>

\* "just in case the celery task never started"
StopClear(s) ==
    /\ stop[s].pc = "clear"
    /\ row' = [row EXCEPT !.status = ""]
    /\ stop' = [stop EXCEPT ![s].pc = IF stop[s].taskId # NoTask THEN "revoke" ELSE "done"]
    /\ UNCHANGED <<web, task, charges, posted, faults>>

\* app.control.revoke(task_id, terminate=True, signal="SIGUSR1"), as celery does it:
\* a waiting task will be discarded, a running one is acked and signalled.
StopRevoke(s) ==
    LET t == stop[s].taskId IN
    /\ stop[s].pc = "revoke"
    /\ task' = [task EXCEPT ![t] =
                  IF @.pc = "queued" THEN [@ EXCEPT !.revoked = TRUE]
                  ELSE IF @.pc \in Inside
                       THEN [@ EXCEPT !.revoked = TRUE, !.sig = TRUE, !.acked = TRUE]
                       ELSE @]
    /\ stop' = [stop EXCEPT ![s].pc = "done"]
    /\ UNCHANGED <<row, web, charges, posted, faults>>

-----------------------------------------------------------------------------
(* Worker *)

Goto(t, pc) == task' = [task EXCEPT ![t].pc = pc]

Receive(t) ==
    /\ task[t].pc = "queued"
    /\ IF task[t].revoked
       THEN Goto(t, "end")
       ELSE task' = [task EXCEPT ![t] = [Fresh EXCEPT !.pc = "load",
                                                      !.deliveries = task[t].deliveries + 1]]
    /\ UNCHANGED <<row, web, stop, charges, posted, faults>>

\* Everything before the try: build the page and read the row.
Load(t) ==
    /\ task[t].pc = "load"
    /\ task' = [task EXCEPT ![t] = [@ EXCEPT !.pc = "refresh", !.seen = row.cancelled]]
    /\ UNCHANGED <<row, web, stop, charges, posted, faults>>

\* Mutant of Refresh: save_on_step trusts the copy it has.
RefreshFromMemory(t) ==
    /\ task[t].pc = "refresh"
    /\ Goto(t, "save")
    /\ UNCHANGED <<row, web, stop, charges, posted, faults>>

\* sr.refresh_from_db(fields=["is_cancelled"])
Refresh(t) ==
    /\ task[t].pc = "refresh"
    /\ task' = [task EXCEPT ![t] = [@ EXCEPT !.pc = "save", !.seen = row.cancelled]]
    /\ UNCHANGED <<row, web, stop, charges, posted, faults>>

\* Mutant of SaveStep: the status is cleared but nothing is raised.
SaveStepOnly(t) ==
    /\ task[t].pc = "save"
    /\ row' = [row EXCEPT !.status = IF task[t].seen THEN "" ELSE "Running",
                          !.error = FALSE, !.ran = TRUE]
    /\ Goto(t, "main")
    /\ UNCHANGED <<web, stop, charges, posted, faults>>

\* dump_state_to_sr with the step's status; a cancelled run leaves by an exception.
SaveStep(t) ==
    /\ task[t].pc = "save"
    /\ row' = [row EXCEPT !.status = IF task[t].seen THEN "" ELSE "Running",
                          !.error = FALSE, !.ran = TRUE]
    /\ Goto(t, IF task[t].seen THEN "except" ELSE "main")
    /\ UNCHANGED <<web, stop, charges, posted, faults>>

\* page.main yields a status, as often as it likes.
MainYields(t) ==
    /\ task[t].pc = "main"
    /\ Goto(t, "refresh")
    /\ UNCHANGED <<row, web, stop, charges, posted, faults>>

\* page.main ends (the else branch is next) or raises, as it does without credits.
MainEnds(t) ==
    /\ task[t].pc = "main"
    /\ \/ Goto(t, "charge")
       \/ task' = [task EXCEPT ![t] = [@ EXCEPT !.pc = "error", !.result = "error"]]
    /\ UNCHANGED <<row, web, stop, charges, posted, faults>>

\* except: a SoftTimeLimitExceeded with the flag set is a graceful stop.
CheckStop(t) ==
    /\ task[t].pc = "except"
    /\ IF row.cancelled
       THEN task' = [task EXCEPT ![t] = [@ EXCEPT !.pc = "final", !.result = "stopped"]]
       ELSE task' = [task EXCEPT ![t] = [@ EXCEPT !.pc = "error", !.result = "error"]]
    /\ UNCHANGED <<row, web, stop, charges, posted, faults>>

\* The except block saves error_type, error_code and error_params.
SaveError(t) ==
    /\ task[t].pc = "error"
    /\ Goto(t, "final")
    /\ UNCHANGED <<row, web, stop, charges, posted, faults>>

\* Mutant of Charge: the deduction is left to post_runner_tasks, which may never run.
ChargeLater(t) ==
    /\ task[t].pc = "charge"
    /\ Goto(t, "record")
    /\ UNCHANGED <<row, web, stop, charges, posted, faults>>

\* page.deduct_credits: one transaction of Ledger with a new uuid as its invoice id.
Charge(t) ==
    /\ task[t].pc = "charge"
    /\ charges' = [charges EXCEPT ![t] = @ + 1]
    /\ Goto(t, "record")
    /\ UNCHANGED <<row, web, stop, posted, faults>>

\* sr.save(update_fields=["updated_at", "transaction", "price"])
Record(t) ==
    /\ task[t].pc = "record"
    /\ row' = [row EXCEPT !.txn = t]
    /\ Goto(t, "final")
    /\ UNCHANGED <<web, stop, charges, posted, faults>>

\* Mutant of Final: the row is closed only on the way out of a good run.
FinalIfOk(t) ==
    /\ task[t].pc = "final"
    /\ row' = IF task[t].result = "ok" THEN [row EXCEPT !.status = "", !.error = FALSE] ELSE row
    /\ Goto(t, IF task[t].result \in {"ok", "error"} THEN "post" ELSE "ack")
    /\ UNCHANGED <<web, stop, charges, posted, faults>>

\* finally: save_on_step(done=True), "save everything, mark run as completed".
Final(t) ==
    /\ task[t].pc = "final"
    /\ row' = [row EXCEPT !.status = "", !.ran = TRUE,
                          !.error = (task[t].result \in {"error", "failed"})]
    /\ Goto(t, IF task[t].result \in {"ok", "error"} THEN "post" ELSE "ack")
    /\ UNCHANGED <<web, stop, charges, posted, faults>>

\* post_runner_tasks.delay(sr.id)
Post(t) ==
    /\ task[t].pc = "post"
    /\ posted' = [posted EXCEPT ![t] = @ + 1]
    /\ Goto(t, "ack")
    /\ UNCHANGED <<row, web, stop, charges, faults>>

\* acks_late: the message goes away when the task is over.
Ack(t) ==
    /\ task[t].pc = "ack"
    /\ Goto(t, "end")
    /\ UNCHANGED <<row, web, stop, charges, posted, faults>>

\* SoftTimeLimitExceeded comes up wherever the child happens to be: in the body of the
\* try it is handled, in the except or else block the finally block still runs, before
\* the try or in the finally block it ends the task.
AfterInterrupt(pc) ==
    CASE pc \in {"refresh", "save", "main"} -> "except"
      [] pc \in {"except", "error", "charge", "record"} -> "final"
      [] OTHER -> "ack"

InterruptedResult(t) ==
    CASE task[t].pc \in {"refresh", "save", "main"} -> {task[t].result}
      [] task[t].pc = "error" -> {"raise", "failed"}  \* error_msg set yet, or not
      [] OTHER -> {"raise"}

Interrupt(t) ==
    /\ task[t].sig /\ task[t].pc \in Inside
    /\ \E r \in InterruptedResult(t) :
          task' = [task EXCEPT ![t] = [@ EXCEPT !.sig = FALSE, !.result = r,
                                                !.pc = AfterInterrupt(task[t].pc)]]
    /\ UNCHANGED <<row, web, stop, charges, posted, faults>>

-----------------------------------------------------------------------------
(* Failures *)

Fault(kind) ==
    /\ kind \in Faults
    /\ faults["web"] + faults["worker"] + faults["child"] < MaxFaults
    /\ faults' = [faults EXCEPT ![kind] = @ + 1]

\* A web process dies between two of its statements.
WebDies(w) ==
    /\ web[w].pc # "idle"
    /\ Fault("web")
    /\ web' = [web EXCEPT ![w] = [pc |-> "idle", id |-> NoTask]]
    /\ UNCHANGED <<row, stop, task, charges, posted>>

\* The worker (its container or broker connection) dies: the broker delivers the
\* unacknowledged message again, to workers that never heard of the revoke.
WorkerDies(t) ==
    /\ task[t].pc \in Inside \cup {"ack"}
    /\ Fault("worker")
    /\ task' = [task EXCEPT ![t] =
                  IF @.acked THEN [@ EXCEPT !.pc = "end", !.sig = FALSE]
                  ELSE [Fresh EXCEPT !.pc = "queued", !.deliveries = task[t].deliveries]]
    /\ UNCHANGED <<row, web, stop, charges, posted>>

\* The child alone dies (out of memory): the worker acks the failed task.
ChildDies(t) ==
    /\ task[t].pc \in Inside
    /\ Fault("child")
    /\ task' = [task EXCEPT ![t] = [@ EXCEPT !.pc = "end", !.sig = FALSE]]
    /\ UNCHANGED <<row, web, stop, charges, posted>>

-----------------------------------------------------------------------------
Execute(t) ==
    \/ Load(t) \/ Refresh(t) \/ SaveStep(t) \/ MainYields(t) \/ MainEnds(t)
    \/ CheckStop(t) \/ SaveError(t) \/ Charge(t) \/ Record(t) \/ Final(t)
    \/ Post(t) \/ Ack(t)

Press(s) == StopCheck(s) \/ StopFlag(s) \/ StopClear(s) \/ StopRevoke(s)

Start(w) == (\E t \in Tasks : Dispatch(w, t)) \/ SaveTaskId(w)

Next ==
    \/ \E w \in Webs : Submit(w) \/ SaveDraft(w) \/ Publish(w) \/ Start(w) \/ WebDies(w)
    \/ \E s \in Stops : StopPressed(s) \/ Press(s)
    \/ \E t \in Tasks : \/ Receive(t) \/ Execute(t) \/ Interrupt(t)
                        \/ WorkerDies(t) \/ ChildDies(t)

Spec == Init /\ [][Next]_vars

\* A request finishes what it began, workers take queued messages, and a child that
\* is not killed runs on; nobody has to press a button, and a workflow may yield for
\* ever.
Fairness ==
    /\ \A w \in Webs : WF_vars(Start(w))
    /\ \A s \in Stops : WF_vars(Press(s))
    /\ \A t \in Tasks : WF_vars(Receive(t)) /\ WF_vars(Execute(t))

FairSpec == Spec /\ Fairness

-----------------------------------------------------------------------------
TypeOK ==
    /\ row \in Row
    /\ web \in [Webs -> Web]
    /\ stop \in [Stops -> Stop]
    /\ task \in [Tasks -> Task]
    /\ charges \in [Tasks -> Nat]
    /\ posted \in [Tasks -> Nat]
    /\ faults \in [FaultKinds -> 0..MaxFaults]

\* The new invoice id of every execution makes a redelivered task charge again; one
\* delivery charges once at most, and two tasks of one run never both do, not for two
\* clicks on Publish nor for one that follows a Stop while the first is still queued.
ChargedPerDelivery ==
    \A t, u \in Tasks : /\ charges[t] <= task[t].deliveries
                        /\ charges[t] > 0 /\ charges[u] > 0 => t = u

\* Whoever gets the completion email finds the run closed, and its price on the page
\* if it succeeded, however late another request presses Stop; only the redelivery
\* by a lost worker opens the row again.
PostedIsClosed ==
    \A t \in Tasks : posted[t] > 0 /\ faults["worker"] = 0 =>
        /\ row.status = ""
        /\ task[t].result = "ok" => row.txn = t /\ charges[t] > 0

\* The price a page shows is one that was charged, crashes included.
PriceIsCharged == row.txn # NoTask => charges[row.txn] > 0

\* The inductive invariant behind the two on charges.  A run that nobody has stopped
\* was started once, by one request or one task, and Publish does not find it again.
Dispatching(w) == web[w].pc = "dispatch"
Issued(t) == task[t].pc # "none"
Started == (\E w \in Webs : Dispatching(w)) \/ (\E t \in Tasks : Issued(t))

StartedOnce ==
    /\ \A v, w \in Webs : Dispatching(v) /\ Dispatching(w) => v = w
    /\ \A t, u \in Tasks : Issued(t) /\ Issued(u) => t = u
    /\ \A w \in Webs, t \in Tasks : ~(Dispatching(w) /\ Issued(t))

StartInv == Started => /\ row.exists
                       /\ ~row.cancelled => StartedOnce /\ (row.status # "" \/ row.ran)

\* Only a press whose flag is on record clears the status or revokes a task.
StopInv == \A s \in Stops : /\ stop[s].pc \in {"clear", "revoke"} => row.cancelled
                            /\ stop[s].pc = "revoke" => stop[s].taskId \in Tasks

\* What a worker has seen of the flag, and what it is signalled for, is on record.
FlagInv == \A t \in Tasks :
    task[t].sig \/ task[t].seen \/ task[t].pc = "except" => row.cancelled

\* One task is past the check of the flag and has never seen it set: it may charge, or
\* has charged, failed or sent its email; a task started after a stop sees the flag
\* before that.
Passed(t) == \/ charges[t] > 0 \/ posted[t] > 0
             \/ task[t].pc \in {"main", "charge"}
             \/ (task[t].pc = "save" /\ ~task[t].seen)
             \/ task[t].result = "error"

OnePassed == \A t, u \in Tasks : Passed(t) /\ Passed(u) => t = u

ChargeInv ==
    \A t \in Tasks :
        /\ charges[t] > 0 => Issued(t)
        /\ charges[t] <= task[t].deliveries
        /\ task[t].pc \in {"load", "refresh", "save", "main", "charge"} =>
              charges[t] < task[t].deliveries
        /\ task[t].pc = "record" => charges[t] > 0

\* What the email of t may say: the row is closed for good.
Closed(t) == /\ row.status = "" /\ row.ran
             /\ task[t].result \in {"ok", "error"}
             /\ task[t].result = "ok" => row.txn = t /\ charges[t] > 0

PostInv ==
    \A t \in Tasks :
        /\ ~Issued(t) => task[t].result = "ok" /\ posted[t] = 0
        /\ task[t].pc = "error" => task[t].result = "error"
        /\ task[t].pc = "final" /\ task[t].result = "ok" => row.txn = t /\ charges[t] > 0
        /\ task[t].pc = "post" => Closed(t)
        /\ posted[t] > 0 /\ faults["worker"] = 0 => task[t].pc \in {"ack", "end"} /\ Closed(t)

RunnerInv == /\ TypeOK /\ StartInv /\ StopInv /\ FlagInv /\ OnePassed
             /\ ChargeInv /\ PriceIsCharged /\ PostInv

\* A stop that is on record before the worker's next save_on_step is in time: that
\* execution and the ones still to come are never charged.
NotChargedAfter(t) == [](/\ row.cancelled
                         /\ task[t].pc \in {"none", "queued", "load", "refresh"}
                         => [](task[t].pc # "charge"))

StoppedInTimeNotCharged == \A t \in Tasks : NotChargedAfter(t)

\* A stopped run stops, even one that would yield for ever, whether or not the signal
\* or the task id ever reach the worker and whichever worker it is redelivered to.
StopEnds == row.cancelled ~> \A t \in Tasks : task[t].pc \in {"none", "end"}

\* A run that was started is shown as over in the end, though workers may be lost, if
\* its workflow ends, nobody stops it, and no web process or child alone dies.
WorkflowEnds(t) == []<>(task[t].pc \notin {"main", "refresh", "save"})
Undisturbed == [](~row.cancelled /\ faults["web"] = 0 /\ faults["child"] = 0)

RunCloses ==
    Undisturbed /\ (\A t \in Tasks : WorkflowEnds(t))
    => ((row.status # "") ~> (row.status = ""))

\* celeryapp/tasks.py on its finally block: "save everything, mark run as completed".
\* When every task of the run is over, the row does not say that it still runs.
EndedIsClosed ==
    /\ \A w \in Webs : web[w].pc = "idle"
    /\ \A t \in Tasks : task[t].pc \in {"none", "end"}
    /\ \E t \in Tasks : task[t].pc = "end"
    => row.status = ""
=============================================================================
