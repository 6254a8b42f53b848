----------------------------- MODULE NestedRuns -----------------------------
(* Runs that start runs and wait for them inside their own celery task: the    *)
(* rows of a bulk run (recipes/BulkRunner.py) and workflows that are called as *)
(* functions or tools (functions/workflow_tools.py).  Callers and callees      *)
(* share one queue and one pool of workers; a worker holds the messages it has *)
(* prefetched, and result.get() has no timeout (gooeysite/bg_db_conn.py).      *)
EXTENDS Naturals, Sequences, FiniteSets, SequencesExt

CONSTANTS
    Runs,         \* SavedRun rows, each with its celery task
    Roots,        \* those a page or the API asks for
    NoRun,
    Workers,      \* celery workers with one child each (-c MAX_THREADS defaults to 1)
    NoWorker,
    Prefetch,     \* messages a worker holds: worker_prefetch_multiplier, 4 by default
    MaxCalls,     \* bound: the calls one execution of a run makes
    Happens,      \* "stop", "worker" (is lost), "child" (dies)
    MaxHappens    \* bound: how many of them

ASSUME NestedAssumption ==
    /\ IsFiniteSet(Runs) /\ Roots \subseteq Runs /\ NoRun \notin Runs /\ NoWorker \notin Workers
    /\ Prefetch \in Nat \ {0} /\ MaxCalls \in Nat /\ MaxHappens \in Nat
    /\ Happens \subseteq {"stop", "worker", "child"}

VARIABLES
    run,      \* run[r]: the row and the task of r
    queue,    \* the broker's queue
    inbox,    \* inbox[w]: messages that w has received but not started
    happened  \* happened[kind]: failures and stops so far

nested == <<run, queue, inbox, happened>>

\* "read" is sr.refresh_from_db() after the wait, "store" the end of the task.
Executing == {"main", "wait", "read", "charge", "final", "store", "ack"}

Run == [pc : {"none", "queued", "end"} \cup Executing,
        kind    : {"root", "row", "tool", "post"},
        caller  : Runs \cup {NoRun},
        line    : 0 .. MaxCalls,         \* which call of the caller this is
        on      : Runs \cup {NoRun},     \* the run it waits for
        calls   : 0 .. MaxCalls,         \* calls made by this execution
        outcome : {"ok", "error", "stopped", "raised"},
        open    : BOOLEAN,               \* run_status is not ""
        result  : {"none", "success", "failure"},   \* in celery's result backend
        flag    : BOOLEAN,               \* is_cancelled, and the task id is revoked
        charges : Nat,
        deliveries : Nat,
        worker  : Workers \cup {NoWorker}]

Unused == [pc |-> "none", kind |-> "root", caller |-> NoRun, line |-> 0, on |-> NoRun,
           calls |-> 0, outcome |-> "ok", open |-> FALSE, result |-> "none",
           flag |-> FALSE, charges |-> 0, deliveries |-> 0, worker |-> NoWorker]

NestedInit ==
    /\ run = [r \in Runs |-> Unused]
    /\ queue = <<>>
    /\ inbox = [w \in Workers |-> <<>>]
    /\ happened = [kind \in {"stop", "worker", "child"} |-> 0]

Active(r) == run[r].pc \in Executing
Busy(w) == \E r \in Runs : Active(r) /\ run[r].worker = w
Unacked(w) == Len(inbox[w]) + IF Busy(w) THEN 1 ELSE 0

NewRuns == {c \in Runs \ Roots : run[c].pc = "none"}

Submitted(kind, caller, line) ==
    [Unused EXCEPT !.pc = "queued", !.kind = kind, !.caller = caller, !.line = line,
                   !.open = TRUE]

-----------------------------------------------------------------------------
(* Starting runs *)

\* A page or the API submits a run.
Request(r) ==
    /\ r \in Roots /\ run[r].pc = "none"
    /\ run' = [run EXCEPT ![r] = Submitted("root", NoRun, 0)]
    /\ queue' = Append(queue, r)
    /\ UNCHANGED <<inbox, happened>>

\* Mutant of Call: a row whose run has failed is submitted once more.
CallAgain(r, c, kind) ==
    /\ run[r].pc = "main" /\ run[r].calls < MaxCalls
    /\ c \in NewRuns
    /\ \E retry \in {FALSE, TRUE} :
          LET line == run[r].calls + IF retry /\ run[r].calls > 0 THEN 0 ELSE 1 IN
          run' = [run EXCEPT
                   ![c] = Submitted(kind, r, line),
                   ![r] = [@ EXCEPT !.calls = line, !.pc = IF kind = "post" THEN "main" ELSE "wait",
                                    !.on = IF kind = "post" THEN NoRun ELSE c]]
    /\ queue' = Append(queue, c)
    /\ UNCHANGED <<inbox, happened>>

\* submit_api_call from inside a run: the row of a bulk run is charged, a function is
\* not; a function with trigger "post" is not waited for.
Call(r, c, kind) ==
    /\ run[r].pc = "main" /\ run[r].calls < MaxCalls
    /\ c \in NewRuns
    /\ run' = [run EXCEPT
         ![c] = Submitted(kind, r, run[r].calls + 1),
         ![r] = [@ EXCEPT !.calls = run[r].calls + 1,
                          !.pc = IF kind = "post" THEN "main" ELSE "wait",
                          !.on = IF kind = "post" THEN NoRun ELSE c]]
    /\ queue' = Append(queue, c)
    /\ UNCHANGED <<inbox, happened>>

-----------------------------------------------------------------------------
(* Workers *)

\* The broker hands out messages in order, to any worker that may hold one more.
Deliver(w) ==
    /\ queue # <<>>
    /\ Unacked(w) < Prefetch
    /\ inbox' = [inbox EXCEPT ![w] = Append(@, Head(queue))]
    /\ queue' = Tail(queue)
    /\ UNCHANGED <<run, happened>>

\* The child takes the next message; a revoked one is discarded with a result that
\* raises in who waits for it.
Begin(w) ==
    /\ inbox[w] # <<>> /\ ~Busy(w)
    /\ LET r == Head(inbox[w]) IN
       run' = [run EXCEPT ![r] =
                 IF @.flag THEN [@ EXCEPT !.pc = "end", !.result = "failure"]
                 ELSE [@ EXCEPT !.pc = "main", !.worker = w, !.open = TRUE, !.calls = 0,
                                !.outcome = "ok", !.deliveries = run[r].deliveries + 1]]
    /\ inbox' = [inbox EXCEPT ![w] = Tail(@)]
    /\ UNCHANGED <<queue, happened>>

\* get_celery_result_db_safe returns, or raises what the task raised.
Resume(r) ==
    /\ run[r].pc = "wait"
    /\ \/ /\ run[run[r].on].result = "success"
          /\ run' = [run EXCEPT ![r].pc = "read"]
       \/ /\ run[run[r].on].result = "failure"
          /\ run' = [run EXCEPT ![r] = [@ EXCEPT !.pc = "final", !.outcome = "error"]]
    /\ UNCHANGED <<queue, inbox, happened>>

\* The error_msg of a function is raised, the one of a bulk run's row is written down.
Read(r) ==
    /\ run[r].pc = "read"
    /\ LET c == run[r].on IN
       run' = [run EXCEPT ![r] =
                 IF run[c].kind = "tool" /\ run[c].outcome = "error"
                 THEN [@ EXCEPT !.pc = "final", !.outcome = "error"]
                 ELSE [@ EXCEPT !.pc = "main", !.on = NoRun]]
    /\ UNCHANGED <<queue, inbox, happened>>

\* The workflow ends, or fails by itself.
WorkEnds(r) ==
    /\ run[r].pc = "main"
    /\ \/ run' = [run EXCEPT ![r].pc = "charge"]
       \/ run' = [run EXCEPT ![r] = [@ EXCEPT !.pc = "final", !.outcome = "error"]]
    /\ UNCHANGED <<queue, inbox, happened>>

ChargeRun(r) ==
    /\ run[r].pc = "charge"
    /\ run' = [run EXCEPT ![r] =
                 [@ EXCEPT !.pc = "final",
                           !.charges = run[r].charges + IF run[r].kind \in {"tool", "post"}
                                                            THEN 0 ELSE 1]]
    /\ UNCHANGED <<queue, inbox, happened>>

\* Mutant of CloseRun: the result is in the backend before the row is closed.
StoreBeforeClose(r) ==
    /\ run[r].pc = "final"
    /\ run' = [run EXCEPT ![r] = [@ EXCEPT !.pc = "store", !.result = "success"]]
    /\ UNCHANGED <<queue, inbox, happened>>

\* save_on_step(done=True)
CloseRun(r) ==
    /\ run[r].pc = "final"
    /\ run' = [run EXCEPT ![r] = [@ EXCEPT !.pc = "store", !.open = FALSE]]
    /\ UNCHANGED <<queue, inbox, happened>>

\* celery stores the result of the task, a stored success for good ...
Store(r) ==
    /\ run[r].pc = "store"
    /\ run' = [run EXCEPT ![r] =
                 [@ EXCEPT !.pc = "ack",
                           !.result = IF run[r].result = "success" \/ run[r].outcome # "raised"
                                      THEN "success" ELSE "failure"]]
    /\ UNCHANGED <<queue, inbox, happened>>

\* ... and acknowledges the message (acks_late).
AckRun(r) ==
    /\ run[r].pc = "ack"
    /\ run' = [run EXCEPT ![r] = [@ EXCEPT !.pc = "end", !.worker = NoWorker]]
    /\ UNCHANGED <<queue, inbox, happened>>

-----------------------------------------------------------------------------
(* Stops and failures *)

Event(kind) ==
    /\ kind \in Happens
    /\ happened["stop"] + happened["worker"] + happened["child"] < MaxHappens
    /\ happened' = [happened EXCEPT ![kind] = @ + 1]

\* Where SIGUSR1 leaves a task: try, else and finally of runner_task.
Interrupted(s) ==
    CASE s.pc \in {"main", "wait", "read"} -> [s EXCEPT !.pc = "final", !.outcome = "stopped"]
      [] s.pc = "charge" -> [s EXCEPT !.pc = "final", !.outcome = "raised"]
      [] s.pc = "final"  -> [s EXCEPT !.pc = "store", !.outcome = "raised"]
      [] OTHER -> s

\* The Stop button: the flag, and a revoke of this run's task only.
StopRun(r) ==
    /\ run[r].pc = "queued" \/ Active(r)
    /\ ~run[r].flag
    /\ Event("stop")
    /\ run' = [run EXCEPT ![r] = IF @.pc = "queued" THEN [@ EXCEPT !.flag = TRUE, !.open = FALSE]
                                 ELSE [Interrupted(@) EXCEPT !.flag = TRUE]]
    /\ UNCHANGED <<queue, inbox>>

\* A worker is lost: its messages are delivered again, but for one that a terminating
\* revoke has acknowledged already.
WorkerLost(w) ==
    LET mine == {r \in Runs : Active(r) /\ run[r].worker = w}
        back == {r \in mine : ~run[r].flag}
        again(s) == IF s.flag THEN [s EXCEPT !.pc = "end", !.worker = NoWorker]
                    ELSE [s EXCEPT !.pc = "queued", !.worker = NoWorker, !.on = NoRun] IN
    /\ mine # {}
    /\ Event("worker")
    /\ run' = [r \in Runs |-> IF r \in mine THEN again(run[r]) ELSE run[r]]
    /\ queue' = SetToSeq(back) \o inbox[w] \o queue
    /\ inbox' = [inbox EXCEPT ![w] = <<>>]

\* Mutant of ChildLost: nobody hears of it.
ChildVanishes(r) ==
    /\ Active(r) /\ run[r].pc # "ack"
    /\ Event("child")
    /\ run' = [run EXCEPT ![r] = [@ EXCEPT !.pc = "end", !.worker = NoWorker]]
    /\ UNCHANGED <<queue, inbox>>

\* The child dies alone: the worker reports WorkerLostError and acknowledges.
ChildLost(r) ==
    /\ Active(r) /\ run[r].pc # "ack"
    /\ Event("child")
    /\ run' = [run EXCEPT ![r] =
                 [@ EXCEPT !.pc = "end", !.worker = NoWorker,
                           !.result = IF run[r].result = "success" THEN "success" ELSE "failure"]]
    /\ UNCHANGED <<queue, inbox>>

-----------------------------------------------------------------------------
Work(r) == Resume(r) \/ Read(r) \/ WorkEnds(r) \/ ChargeRun(r) \/ CloseRun(r) \/ Store(r) \/ AckRun(r)

NestedNext ==
    \/ \E r \in Runs : Request(r) \/ Work(r) \/ StopRun(r) \/ ChildLost(r)
    \/ \E r \in Runs, kind \in {"row", "tool", "post"} :
          NewRuns # {} /\ Call(r, CHOOSE c \in NewRuns : TRUE, kind)
    \/ \E w \in Workers : Deliver(w) \/ Begin(w) \/ WorkerLost(w)

NestedSpec == NestedInit /\ [][NestedNext]_nested

\* The broker delivers, workers begin what they hold, and a run goes on.
NestedFairness ==
    /\ \A w \in Workers : WF_nested(Begin(w))
    /\ WF_nested(\E w \in Workers : Deliver(w))
    /\ \A r \in Runs : WF_nested(Work(r))

NestedFairSpec == NestedSpec /\ NestedFairness

-----------------------------------------------------------------------------
Waiting(r) == run[r].pc = "wait" /\ run[run[r].on].result = "none"

NestedTypes ==
    /\ run \in [Runs -> Run]
    /\ queue \in Seq(Runs)
    /\ inbox \in [Workers -> Seq(Runs)]
    /\ \A w \in Workers : Unacked(w) <= Prefetch
    /\ happened \in [{"stop", "worker", "child"} -> 0 .. MaxHappens]

\* What a caller reads after the wait is a run that is over: its row is closed, and a
\* row of a bulk run that succeeded has been charged.  Only a lost worker, whose
\* message is delivered again after its result was stored, opens the row once more.
UsedIsClosed ==
    \A r \in Runs : run[r].pc = "read" /\ happened["worker"] = 0 =>
        LET c == run[r].on IN
        /\ ~run[c].open
        /\ run[c].kind = "row" /\ run[c].outcome = "ok" => run[c].charges = 1

\* A bulk run that is delivered again starts over and pays its rows again, but no row
\* is paid twice within one delivery of the bulk run and of the row's own run.
RowPaidPerDelivery ==
    /\ \A r \in Runs : run[r].charges <= run[r].deliveries
    /\ \A r \in Runs, line \in 1 .. MaxCalls :
          Cardinality({c \in Runs : run[c].caller = r /\ run[c].line = line}) <= run[r].deliveries

Holds(w, c) == \E i \in 1 .. Len(inbox[w]) : inbox[w][i] = c

\* A run waits for one that its own worker, or another whose run waits too, holds back.
Jam == \E r \in Runs, w \in Workers :
          /\ Waiting(r)
          /\ Holds(w, run[r].on)
          /\ \E q \in Runs : run[q].worker = w /\ Waiting(q)

Over == \A r \in Runs : run[r].pc \in {"none", "end"}

\* Nothing but such a jam keeps the runs from their ends: whatever dies or is stopped,
\* who waits for a result gets one.
WaitsEnd == []<>~Jam => <>[]Over
=============================================================================
