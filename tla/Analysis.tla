------------------------------ MODULE Analysis ------------------------------
(* When the answers of a bot are analysed.  Each answer that is committed      *)
(* queues a task, at once or, within the cooldown of the analysis, for when    *)
(* the cooldown is over; and the row of the analysis names the task that was   *)
(* scheduled last, so that the others give way (bots/signals.py,               *)
(* bots/tasks.py).  Requests read the row, queue and save in any order.        *)
EXTENDS Naturals, FiniteSets

CONSTANTS
    Answers,   \* of any conversations of the bot
    NoAnswer,
    Cooldown,  \* BotIntegrationAnalysisRun.cooldown_period
    MaxNow     \* bound: when the last answer is committed

ASSUME AnalysisAssumption ==
    /\ IsFiniteSet(Answers) /\ NoAnswer \notin Answers
    /\ Cooldown \in Nat /\ MaxNow \in Nat

VARIABLES
    request,  \* request[m]: the request that has saved m, and the schedule it has read
    anal,     \* the BotIntegrationAnalysisRun row
    task,     \* task[m]: the analysis of m; n numbers the requests that have saved their
              \* schedule, and early says that it was looked at before its request had
    now

analysis == <<request, anal, task, now>>

AnalInit ==
    /\ request = [m \in Answers |-> [pc |-> "none", copy |-> NoAnswer, wait |-> 0]]
    /\ anal = [ran |-> FALSE, last |-> 0, scheduled |-> NoAnswer]
    /\ task = [m \in Answers |-> [pc |-> "none", due |-> 0, delayed |-> FALSE, n |-> 0,
                                  early |-> FALSE]]
    /\ now = 0

-----------------------------------------------------------------------------
(* The request: run_after_message_save, once the message is committed *)

ReadSchedule(m) ==
    /\ request[m].pc = "none" /\ now <= MaxNow
    /\ request' = [request EXCEPT ![m] =
                     [pc |-> "read", copy |-> anal.scheduled,
                      wait |-> IF anal.ran /\ anal.last + Cooldown > now
                               THEN anal.last + Cooldown - now ELSE 0]]
    /\ UNCHANGED <<anal, task, now>>

Enqueue(m) ==
    /\ request[m].pc = "read"
    /\ request' = [request EXCEPT ![m].pc = "queued", ![m].wait = 0]
    /\ task' = [task EXCEPT ![m].pc = "queued", ![m].due = now + request[m].wait,
                            ![m].delayed = request[m].wait > 0]
    /\ UNCHANGED <<anal, now>>

Saved(m) ==
    /\ request[m].pc = "queued"
    /\ request' = [request EXCEPT ![m].pc = "done", ![m].copy = NoAnswer]
    /\ task' = [task EXCEPT ![m].n = Cardinality({k \in Answers : task[k].n > 0}) + 1]
    /\ UNCHANGED now

\* Mutant of SaveSchedule: the row keeps the first task that was scheduled.
SaveFirst(m) ==
    /\ Saved(m)
    /\ anal' = [anal EXCEPT !.scheduled = IF @ = NoAnswer /\ task[m].delayed THEN m ELSE @]

\* anal.save(update_fields=["scheduled_task_id"]): of this task, or the one it has read.
SaveSchedule(m) ==
    /\ Saved(m)
    /\ anal' = [anal EXCEPT !.scheduled = IF task[m].delayed THEN m ELSE request[m].copy]

-----------------------------------------------------------------------------
(* The task: msg_analysis *)

MayBegin(m) == task[m].pc = "queued" /\ task[m].due <= now

Looked(m, pc) ==
    task' = [task EXCEPT ![m].pc = pc, ![m].early = request[m].pc # "done"]

\* Mutant of Superseded: the countdown is not looked at.
SupersededAny(m) == anal.scheduled \notin {NoAnswer, m}

\* "Skipping analysis because another task is already scheduled"
Superseded(m) == task[m].delayed /\ anal.scheduled \notin {NoAnswer, m}

Skip(m) ==
    /\ MayBegin(m) /\ Superseded(m)
    /\ Looked(m, "skipped")
    /\ UNCHANGED <<request, anal, now>>

\* scheduled_task_id is set to None too, but not in the row.
Begin(m) ==
    /\ MayBegin(m) /\ ~Superseded(m)
    /\ anal' = [anal EXCEPT !.ran = TRUE, !.last = now]
    /\ Looked(m, "begun")
    /\ UNCHANGED <<request, now>>

\* Time passes, in the end until every task is due.
Awaited == \E m \in Answers : task[m].pc = "queued" /\ task[m].due > now

Tick ==
    /\ now < MaxNow \/ Awaited
    /\ now' = now + 1
    /\ UNCHANGED <<request, anal, task>>

AnalNext ==
    \/ \E m \in Answers :
          \/ ReadSchedule(m) \/ Enqueue(m) \/ SaveSchedule(m) \/ Skip(m) \/ Begin(m)
    \/ Tick

AnalSpec == AnalInit /\ [][AnalNext]_analysis

\* Tasks begin when they are due.
AnalFairness ==
    /\ \A m \in Answers : WF_analysis(Skip(m) \/ Begin(m))
    /\ WF_analysis(Awaited /\ Tick)

AnalFairSpec == AnalSpec /\ AnalFairness

-----------------------------------------------------------------------------
AnalTypes ==
    /\ request \in [Answers -> [pc : {"none", "read", "queued", "done"},
                                copy : Answers \cup {NoAnswer}, wait : 0 .. Cooldown]]
    /\ task \in [Answers -> [pc : {"none", "queued", "begun", "skipped"}, due : Nat,
                             delayed : BOOLEAN, n : Nat, early : BOOLEAN]]
    /\ anal \in [ran : BOOLEAN, last : 0 .. now, scheduled : Answers \cup {NoAnswer}]
    /\ now \in Nat

\* "Skipping analysis because another task is already scheduled": a task is skipped only
\* for a request that saved its schedule later, whose task has not been skipped itself;
\* unless one of the two tasks was looked at before its own request had saved.
SkippedForLater ==
    \A m \in Answers : task[m].pc = "skipped" /\ ~task[m].early =>
        \E k \in Answers : task[k].n > task[m].n /\ (task[k].pc = "skipped" => task[k].early)

\* Of a request and those that save their schedule after it, one gets its analysis, or
\* was looked at too early.  The message that is saved last may be skipped: its request
\* can be overtaken by another's between the commit and the schedule.
LastIsAnalysed ==
    \A m \in Answers :
        (request[m].pc = "done") ~>
            \E k \in Answers : task[k].n >= task[m].n /\ (task[k].pc = "begun" \/ task[k].early)
=============================================================================
