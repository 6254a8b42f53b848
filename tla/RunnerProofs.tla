---------------------------- MODULE RunnerProofs ----------------------------
(* Proofs about RunnerTask: its types, its inductive invariant RunnerInv, and  *)
(* what it says of charges, for any number of requests, presses of Stop, tasks *)
(* and failures.                                                               *)
EXTENDS RunnerTask, TLAPS

PCs == {"none", "queued", "ack", "end"} \cup Inside

\* What the worker, the broker or a failure does next about the task t.
Work(t) == Receive(t) \/ Execute(t) \/ Interrupt(t) \/ WorkerDies(t) \/ ChildDies(t)

\* Which steps lead where, as far as charges go: an execution comes to "main" with the
\* flag not seen in the copy that "refresh" read, and to "charge" from there.
Moves(t) ==
    /\ task' \in [Tasks -> Task]
    /\ \A u \in Tasks \ {t} : task'[u] = task[u]
    /\ task[t].pc # "none" /\ task'[t].pc # "none"
    /\ task'[t].deliveries = IF task'[t].pc = "load" THEN task[t].deliveries + 1
                                                     ELSE task[t].deliveries
    /\ task'[t].pc = "refresh" => task[t].pc \in {"load", "main"}
    /\ task'[t].pc = "save" => task[t].pc = "refresh" /\ task'[t].seen = row.cancelled
    /\ task'[t].pc = "main" => task[t].pc = "save" /\ ~task[t].seen
    /\ task'[t].pc = "charge" => task[t].pc = "main"
    /\ task'[t].pc = "record" => Charge(t)

-----------------------------------------------------------------------------
(* One record of task changes *)

LEMMA GotoTask ==
    ASSUME TypeOK, NEW t \in Tasks, NEW x \in PCs, Goto(t, x)
    PROVE  /\ task' \in [Tasks -> Task]
           /\ task'[t].pc = x /\ task'[t].seen = task[t].seen
           /\ task'[t].deliveries = task[t].deliveries
           /\ task'[t].result = task[t].result /\ task'[t].sig = task[t].sig
           /\ \A u \in Tasks \ {t} : task'[u] = task[u]
  BY DEF TypeOK, Goto, Task, PCs

LEMMA SetTask ==
    ASSUME TypeOK, NEW t \in Tasks, NEW r \in Task, task' = [task EXCEPT ![t] = r]
    PROVE  /\ task' \in [Tasks -> Task]
           /\ task'[t] = r
           /\ \A u \in Tasks \ {t} : task'[u] = task[u]
  BY DEF TypeOK

LEMMA FreshType == Fresh \in Task
  BY DEF Fresh, Task

LEMMA GotoMoves ==
    ASSUME TypeOK, NEW t \in Tasks, NEW x \in PCs, Goto(t, x),
           x \notin {"none", "load", "save"}, task[t].pc # "none",
           x = "refresh" => task[t].pc \in {"load", "main"},
           x = "main" => task[t].pc = "save" /\ ~task[t].seen,
           x = "charge" => task[t].pc = "main",
           x = "record" => Charge(t)
    PROVE  Moves(t)
  BY GotoTask DEF Moves

LEMMA WorkMoves ==
    ASSUME TypeOK, NEW t \in Tasks, Work(t)
    PROVE  Moves(t)
<1>1. CASE Receive(t)
  <2>1. CASE task[t].revoked
    BY <1>1, <2>1, GotoMoves DEF Receive, PCs
  <2>2. CASE ~task[t].revoked
    <3> DEFINE r == [Fresh EXCEPT !.pc = "load", !.deliveries = task[t].deliveries + 1]
    <3>n. task[t].deliveries + 1 \in Nat
      BY DEF TypeOK, Task
    <3>1. r \in Task /\ r.pc = "load" /\ r.deliveries = task[t].deliveries + 1
      BY <3>n DEF Fresh, Task, Inside
    <3>2. task' = [task EXCEPT ![t] = r] /\ task[t].pc = "queued"
      BY <1>1, <2>2 DEF Receive
    <3> HIDE DEF r
    <3> QED  BY <3>1, <3>2, SetTask DEF Moves
  <2> QED  BY <2>1, <2>2 DEF TypeOK, Task
<1>2. CASE Load(t)
  <2> DEFINE r == [task[t] EXCEPT !.pc = "refresh", !.seen = row.cancelled]
  <2>1. r \in Task /\ r.pc = "refresh" /\ r.deliveries = task[t].deliveries
    BY DEF TypeOK, Task, Row, Inside
  <2>2. task' = [task EXCEPT ![t] = r] /\ task[t].pc = "load"
    BY <1>2 DEF Load
  <2> HIDE DEF r
  <2> QED  BY <2>1, <2>2, SetTask DEF Moves
<1>3. CASE Refresh(t)
  <2> DEFINE r == [task[t] EXCEPT !.pc = "save", !.seen = row.cancelled]
  <2>1. /\ r \in Task /\ r.pc = "save" /\ r.seen = row.cancelled
        /\ r.deliveries = task[t].deliveries
    BY DEF TypeOK, Task, Row, Inside
  <2>2. task' = [task EXCEPT ![t] = r] /\ task[t].pc = "refresh"
    BY <1>3 DEF Refresh
  <2> HIDE DEF r
  <2> QED  BY <2>1, <2>2, SetTask DEF Moves
<1>4. CASE SaveStep(t)
  <2>1. CASE task[t].seen
    BY <1>4, <2>1, GotoMoves DEF SaveStep, PCs, Inside
  <2>2. CASE ~task[t].seen
    BY <1>4, <2>2, GotoMoves DEF SaveStep, PCs, Inside
  <2> QED  BY <2>1, <2>2
<1>5. CASE MainYields(t)
  BY <1>5, GotoMoves DEF MainYields, PCs, Inside
<1>6. CASE MainEnds(t)
  <2>1. CASE Goto(t, "charge")
    BY <1>6, <2>1, GotoMoves DEF MainEnds, PCs, Inside
  <2>2. CASE task' = [task EXCEPT ![t] = [@ EXCEPT !.pc = "error", !.result = "error"]]
    <3> DEFINE r == [task[t] EXCEPT !.pc = "error", !.result = "error"]
    <3>1. r \in Task /\ r.pc = "error" /\ r.deliveries = task[t].deliveries
      BY DEF TypeOK, Task, Inside
    <3>2. task' = [task EXCEPT ![t] = r] /\ task[t].pc = "main"
      BY <1>6, <2>2 DEF MainEnds
    <3> HIDE DEF r
    <3> QED  BY <3>1, <3>2, SetTask DEF Moves
  <2> QED  BY <1>6, <2>1, <2>2 DEF MainEnds
<1>7. CASE CheckStop(t)
  <2> DEFINE r(x, y) == [task[t] EXCEPT !.pc = x, !.result = y]
  <2>1. /\ r("final", "stopped") \in Task /\ r("final", "stopped").pc = "final"
        /\ r("final", "stopped").deliveries = task[t].deliveries
    BY DEF TypeOK, Task, Inside
  <2>2. /\ r("error", "error") \in Task /\ r("error", "error").pc = "error"
        /\ r("error", "error").deliveries = task[t].deliveries
    BY DEF TypeOK, Task, Inside
  <2>3. /\ task[t].pc = "except"
        /\ \/ task' = [task EXCEPT ![t] = r("final", "stopped")]
           \/ task' = [task EXCEPT ![t] = r("error", "error")]
    BY <1>7 DEF CheckStop
  <2> HIDE DEF r
  <2> QED  BY <2>1, <2>2, <2>3, SetTask DEF Moves
<1>8. CASE SaveError(t)
  BY <1>8, GotoMoves DEF SaveError, PCs, Inside
<1>9. CASE Charge(t)
  BY <1>9, GotoMoves DEF Charge, PCs, Inside
<1>10. CASE Record(t)
  BY <1>10, GotoMoves DEF Record, PCs, Inside
<1>11. CASE Final(t)
  <2>1. CASE task[t].result \in {"ok", "error"}
    BY <1>11, <2>1, GotoMoves DEF Final, PCs, Inside
  <2>2. CASE task[t].result \notin {"ok", "error"}
    BY <1>11, <2>2, GotoMoves DEF Final, PCs, Inside
  <2> QED  BY <2>1, <2>2
<1>12. CASE Post(t)
  BY <1>12, GotoMoves DEF Post, PCs, Inside
<1>13. CASE Ack(t)
  BY <1>13, GotoMoves DEF Ack, PCs, Inside
<1>14. CASE Interrupt(t)
  <2>1. PICK x \in InterruptedResult(t) :
               task' = [task EXCEPT ![t] = [@ EXCEPT !.sig = FALSE, !.result = x,
                                                     !.pc = AfterInterrupt(task[t].pc)]]
    BY <1>14 DEF Interrupt
  <2> DEFINE r == [task[t] EXCEPT !.sig = FALSE, !.result = x,
                                  !.pc = AfterInterrupt(task[t].pc)]
  <2>2. AfterInterrupt(task[t].pc) \in {"except", "final", "ack"}
    BY DEF AfterInterrupt
  <2>3. x \in {"ok", "error", "stopped", "raise", "failed"}
    BY DEF InterruptedResult, TypeOK, Task
  <2>4. /\ r \in Task /\ r.pc \in {"except", "final", "ack"}
        /\ r.deliveries = task[t].deliveries
    BY <2>2, <2>3 DEF TypeOK, Task, Inside
  <2>5. task' = [task EXCEPT ![t] = r] /\ task[t].pc # "none"
    BY <1>14, <2>1 DEF Interrupt, Inside
  <2> HIDE DEF r
  <2> QED  BY <2>4, <2>5, SetTask DEF Moves
<1>15. CASE WorkerDies(t)
  <2> DEFINE r == [task[t] EXCEPT !.pc = "end", !.sig = FALSE]
             s == [Fresh EXCEPT !.pc = "queued", !.deliveries = task[t].deliveries]
  <2>1. r \in Task /\ r.pc = "end" /\ r.deliveries = task[t].deliveries
    BY DEF TypeOK, Task
  <2>2. s \in Task /\ s.pc = "queued" /\ s.deliveries = task[t].deliveries
    BY FreshType DEF Fresh, Task, TypeOK
  <2>3. /\ task[t].pc # "none"
        /\ task' = [task EXCEPT ![t] = r] \/ task' = [task EXCEPT ![t] = s]
    BY <1>15 DEF WorkerDies, Inside, TypeOK
  <2> HIDE DEF r, s
  <2> QED  BY <2>1, <2>2, <2>3, SetTask DEF Moves
<1>16. CASE ChildDies(t)
  <2> DEFINE r == [task[t] EXCEPT !.pc = "end", !.sig = FALSE]
  <2>1. r \in Task /\ r.pc = "end" /\ r.deliveries = task[t].deliveries
    BY DEF TypeOK, Task
  <2>2. task' = [task EXCEPT ![t] = r] /\ task[t].pc # "none"
    BY <1>16 DEF ChildDies, Inside
  <2> HIDE DEF r
  <2> QED  BY <2>1, <2>2, SetTask DEF Moves
<1> QED
  BY <1>1, <1>2, <1>3, <1>4, <1>5, <1>6, <1>7, <1>8, <1>9, <1>10, <1>11, <1>12, <1>13,
     <1>14, <1>15, <1>16 DEF Work, Execute

\* What the steps say of the result, the flag in memory, the signal and the email: an
\* error is found in "main", or in "except" if no stop is on record; a task comes to
\* "post" from "final" only, and stays where the email left it.
Results(t) ==
    /\ task'[t].sig => task[t].sig
    /\ task'[t].seen => task[t].seen \/ row.cancelled
    /\ task'[t].pc = "except" => task[t].sig \/ (task[t].pc = "save" /\ task[t].seen)
    /\ task'[t].result = "error" => \/ task[t].result = "error" \/ task[t].pc = "main"
                                    \/ (task[t].pc = "except" /\ ~row.cancelled)
    /\ task'[t].pc = "error" => task'[t].result = "error"
    /\ task'[t].pc = "final" /\ task'[t].result = "ok" =>
          Record(t) \/ (task[t].pc = "error" /\ task[t].result = "ok")
    /\ task'[t].pc = "post" => /\ Final(t) /\ task'[t].result = task[t].result
                               /\ task[t].result \in {"ok", "error"}
    /\ task[t].pc \in {"ack", "end"} =>
          \/ WorkerDies(t)
          \/ task'[t].pc = "end" /\ task'[t].result = task[t].result

\* The task has gone where nothing is to be said but that its result stays.
LEMMA GotoResults ==
    ASSUME TypeOK, NEW t \in Tasks, NEW x \in PCs, Goto(t, x),
           x \notin {"except", "error", "final", "post"}, task[t].pc # "end",
           task[t].pc = "ack" => x = "end"
    PROVE  Results(t)
  BY GotoTask DEF Results

LEMMA WorkResults ==
    ASSUME TypeOK, NEW t \in Tasks, Work(t)
    PROVE  Results(t)
<1>0. task[t] \in Task
  BY DEF TypeOK
<1>1. CASE Receive(t)
  <2>1. CASE task[t].revoked
    BY <1>1, <2>1, GotoResults DEF Receive, PCs
  <2>2. CASE ~task[t].revoked
    <3> DEFINE r == [Fresh EXCEPT !.pc = "load", !.deliveries = task[t].deliveries + 1]
    <3>1. r.pc = "load" /\ r.sig = FALSE /\ r.seen = FALSE /\ r.result = "ok"
      BY DEF Fresh
    <3>2. task'[t] = r /\ task[t].pc = "queued"
      BY <1>1, <2>2 DEF Receive, TypeOK
    <3> HIDE DEF r
    <3> QED  BY <3>1, <3>2 DEF Results
  <2> QED  BY <2>1, <2>2 DEF TypeOK, Task
<1>2. CASE Load(t)
  <2>1. /\ task'[t].pc = "refresh" /\ task'[t].seen = row.cancelled
        /\ task'[t].sig = task[t].sig /\ task'[t].result = task[t].result
        /\ task[t].pc = "load"
    BY <1>0, <1>2 DEF Load, TypeOK, Task
  <2> QED  BY <2>1 DEF Results
<1>3. CASE Refresh(t)
  <2>1. /\ task'[t].pc = "save" /\ task'[t].seen = row.cancelled
        /\ task'[t].sig = task[t].sig /\ task'[t].result = task[t].result
        /\ task[t].pc = "refresh"
    BY <1>0, <1>3 DEF Refresh, TypeOK, Task
  <2> QED  BY <2>1 DEF Results
<1>4. CASE SaveStep(t)
  <2>1. CASE task[t].seen
    <3>1. Goto(t, "except") /\ task[t].pc = "save"
      BY <1>4, <2>1 DEF SaveStep
    <3> QED  BY <2>1, <3>1, GotoTask DEF Results, PCs, Inside
  <2>2. CASE ~task[t].seen
    BY <1>4, <2>2, GotoResults DEF SaveStep, PCs, Inside
  <2> QED  BY <2>1, <2>2
<1>5. CASE MainYields(t)
  BY <1>5, GotoResults DEF MainYields, PCs, Inside
<1>6. CASE MainEnds(t)
  <2>1. CASE Goto(t, "charge")
    BY <1>6, <2>1, GotoResults DEF MainEnds, PCs, Inside
  <2>2. CASE task' = [task EXCEPT ![t] = [@ EXCEPT !.pc = "error", !.result = "error"]]
    <3>1. /\ task'[t].pc = "error" /\ task'[t].result = "error" /\ task[t].pc = "main"
          /\ task'[t].sig = task[t].sig /\ task'[t].seen = task[t].seen
      BY <1>0, <1>6, <2>2 DEF MainEnds, TypeOK, Task
    <3> QED  BY <3>1 DEF Results
  <2> QED  BY <1>6, <2>1, <2>2 DEF MainEnds
<1>7. CASE CheckStop(t)
  <2>0. task[t].pc = "except"
    BY <1>7 DEF CheckStop
  <2>1. CASE row.cancelled
    <3>0. task' = [task EXCEPT ![t] = [@ EXCEPT !.pc = "final", !.result = "stopped"]]
      BY <1>7, <2>1 DEF CheckStop
    <3>1. /\ task'[t].pc = "final" /\ task'[t].result = "stopped"
          /\ task'[t].sig = task[t].sig /\ task'[t].seen = task[t].seen
      BY <1>0, <3>0 DEF TypeOK, Task
    <3> QED  BY <2>0, <3>1 DEF Results
  <2>2. CASE ~row.cancelled
    <3>0. task' = [task EXCEPT ![t] = [@ EXCEPT !.pc = "error", !.result = "error"]]
      BY <1>7, <2>2 DEF CheckStop
    <3>1. /\ task'[t].pc = "error" /\ task'[t].result = "error"
          /\ task'[t].sig = task[t].sig /\ task'[t].seen = task[t].seen
      BY <1>0, <3>0 DEF TypeOK, Task
    <3> QED  BY <2>0, <2>2, <3>1 DEF Results
  <2> QED  BY <2>1, <2>2
<1>8. CASE SaveError(t)
  <2>1. Goto(t, "final") /\ task[t].pc = "error"
    BY <1>8 DEF SaveError
  <2> QED  BY <2>1, GotoTask DEF Results, PCs, Inside
<1>9. CASE Charge(t)
  BY <1>9, GotoResults DEF Charge, PCs, Inside
<1>10. CASE Record(t)
  <2>1. Goto(t, "final") /\ task[t].pc = "record"
    BY <1>10 DEF Record
  <2> QED  BY <1>10, <2>1, GotoTask DEF Results, PCs, Inside
<1>11. CASE Final(t)
  <2>1. CASE task[t].result \in {"ok", "error"}
    <3>1. Goto(t, "post") /\ task[t].pc = "final"
      BY <1>11, <2>1 DEF Final
    <3> QED  BY <1>11, <2>1, <3>1, GotoTask DEF Results, PCs, Inside
  <2>2. CASE task[t].result \notin {"ok", "error"}
    BY <1>11, <2>2, GotoResults DEF Final, PCs
  <2> QED  BY <2>1, <2>2
<1>12. CASE Post(t)
  BY <1>12, GotoResults DEF Post, PCs
<1>13. CASE Ack(t)
  BY <1>13, GotoResults DEF Ack, PCs
<1>14. CASE Interrupt(t)
  <2>1. PICK x \in InterruptedResult(t) :
               task' = [task EXCEPT ![t] = [@ EXCEPT !.sig = FALSE, !.result = x,
                                                     !.pc = AfterInterrupt(task[t].pc)]]
    BY <1>14 DEF Interrupt
  <2>2. /\ task'[t].sig = FALSE /\ task'[t].seen = task[t].seen /\ task'[t].result = x
        /\ task'[t].pc = AfterInterrupt(task[t].pc)
    BY <1>0, <2>1 DEF TypeOK, Task
  <2>3. AfterInterrupt(task[t].pc) \in {"except", "final", "ack"}
    BY DEF AfterInterrupt
  <2>4. x # task[t].result => x \in {"raise", "failed"}
    BY DEF InterruptedResult
  <2>5. AfterInterrupt(task[t].pc) = "final" => x \in {"raise", "failed"}
    <3>1. SUFFICES ASSUME task[t].pc \in {"except", "error", "charge", "record"}
                   PROVE  x \in {"raise", "failed"}
      BY DEF AfterInterrupt
    <3> QED  BY <3>1 DEF InterruptedResult
  <2>6. task[t].sig /\ task[t].pc \notin {"ack", "end"}
    BY <1>14 DEF Interrupt, Inside
  <2> QED  BY <2>2, <2>3, <2>4, <2>5, <2>6 DEF Results
<1>15. CASE WorkerDies(t)
  <2>1. /\ task'[t].pc \in {"queued", "end"} /\ task'[t].sig = FALSE
        /\ task'[t].seen => task[t].seen
        /\ task'[t].result = "error" => task[t].result = "error"
    BY <1>0, <1>15 DEF WorkerDies, TypeOK, Task, Fresh
  <2> QED  BY <1>15, <2>1 DEF Results
<1>16. CASE ChildDies(t)
  <2>1. /\ task'[t].pc = "end" /\ task'[t].sig = FALSE
        /\ task'[t].seen = task[t].seen /\ task'[t].result = task[t].result
    BY <1>0, <1>16 DEF ChildDies, TypeOK, Task
  <2> QED  BY <2>1 DEF Results
<1> QED
  BY <1>1, <1>2, <1>3, <1>4, <1>5, <1>6, <1>7, <1>8, <1>9, <1>10, <1>11, <1>12, <1>13,
     <1>14, <1>15, <1>16 DEF Work, Execute

-----------------------------------------------------------------------------
(* The row, and the types *)

\* A step of Work neither makes, cancels nor unstarts the row, records as its
\* transaction only the one that it made, and shows it as running only after a check of
\* the flag.
Rows(t) ==
    /\ row' \in Row
    /\ row'.exists = row.exists /\ row'.cancelled = row.cancelled
    /\ (row.status # "" \/ row.ran) => (row'.status # "" \/ row'.ran)
    /\ row'.txn = row.txn \/ (task[t].pc = "record" /\ row'.txn = t)
    /\ row.ran => row'.ran
    /\ row'.status \in {row.status, ""} \/ (task[t].pc = "save" /\ ~task[t].seen)
    /\ row' # row => task[t].pc \in {"save", "record", "final"}

LEMMA WorkRows ==
    ASSUME TypeOK, NEW t \in Tasks, Work(t)
    PROVE  Rows(t)
<1>1. CASE SaveStep(t)
  BY <1>1 DEF SaveStep, Rows, TypeOK, Row, STATUS
<1>2. CASE Record(t)
  BY <1>2 DEF Record, Rows, TypeOK, Row
<1>3. CASE Final(t)
  <2>1. (task[t].result \in {"error", "failed"}) \in BOOLEAN
    OBVIOUS
  <2>2. /\ row'.ran /\ row'.exists = row.exists /\ row'.cancelled = row.cancelled
        /\ row'.txn = row.txn /\ row' \in Row /\ row'.status = "" /\ task[t].pc = "final"
    BY <1>3, <2>1 DEF Final, TypeOK, Row, STATUS
  <2> QED  BY <2>2 DEF Rows
<1>4. CASE UNCHANGED row
  BY <1>4 DEF Rows, TypeOK
<1> QED
  BY <1>1, <1>2, <1>3, <1>4 DEF Work, Execute, Receive, Load, Refresh, MainYields, MainEnds,
     CheckStop, SaveError, Charge, Post, Ack, Interrupt, WorkerDies, ChildDies

\* Only Charge, on its way to "record", adds to the charges of its task.
LEMMA WorkCharges ==
    ASSUME TypeOK, NEW t \in Tasks, Work(t)
    PROVE  /\ charges' \in [Tasks -> Nat]
           /\ \A u \in Tasks \ {t} : charges'[u] = charges[u]
           /\ charges'[t] = IF task'[t].pc = "record" THEN charges[t] + 1 ELSE charges[t]
<1>1. CASE Charge(t)
  <2>1. task'[t].pc = "record"
    BY <1>1, GotoTask DEF Charge, PCs, Inside
  <2> QED  BY <1>1, <2>1 DEF Charge, TypeOK
<1>2. CASE ~Charge(t)
  <2>1. UNCHANGED charges
    BY <1>2 DEF Work, Execute, Receive, Load, Refresh, SaveStep, MainYields, MainEnds,
       CheckStop, SaveError, Record, Final, Post, Ack, Interrupt, WorkerDies, ChildDies
  <2>2. task'[t].pc # "record"
    BY <1>2, WorkMoves DEF Moves
  <2> QED  BY <2>1, <2>2 DEF TypeOK
<1> QED  BY <1>1, <1>2

\* Only Post, on its way to "ack", sends an email.
LEMMA WorkPosts ==
    ASSUME TypeOK, NEW t \in Tasks, Work(t)
    PROVE  /\ posted' \in [Tasks -> Nat]
           /\ \A u \in Tasks \ {t} : posted'[u] = posted[u]
           /\ \/ posted'[t] = posted[t]
              \/ /\ task[t].pc = "post" /\ task'[t].pc = "ack"
                 /\ task'[t].result = task[t].result
<1>1. CASE Post(t)
  <2>1. /\ task[t].pc = "post" /\ task'[t].pc = "ack" /\ task'[t].result = task[t].result
    BY <1>1, GotoTask DEF Post, PCs
  <2> QED  BY <1>1, <2>1 DEF Post, TypeOK
<1>2. CASE UNCHANGED posted
  BY <1>2 DEF TypeOK
<1> QED
  BY <1>1, <1>2 DEF Work, Execute, Receive, Load, Refresh, SaveStep, MainYields, MainEnds,
     CheckStop, SaveError, Charge, Record, Final, Ack, Interrupt, WorkerDies, ChildDies

\* A worker that dies is counted.
LEMMA WorkFaults ==
    ASSUME TypeOK, NEW t \in Tasks, Work(t)
    PROVE  /\ faults'["worker"] = 0 => faults["worker"] = 0
           /\ WorkerDies(t) => faults'["worker"] # 0
<1>0. faults["worker"] \in Nat /\ "worker" \in FaultKinds /\ "child" \in FaultKinds
  BY RunnerAssumption DEF TypeOK, FaultKinds, RunnerAssumption
<1>1. CASE WorkerDies(t)
  <2>1. faults' = [faults EXCEPT !["worker"] = @ + 1]
    BY <1>1 DEF WorkerDies, Fault
  <2>2. faults'["worker"] = faults["worker"] + 1
    BY <1>0, <2>1 DEF TypeOK
  <2> QED  BY <1>0, <2>2
<1>2. CASE ~WorkerDies(t)
  <2>1. faults'["worker"] = faults["worker"]
    <3>1. CASE ChildDies(t)
      BY <1>0, <3>1 DEF ChildDies, Fault, TypeOK
    <3>2. CASE UNCHANGED faults
      BY <3>2
    <3> QED
      BY <1>2, <3>1, <3>2 DEF Work, Execute, Receive, Load, Refresh, SaveStep, MainYields,
         MainEnds, CheckStop, SaveError, Charge, Record, Final, Post, Ack, Interrupt
  <2> QED  BY <1>2, <2>1
<1> QED  BY <1>1, <1>2

LEMMA FaultType ==
    ASSUME TypeOK, NEW kind \in FaultKinds, Fault(kind)
    PROVE  faults' \in [FaultKinds -> 0 .. MaxFaults]
<1>1. \A k \in FaultKinds : faults[k] \in 0 .. MaxFaults
  BY DEF TypeOK
<1>2. faults["web"] \in 0 .. MaxFaults /\ faults["worker"] \in 0 .. MaxFaults
      /\ faults["child"] \in 0 .. MaxFaults
  BY <1>1 DEF FaultKinds
<1>3. faults[kind] < MaxFaults
  BY <1>2, RunnerAssumption DEF Fault, FaultKinds, RunnerAssumption
<1>4. faults[kind] + 1 \in 0 .. MaxFaults
  BY <1>1, <1>3, RunnerAssumption DEF RunnerAssumption
<1> QED  BY <1>4 DEF TypeOK, Fault

LEMMA WorkType ==
    ASSUME TypeOK, NEW t \in Tasks, Work(t)
    PROVE  TypeOK'
<1>1. row' \in Row /\ task' \in [Tasks -> Task] /\ charges' \in [Tasks -> Nat]
  BY WorkMoves, WorkRows, WorkCharges DEF Moves, Rows
<1>2. UNCHANGED <<web, stop>>
  BY DEF Work, Execute, Receive, Load, Refresh, SaveStep, MainYields, MainEnds, CheckStop,
     SaveError, Charge, Record, Final, Post, Ack, Interrupt, WorkerDies, ChildDies
<1>3. posted' \in [Tasks -> Nat]
  BY WorkPosts
<1>4. faults' \in [FaultKinds -> 0 .. MaxFaults]
  <2>1. CASE Fault("worker") \/ Fault("child")
    BY <2>1, FaultType DEF FaultKinds
  <2>2. CASE UNCHANGED faults
    BY <2>2 DEF TypeOK
  <2> QED
    BY <2>1, <2>2 DEF Work, Execute, Receive, Load, Refresh, SaveStep, MainYields, MainEnds,
       CheckStop, SaveError, Charge, Record, Final, Post, Ack, Interrupt, WorkerDies,
       ChildDies
<1> QED  BY <1>1, <1>2, <1>3, <1>4 DEF TypeOK

\* A revoke changes neither how far a task is nor what it knows.
LEMMA RevokeTask ==
    ASSUME TypeOK, NEW s \in Stops, StopRevoke(s), stop[s].taskId \in Tasks
    PROVE  /\ task' \in [Tasks -> Task]
           /\ \A u \in Tasks : /\ task'[u].pc = task[u].pc /\ task'[u].seen = task[u].seen
                               /\ task'[u].deliveries = task[u].deliveries
                               /\ task'[u].result = task[u].result
<1> DEFINE t == stop[s].taskId
           q == [task[t] EXCEPT !.revoked = TRUE]
           r == [task[t] EXCEPT !.revoked = TRUE, !.sig = TRUE, !.acked = TRUE]
<1>0. task[t] \in Task
  BY DEF TypeOK
<1>1. /\ q \in Task /\ q.pc = task[t].pc /\ q.seen = task[t].seen
      /\ q.deliveries = task[t].deliveries /\ q.result = task[t].result
  BY <1>0 DEF Task
<1>3. /\ r \in Task /\ r.pc = task[t].pc /\ r.seen = task[t].seen
      /\ r.deliveries = task[t].deliveries /\ r.result = task[t].result
  BY <1>0 DEF Task
<1>2. PICK x \in {q, r, task[t]} : task' = [task EXCEPT ![t] = x]
  BY DEF StopRevoke
<1> HIDE DEF q, r
<1>4. /\ x \in Task /\ x.pc = task[t].pc /\ x.seen = task[t].seen
      /\ x.deliveries = task[t].deliveries /\ x.result = task[t].result
  BY <1>0, <1>1, <1>3
<1> QED  BY <1>2, <1>4, SetTask

\* Every action keeps the types.
LEMMA TypeStep == TypeOK /\ StopInv /\ [Next]_vars => TypeOK'
<1> SUFFICES ASSUME TypeOK, StopInv, [Next]_vars PROVE TypeOK'
  OBVIOUS
<1>1. ASSUME NEW w \in Webs, Submit(w) \/ Publish(w) PROVE TypeOK'
  <2>1. [web[w] EXCEPT !.pc = "dispatch"] \in Web
    BY DEF TypeOK, Web
  <2>2. row' \in Row
    BY <1>1 DEF TypeOK, Row, STATUS, Submit, Publish
  <2>3. web' \in [Webs -> Web]
    BY <1>1, <2>1 DEF TypeOK, Submit, Publish
  <2> QED  BY <1>1, <2>2, <2>3 DEF TypeOK, Submit, Publish
<1>2. ASSUME NEW w \in Webs, SaveDraft(w) PROVE TypeOK'
  <2>1. row' \in Row
    BY <1>2 DEF TypeOK, Row, SaveDraft
  <2> QED  BY <1>2, <2>1 DEF TypeOK, SaveDraft
<1>3. ASSUME NEW w \in Webs, NEW t \in Tasks, Dispatch(w, t) PROVE TypeOK'
  <2>1. [task[t] EXCEPT !.pc = "queued"] \in Task /\ [pc |-> "saveid", id |-> t] \in Web
    BY DEF TypeOK, Task, Web
  <2>2. task' \in [Tasks -> Task] /\ web' \in [Webs -> Web]
    BY <1>3, <2>1 DEF TypeOK, Dispatch
  <2> QED  BY <1>3, <2>2 DEF TypeOK, Dispatch
<1>4. ASSUME NEW w \in Webs, SaveTaskId(w) PROVE TypeOK'
  <2>1. [pc |-> "idle", id |-> NoTask] \in Web /\ web[w].id \in Tasks \cup {NoTask}
    BY DEF TypeOK, Web
  <2>2. row' \in Row /\ web' \in [Webs -> Web]
    BY <1>4, <2>1 DEF TypeOK, SaveTaskId, Row
  <2> QED  BY <1>4, <2>2 DEF TypeOK, SaveTaskId
<1>5. ASSUME NEW w \in Webs, WebDies(w) PROVE TypeOK'
  <2>1. [pc |-> "idle", id |-> NoTask] \in Web
    BY DEF Web
  <2>2. web' \in [Webs -> Web] /\ faults' \in [FaultKinds -> 0 .. MaxFaults]
    BY <1>5, <2>1, FaultType DEF TypeOK, WebDies, FaultKinds
  <2> QED  BY <1>5, <2>2 DEF TypeOK, WebDies
<1>6. ASSUME NEW s \in Stops, StopPressed(s) PROVE TypeOK'
  <2>1. [pc |-> "check", status |-> row.status, taskId |-> row.taskId] \in Stop
    BY DEF TypeOK, Stop, Row
  <2>2. stop' \in [Stops -> Stop]
    BY <1>6, <2>1 DEF TypeOK, StopPressed
  <2> QED  BY <1>6, <2>2 DEF TypeOK, StopPressed
<1>7. ASSUME NEW s \in Stops, StopCheck(s) PROVE TypeOK'
  <2>1. stop' \in [Stops -> Stop]
    BY <1>7 DEF TypeOK, StopCheck, Stop
  <2> QED  BY <1>7, <2>1 DEF TypeOK, StopCheck
<1>8. ASSUME NEW s \in Stops, StopFlag(s) PROVE TypeOK'
  <2>1. AfterFlag(s) \in {"clear", "revoke", "done"}
    BY DEF AfterFlag
  <2>2. stop' \in [Stops -> Stop] /\ row' \in Row
    BY <1>8, <2>1 DEF TypeOK, StopFlag, Stop, Row
  <2> QED  BY <1>8, <2>2 DEF TypeOK, StopFlag
<1>9. ASSUME NEW s \in Stops, StopClear(s) PROVE TypeOK'
  <2>1. stop' \in [Stops -> Stop] /\ row' \in Row
    BY <1>9 DEF TypeOK, StopClear, Stop, Row, STATUS
  <2> QED  BY <1>9, <2>1 DEF TypeOK, StopClear
<1>10. ASSUME NEW s \in Stops, StopRevoke(s) PROVE TypeOK'
  <2>1. stop' \in [Stops -> Stop]
    BY <1>10 DEF TypeOK, StopRevoke, Stop
  <2>2. task' \in [Tasks -> Task]
    BY <1>10, RevokeTask DEF StopInv, StopRevoke
  <2> QED  BY <1>10, <2>1, <2>2 DEF TypeOK, StopRevoke
<1>11. ASSUME NEW t \in Tasks, Work(t) PROVE TypeOK'
  BY <1>11, WorkType
<1>12. CASE UNCHANGED vars
  BY <1>12 DEF TypeOK, vars
<1> QED
  BY <1>1, <1>2, <1>3, <1>4, <1>5, <1>6, <1>7, <1>8, <1>9, <1>10, <1>11, <1>12
     DEF Next, Start, Press, Work

-----------------------------------------------------------------------------
(* The rest of the invariant *)

\* A stop clears and revokes after its flag, which nobody takes back.
LEMMA StopStep == TypeOK /\ StopInv /\ [Next]_vars => StopInv'
<1> SUFFICES ASSUME TypeOK, StopInv, [Next]_vars PROVE StopInv'
  OBVIOUS
<1>1. ASSUME NEW s \in Stops, StopPressed(s) \/ StopCheck(s) \/ StopRevoke(s) PROVE StopInv'
  <2>1. /\ stop'[s].pc \in {"check", "flag", "done"}
        /\ \A x \in Stops \ {s} : stop'[x] = stop[x]
    <3>1. CASE StopPressed(s)
      BY <3>1 DEF TypeOK, StopPressed
    <3>2. CASE StopCheck(s)
      BY <3>2 DEF TypeOK, Stop, StopCheck
    <3>3. CASE StopRevoke(s)
      BY <3>3 DEF TypeOK, Stop, StopRevoke
    <3> QED  BY <1>1, <3>1, <3>2, <3>3
  <2>2. UNCHANGED row
    BY <1>1 DEF StopPressed, StopCheck, StopRevoke
  <2> QED  BY <2>1, <2>2 DEF StopInv
<1>2. ASSUME NEW s \in Stops, StopFlag(s) PROVE StopInv'
  <2>1. row'.cancelled
    BY <1>2 DEF TypeOK, Row, StopFlag
  <2>2. stop'[s].pc = AfterFlag(s) /\ stop'[s].taskId = stop[s].taskId
        /\ \A x \in Stops \ {s} : stop'[x] = stop[x]
    BY <1>2 DEF TypeOK, Stop, StopFlag
  <2>3. stop'[s].pc = "revoke" => stop'[s].taskId \in Tasks
    BY <2>2 DEF AfterFlag, TypeOK, Stop
  <2> QED  BY <2>1, <2>2, <2>3 DEF StopInv
<1>3. ASSUME NEW s \in Stops, StopClear(s) PROVE StopInv'
  <2>1. row.cancelled
    BY <1>3 DEF StopInv, StopClear
  <2>2. row'.cancelled
    BY <1>3, <2>1 DEF TypeOK, Row, StopClear
  <2>3. /\ stop'[s].pc = (IF stop[s].taskId # NoTask THEN "revoke" ELSE "done")
        /\ stop'[s].taskId = stop[s].taskId
        /\ \A x \in Stops \ {s} : stop'[x] = stop[x]
    BY <1>3 DEF TypeOK, Stop, StopClear
  <2>4. stop'[s].pc = "revoke" => stop'[s].taskId \in Tasks
    BY <2>3 DEF TypeOK, Stop
  <2> QED  BY <2>2, <2>3, <2>4 DEF StopInv
<1>4. CASE UNCHANGED stop /\ (row.cancelled => row'.cancelled)
  BY <1>4 DEF StopInv
<1>5. ASSUME NEW w \in Webs,
             Submit(w) \/ SaveDraft(w) \/ Publish(w) \/ Start(w) \/ WebDies(w)
      PROVE  UNCHANGED stop /\ (row.cancelled => row'.cancelled)
  BY <1>5 DEF TypeOK, Row, Submit, SaveDraft, Publish, Start, Dispatch, SaveTaskId, WebDies
<1>6. ASSUME NEW t \in Tasks, Work(t)
      PROVE  UNCHANGED stop /\ (row.cancelled => row'.cancelled)
  BY <1>6, WorkRows DEF Rows, Work, Execute, Receive, Load, Refresh, SaveStep, MainYields,
     MainEnds, CheckStop, SaveError, Charge, Record, Final, Post, Ack, Interrupt, WorkerDies,
     ChildDies
<1>7. CASE UNCHANGED vars
  BY <1>7 DEF StopInv, vars
<1> QED
  BY <1>1, <1>2, <1>3, <1>4, <1>5, <1>6, <1>7 DEF Next, Press, Work

\* A run that nobody stopped is started once.
LEMMA StartStep == TypeOK /\ StopInv /\ StartInv /\ [Next]_vars => StartInv'
<1> SUFFICES ASSUME TypeOK, StopInv, StartInv, [Next]_vars PROVE StartInv'
  OBVIOUS
<1> DEFINE Begun(r) == r.status # "" \/ r.ran
\* A step that starts nothing and leaves what is started keeps the invariant.
<1>k. ASSUME \A w \in Webs : Dispatching(w)' => Dispatching(w),
             \A t \in Tasks : Issued(t)' => Issued(t),
             row.exists => row'.exists,
             row.cancelled => row'.cancelled,
             ~row'.cancelled /\ Begun(row) => Begun(row')
      PROVE  StartInv'
  BY <1>k DEF StartInv, Started, StartedOnce
<1>1. ASSUME NEW w \in Webs, Submit(w) \/ Publish(w) PROVE StartInv'
  <2>1. row.cancelled \/ ~Started
    BY <1>1 DEF StartInv, Submit, Publish, Standby
  <2>2. row'.exists /\ row'.cancelled = row.cancelled /\ row'.status # ""
    BY <1>1 DEF TypeOK, Row, Submit, Publish, Standby
  <2>3. \A v \in Webs \ {w} : web'[v] = web[v]
    BY <1>1 DEF TypeOK, Submit, Publish
  <2>4. UNCHANGED task
    BY <1>1 DEF Submit, Publish
  <2>5. CASE row.cancelled
    BY <2>2, <2>5 DEF StartInv
  <2>6. CASE ~Started
    <3>1. (\A t \in Tasks : ~Issued(t)') /\ (\A v \in Webs : Dispatching(v)' => v = w)
      BY <2>3, <2>4, <2>6 DEF Started, Dispatching, Issued
    <3> QED  BY <2>2, <3>1 DEF StartInv, StartedOnce
  <2> QED  BY <2>1, <2>5, <2>6
<1>2. ASSUME NEW w \in Webs, SaveDraft(w) PROVE StartInv'
  <2>1. UNCHANGED <<web, task>> /\ row'.exists /\ row'.cancelled = row.cancelled
        /\ row'.status = row.status /\ row'.ran = row.ran
    BY <1>2 DEF TypeOK, Row, SaveDraft
  <2> QED  BY <2>1, <1>k DEF Dispatching, Issued
<1>3. ASSUME NEW w \in Webs, NEW t \in Tasks, Dispatch(w, t) PROVE StartInv'
  <2>1. Dispatching(w) /\ UNCHANGED row
    BY <1>3 DEF Dispatch, Dispatching
  <2>2. /\ web'[w].pc = "saveid" /\ \A v \in Webs \ {w} : web'[v] = web[v]
        /\ \A u \in Tasks \ {t} : task'[u] = task[u]
    BY <1>3 DEF TypeOK, Dispatch
  <2>3. row.exists /\ (~row.cancelled => StartedOnce /\ Begun(row))
    BY <2>1 DEF StartInv, Started
  <2>4. CASE row.cancelled
    BY <2>1, <2>3, <2>4 DEF StartInv
  <2>5. CASE ~row.cancelled
    <3>1. \A v \in Webs : ~Dispatching(v)'
      BY <2>1, <2>2, <2>3, <2>5 DEF StartedOnce, Dispatching
    <3>2. \A u \in Tasks : Issued(u)' => u = t
      BY <2>1, <2>2, <2>3, <2>5 DEF StartedOnce, Issued
    <3> QED  BY <2>1, <2>3, <2>5, <3>1, <3>2 DEF StartInv, StartedOnce
  <2> QED  BY <2>4, <2>5
<1>4. ASSUME NEW w \in Webs, SaveTaskId(w) \/ WebDies(w) PROVE StartInv'
  <2>1. /\ web'[w].pc = "idle" /\ \A v \in Webs \ {w} : web'[v] = web[v]
        /\ UNCHANGED task
    BY <1>4 DEF TypeOK, SaveTaskId, WebDies
  <2>2. /\ row'.exists = row.exists /\ row'.cancelled = row.cancelled
        /\ row'.status = row.status /\ row'.ran = row.ran
    BY <1>4 DEF TypeOK, Row, SaveTaskId, WebDies
  <2> QED  BY <2>1, <2>2, <1>k DEF Dispatching, Issued
<1>5. ASSUME NEW s \in Stops, StopPressed(s) \/ StopCheck(s) PROVE StartInv'
  BY <1>5, <1>k DEF StopPressed, StopCheck, Dispatching, Issued
<1>6. ASSUME NEW s \in Stops, StopFlag(s) \/ StopClear(s) PROVE StartInv'
  <2>1. row'.cancelled /\ row'.exists = row.exists /\ UNCHANGED <<web, task>>
    BY <1>6 DEF TypeOK, Row, StopInv, StopFlag, StopClear
  <2> QED  BY <2>1, <1>k DEF Dispatching, Issued
<1>7. ASSUME NEW s \in Stops, StopRevoke(s) PROVE StartInv'
  <2>1. UNCHANGED <<row, web>> /\ stop[s].taskId \in Tasks
    BY <1>7 DEF StopInv, StopRevoke
  <2>2. \A u \in Tasks : task'[u].pc = task[u].pc
    BY <1>7, <2>1, RevokeTask
  <2> QED  BY <2>1, <2>2, <1>k DEF Dispatching, Issued
<1>8. ASSUME NEW t \in Tasks, Work(t) PROVE StartInv'
  <2>1. UNCHANGED web
    BY <1>8 DEF Work, Execute, Receive, Load, Refresh, SaveStep, MainYields, MainEnds,
       CheckStop, SaveError, Charge, Record, Final, Post, Ack, Interrupt, WorkerDies,
       ChildDies
  <2> QED  BY <1>8, <2>1, <1>k, WorkMoves, WorkRows DEF Moves, Rows, Dispatching, Issued
<1>9. CASE UNCHANGED vars
  BY <1>9, <1>k DEF vars, Dispatching, Issued
<1> QED
  BY <1>1, <1>2, <1>3, <1>4, <1>5, <1>6, <1>7, <1>8, <1>9 DEF Next, Start, Press, Work

\* A stop stays on record.
LEMMA CancelledStays == TypeOK /\ [Next]_vars => (row.cancelled => row'.cancelled)
<1> SUFFICES ASSUME TypeOK, [Next]_vars, row.cancelled PROVE row'.cancelled
  OBVIOUS
<1>1. ASSUME NEW w \in Webs,
             Submit(w) \/ SaveDraft(w) \/ Publish(w) \/ Start(w) \/ WebDies(w)
      PROVE  row'.cancelled
  BY <1>1 DEF TypeOK, Row, Submit, SaveDraft, Publish, Start, Dispatch, SaveTaskId, WebDies
<1>2. ASSUME NEW s \in Stops, StopPressed(s) \/ Press(s) PROVE row'.cancelled
  BY <1>2 DEF TypeOK, Row, StopPressed, Press, StopCheck, StopFlag, StopClear, StopRevoke
<1>3. ASSUME NEW t \in Tasks, Work(t) PROVE row'.cancelled
  BY <1>3, WorkRows DEF Rows
<1> QED
  BY <1>1, <1>2, <1>3 DEF Next, Work, vars

\* Nobody is signalled, and nobody has seen the flag, before it is on record.
LEMMA FlagStep == TypeOK /\ StopInv /\ FlagInv /\ [Next]_vars => FlagInv'
<1> SUFFICES ASSUME TypeOK, StopInv, FlagInv, [Next]_vars PROVE FlagInv'
  OBVIOUS
<1>0. row.cancelled => row'.cancelled
  BY CancelledStays
<1>1. CASE UNCHANGED task
  BY <1>0, <1>1 DEF FlagInv
<1>2. ASSUME NEW w \in Webs, NEW t \in Tasks, Dispatch(w, t) PROVE FlagInv'
  <2>1. /\ task'[t].pc = "queued" /\ task'[t].sig = task[t].sig /\ task'[t].seen = task[t].seen
        /\ \A u \in Tasks \ {t} : task'[u] = task[u]
    BY <1>2 DEF TypeOK, Task, Dispatch
  <2> QED  BY <1>0, <2>1 DEF FlagInv
<1>3. ASSUME NEW s \in Stops, StopRevoke(s) PROVE FlagInv'
  BY <1>0, <1>3 DEF FlagInv, StopInv, StopRevoke
<1>4. ASSUME NEW t \in Tasks, Work(t) PROVE FlagInv'
  <2>1. Moves(t) /\ Results(t)
    BY <1>4, WorkMoves, WorkResults
  <2>2. task'[t].sig \/ task'[t].seen \/ task'[t].pc = "except" => row'.cancelled
    BY <1>0, <2>1 DEF FlagInv, Results
  <2>3. \A u \in Tasks \ {t} :
           task'[u].sig \/ task'[u].seen \/ task'[u].pc = "except" => row'.cancelled
    BY <1>0, <2>1 DEF FlagInv, Moves
  <2> QED  BY <2>2, <2>3 DEF FlagInv
<1> QED
  BY <1>1, <1>2, <1>3, <1>4 DEF Next, Submit, SaveDraft, Publish, Start, SaveTaskId, WebDies,
     StopPressed, Press, StopCheck, StopFlag, StopClear, Work, vars

\* Who has passed the check has been issued; what is closed has passed it.
LEMMA PassedIssued ==
    ASSUME TypeOK, ChargeInv, PostInv, NEW t \in Tasks, Passed(t)
    PROVE  Issued(t)
<1>1. posted[t] > 0 => Issued(t)
  BY DEF PostInv
<1> QED  BY <1>1 DEF ChargeInv, PostInv, Passed, Issued

LEMMA ClosedPassed ==
    ASSUME NEW t \in Tasks, Closed(t)
    PROVE  Passed(t)
  BY DEF Closed, Passed

\* One task is past the check of the flag: it is passed only while nobody has stopped
\* the run, and until then the run has one task.
LEMMA OneStep ==
    TypeOK /\ StartInv /\ StopInv /\ FlagInv /\ OnePassed /\ ChargeInv /\ PostInv /\ [Next]_vars
    => OnePassed'
<1> SUFFICES ASSUME TypeOK, StartInv, StopInv, FlagInv, OnePassed, ChargeInv, PostInv,
                    [Next]_vars
             PROVE  OnePassed'
  OBVIOUS
<1>k. ASSUME \A t \in Tasks : Passed(t)' => Passed(t) PROVE OnePassed'
  BY <1>k DEF OnePassed
<1>1. CASE UNCHANGED <<task, charges, posted>>
  BY <1>1, <1>k DEF Passed
<1>2. ASSUME NEW w \in Webs, NEW t \in Tasks, Dispatch(w, t) PROVE OnePassed'
  <2>1. /\ task'[t].pc = "queued" /\ task'[t].result = task[t].result
        /\ UNCHANGED <<charges, posted>>
        /\ \A u \in Tasks \ {t} : task'[u] = task[u]
    BY <1>2 DEF TypeOK, Task, Dispatch
  <2> QED  BY <2>1, <1>k DEF Passed
<1>3. ASSUME NEW s \in Stops, StopRevoke(s) PROVE OnePassed'
  <2>1. UNCHANGED <<charges, posted>> /\ stop[s].taskId \in Tasks
    BY <1>3 DEF StopInv, StopRevoke
  <2>2. \A u \in Tasks : /\ task'[u].pc = task[u].pc /\ task'[u].seen = task[u].seen
                         /\ task'[u].result = task[u].result
    BY <1>3, <2>1, RevokeTask
  <2> QED  BY <2>1, <2>2, <1>k DEF Passed
<1>4. ASSUME NEW t \in Tasks, Work(t) PROVE OnePassed'
  <2>1. Moves(t) /\ Results(t)
    BY <1>4, WorkMoves, WorkResults
  <2>2. /\ \A u \in Tasks \ {t} : charges'[u] = charges[u]
        /\ charges'[t] = IF task'[t].pc = "record" THEN charges[t] + 1 ELSE charges[t]
    BY <1>4, WorkCharges
  <2>p. /\ \A u \in Tasks \ {t} : posted'[u] = posted[u]
        /\ posted'[t] = posted[t] \/ task[t].pc = "post"
    BY <1>4, WorkPosts
  <2>3. \A u \in Tasks \ {t} : Passed(u)' => Passed(u)
    BY <2>1, <2>2, <2>p DEF Moves, Passed
  <2>4. CASE task'[t].pc = "save" /\ ~row.cancelled
    <3>1. Issued(t) /\ \A u \in Tasks : Passed(u) => Issued(u)
      BY <2>1, PassedIssued DEF Moves, Issued
    <3>2. \A u \in Tasks : Passed(u) => u = t
      BY <2>4, <3>1 DEF StartInv, Started, StartedOnce
    <3> QED  BY <2>3, <3>2 DEF OnePassed
  <2>5. CASE ~(task'[t].pc = "save" /\ ~row.cancelled)
    <3>1. task'[t].pc = "record" => Passed(t)
      BY <2>1 DEF Moves, Charge, Passed
    <3>2. charges'[t] > 0 => Passed(t)
      BY <2>2, <3>1 DEF Passed
    <3>3. posted'[t] > 0 => Passed(t)
      BY <2>p, ClosedPassed DEF PostInv, Passed
    <3>4. task'[t].pc \in {"main", "charge"} \/ (task'[t].pc = "save" /\ ~task'[t].seen) =>
             Passed(t)
      BY <2>1, <2>5 DEF Moves, Passed
    <3>5. task'[t].result = "error" => Passed(t)
      BY <2>1 DEF Results, FlagInv, Passed
    <3>6. Passed(t)' => Passed(t)
      BY <3>2, <3>3, <3>4, <3>5 DEF Passed
    <3> QED  BY <2>3, <3>6, <1>k
  <2> QED  BY <2>4, <2>5
<1> QED
  BY <1>1, <1>2, <1>3, <1>4 DEF Next, Submit, SaveDraft, Publish, Start, SaveTaskId, WebDies,
     StopPressed, Press, StopCheck, StopFlag, StopClear, Work, vars

\* A delivery charges once, and a charge is there when its task records it.
LEMMA ChargeStep == TypeOK /\ StopInv /\ ChargeInv /\ [Next]_vars => ChargeInv'
<1> SUFFICES ASSUME TypeOK, StopInv, ChargeInv, [Next]_vars PROVE ChargeInv'
  OBVIOUS
<1>1. CASE UNCHANGED <<task, charges>>
  BY <1>1 DEF ChargeInv, Issued
<1>2. ASSUME NEW w \in Webs, NEW t \in Tasks, Dispatch(w, t) PROVE ChargeInv'
  <2>1. /\ task'[t].pc = "queued" /\ task'[t].deliveries = task[t].deliveries
        /\ UNCHANGED charges /\ \A u \in Tasks \ {t} : task'[u] = task[u]
    BY <1>2 DEF TypeOK, Task, Dispatch
  <2> QED  BY <2>1 DEF ChargeInv, Issued
<1>3. ASSUME NEW s \in Stops, StopRevoke(s) PROVE ChargeInv'
  <2>1. UNCHANGED charges /\ stop[s].taskId \in Tasks
    BY <1>3 DEF StopInv, StopRevoke
  <2>2. \A u \in Tasks : /\ task'[u].pc = task[u].pc
                         /\ task'[u].deliveries = task[u].deliveries
    BY <1>3, <2>1, RevokeTask
  <2> QED  BY <2>1, <2>2 DEF ChargeInv, Issued
<1>4. ASSUME NEW t \in Tasks, Work(t) PROVE ChargeInv'
  <2>1. Moves(t)
    BY <1>4, WorkMoves
  <2>2. /\ \A u \in Tasks \ {t} : charges'[u] = charges[u]
        /\ charges'[t] = IF task'[t].pc = "record" THEN charges[t] + 1 ELSE charges[t]
    BY <1>4, WorkCharges
  <2>3. charges[t] \in Nat /\ task[t].deliveries \in Nat
    BY DEF TypeOK, Task
  <2>4. CASE task'[t].pc = "record"
    <3>1. task[t].pc = "charge"
      BY <2>1, <2>4 DEF Moves, Charge
    <3>2. charges'[t] > 0 /\ charges'[t] <= task'[t].deliveries
      BY <2>1, <2>2, <2>3, <2>4, <3>1 DEF Moves, ChargeInv
    <3> QED  BY <2>1, <2>2, <2>4, <3>2 DEF ChargeInv, Moves, Issued
  <2>5. CASE task'[t].pc # "record"
    <3>1. charges'[t] <= task'[t].deliveries
      BY <2>1, <2>2, <2>3, <2>5 DEF Moves, ChargeInv
    <3>2. task'[t].pc \in {"load", "refresh", "save", "main", "charge"} =>
             charges'[t] < task'[t].deliveries
      BY <2>1, <2>2, <2>3, <2>5 DEF Moves, ChargeInv
    <3> QED  BY <2>1, <2>2, <2>5, <3>1, <3>2 DEF ChargeInv, Moves, Issued
  <2> QED  BY <2>4, <2>5
<1> QED
  BY <1>1, <1>2, <1>3, <1>4 DEF Next, Submit, SaveDraft, Publish, Start, SaveTaskId, WebDies,
     StopPressed, Press, StopCheck, StopFlag, StopClear, Work, vars

\* The transaction on the row is a charge.
LEMMA PriceStep == TypeOK /\ StopInv /\ ChargeInv /\ PriceIsCharged /\ [Next]_vars
                   => PriceIsCharged'
<1> SUFFICES ASSUME TypeOK, StopInv, ChargeInv, PriceIsCharged, [Next]_vars
             PROVE  PriceIsCharged'
  OBVIOUS
<1>1. CASE row'.txn = row.txn /\ UNCHANGED charges
  BY <1>1 DEF PriceIsCharged
<1>2. ASSUME NEW t \in Tasks, Work(t) PROVE PriceIsCharged'
  <2>1. row'.txn = row.txn \/ (task[t].pc = "record" /\ row'.txn = t)
    BY <1>2, WorkRows DEF Rows
  <2>2. \A u \in Tasks : charges[u] > 0 => charges'[u] > 0
    BY <1>2, WorkCharges DEF TypeOK
  <2>3. row.txn \in Tasks \cup {NoTask}
    BY DEF TypeOK, Row
  <2>4. task[t].pc = "record" => charges[t] > 0
    BY DEF ChargeInv
  <2> QED  BY <2>1, <2>2, <2>3, <2>4 DEF PriceIsCharged
<1>3. ASSUME NEW w \in Webs,
             Submit(w) \/ SaveDraft(w) \/ Publish(w) \/ Start(w) \/ WebDies(w)
      PROVE  row'.txn = row.txn /\ UNCHANGED charges
  BY <1>3 DEF TypeOK, Row, Submit, SaveDraft, Publish, Start, Dispatch, SaveTaskId, WebDies
<1>4. ASSUME NEW s \in Stops, StopPressed(s) \/ Press(s)
      PROVE  row'.txn = row.txn /\ UNCHANGED charges
  BY <1>4 DEF TypeOK, Row, StopPressed, Press, StopCheck, StopFlag, StopClear, StopRevoke
<1> QED
  BY <1>1, <1>2, <1>3, <1>4 DEF Next, Work, vars

\* What is said of a task u that does not take the step, when another one, t, does.
LEMMA OthersPosted ==
    ASSUME TypeOK, OnePassed, ChargeInv, PostInv,
           NEW t \in Tasks, Work(t), NEW u \in Tasks \ {t}, Passed(u)
    PROVE  /\ row.txn = u => row'.txn = u
           /\ Closed(u) => Closed(u)'
<1>1. ~Passed(t)
  BY DEF OnePassed
<1>2. task[t].pc # "record" /\ ~(task[t].pc = "save" /\ ~task[t].seen)
  BY <1>1 DEF ChargeInv, Passed
<1>3. /\ row'.txn = row.txn
      /\ row.ran => row'.ran
      /\ row'.status \in {row.status, ""}
  BY <1>2, WorkRows DEF Rows
<1>4. task'[u] = task[u] /\ charges'[u] = charges[u]
  BY WorkMoves, WorkCharges DEF Moves
<1> QED  BY <1>3, <1>4 DEF Closed

\* After its email the row stays closed: only a task that has passed the check opens it.
LEMMA PostStep ==
    TypeOK /\ StartInv /\ StopInv /\ FlagInv /\ OnePassed /\ ChargeInv /\ PostInv /\ [Next]_vars
    => PostInv'
<1> SUFFICES ASSUME TypeOK, StartInv, StopInv, FlagInv, OnePassed, ChargeInv, PostInv,
                    [Next]_vars
             PROVE  PostInv'
  OBVIOUS
\* A step that leaves the tasks where they are, and the row closed if it is.
<1>k. ASSUME \A t \in Tasks : /\ task'[t].pc = task[t].pc /\ task'[t].result = task[t].result
                              /\ posted'[t] = posted[t] /\ charges'[t] = charges[t]
                              /\ Issued(t) => /\ row'.txn = row.txn
                                              /\ row.ran => row'.ran
                                              /\ row'.status \in {row.status, ""},
             faults'["worker"] = faults["worker"]
      PROVE  PostInv'
  <2>1. ASSUME NEW t \in Tasks
        PROVE  /\ Issued(t)' <=> Issued(t)
               /\ task'[t].pc = task[t].pc /\ task'[t].result = task[t].result
               /\ posted'[t] = posted[t] /\ charges'[t] = charges[t]
               /\ task[t].pc # "none" /\ row.txn = t => row'.txn = t
               /\ task[t].pc # "none" /\ Closed(t) => Closed(t)'
    <3>1. Issued(t)' <=> Issued(t)
      BY <1>k DEF Issued
    <3>2. ASSUME Issued(t), Closed(t) PROVE Closed(t)'
      BY <1>k, <3>2 DEF Closed
    <3> QED  BY <1>k, <3>1, <3>2 DEF Issued
  <2>2. faults'["worker"] = faults["worker"]
    BY <1>k
  <2> QED  BY <2>1, <2>2 DEF PostInv
<1>1. ASSUME NEW w \in Webs, Submit(w) \/ SaveDraft(w) PROVE PostInv'
  <2>1. UNCHANGED <<task, posted, charges, faults>> /\ ~row.exists
    BY <1>1 DEF Submit, SaveDraft
  <2>2. \A t \in Tasks : ~Issued(t)
    BY <2>1 DEF StartInv, Started
  <2> QED  BY <2>1, <2>2, <1>k
<1>2. ASSUME NEW w \in Webs, Publish(w) PROVE PostInv'
  <2>1. /\ UNCHANGED <<task, posted, charges, faults>> /\ ~row.ran
        /\ row'.txn = row.txn
    BY <1>2 DEF Publish, Standby, TypeOK, Row
  <2>2. \A t \in Tasks : ~Closed(t)
    BY <2>1 DEF Closed
  <2>3. \A t \in Tasks : task[t].pc # "post" /\ ~(posted[t] > 0 /\ faults["worker"] = 0)
    BY <2>2 DEF PostInv
  <2> QED  BY <2>1, <2>3 DEF PostInv, Issued
<1>3. ASSUME NEW w \in Webs, NEW t \in Tasks, Dispatch(w, t) PROVE PostInv'
  <2>1. /\ UNCHANGED <<row, posted, charges, faults>> /\ ~Issued(t)
        /\ task'[t].pc = "queued" /\ task'[t].result = task[t].result
        /\ \A u \in Tasks \ {t} : task'[u] = task[u]
    BY <1>3 DEF TypeOK, Task, Dispatch, Issued
  <2>2. posted[t] = 0
    BY <2>1 DEF PostInv
  <2>3. \A u \in Tasks \ {t} : (Issued(u)' <=> Issued(u)) /\ (Closed(u)' <=> Closed(u))
    BY <2>1 DEF Issued, Closed
  <2> QED  BY <2>1, <2>2, <2>3 DEF PostInv
<1>4. ASSUME NEW w \in Webs, SaveTaskId(w) \/ WebDies(w) PROVE PostInv'
  <2>1. /\ UNCHANGED <<task, posted, charges>>
        /\ row'.txn = row.txn /\ row'.ran = row.ran /\ row'.status = row.status
    BY <1>4 DEF TypeOK, Row, SaveTaskId, WebDies
  <2>2. faults'["worker"] = faults["worker"]
    BY <1>4 DEF TypeOK, SaveTaskId, WebDies, Fault, FaultKinds
  <2> QED  BY <2>1, <2>2, <1>k
<1>5. ASSUME NEW s \in Stops, StopPressed(s) \/ StopCheck(s) \/ StopFlag(s) \/ StopClear(s)
      PROVE  PostInv'
  <2>1. /\ UNCHANGED <<task, posted, charges, faults>>
        /\ row'.txn = row.txn /\ row'.ran = row.ran /\ row'.status \in {row.status, ""}
    BY <1>5 DEF TypeOK, Row, StopPressed, StopCheck, StopFlag, StopClear
  <2> QED  BY <2>1, <1>k
<1>6. ASSUME NEW s \in Stops, StopRevoke(s) PROVE PostInv'
  <2>1. UNCHANGED <<row, posted, charges, faults>> /\ stop[s].taskId \in Tasks
    BY <1>6 DEF StopInv, StopRevoke
  <2>2. \A u \in Tasks : task'[u].pc = task[u].pc /\ task'[u].result = task[u].result
    BY <1>6, <2>1, RevokeTask
  <2> QED  BY <2>1, <2>2, <1>k
<1>7. ASSUME NEW t \in Tasks, Work(t) PROVE PostInv'
  <2>1. /\ Moves(t) /\ Results(t) /\ Rows(t)
        /\ \A u \in Tasks \ {t} : posted'[u] = posted[u] /\ charges'[u] = charges[u]
        /\ faults'["worker"] = 0 => faults["worker"] = 0 /\ ~WorkerDies(t)
    BY <1>7, WorkMoves, WorkResults, WorkRows, WorkPosts, WorkCharges, WorkFaults
  <2>2. ASSUME NEW u \in Tasks \ {t}
        PROVE  /\ Issued(u)' <=> Issued(u)
               /\ task'[u] = task[u] /\ posted'[u] = posted[u] /\ charges'[u] = charges[u]
               /\ charges[u] > 0 /\ row.txn = u => row'.txn = u
               /\ Closed(u) => Closed(u)'
    BY <1>7, <2>1, OthersPosted, ClosedPassed DEF Moves, Issued, Passed
  <2>3. task'[t].pc = "final" /\ task'[t].result = "ok" => row'.txn = t /\ charges'[t] > 0
    <3>1. SUFFICES ASSUME Record(t) PROVE row'.txn = t /\ charges'[t] > 0
      BY <2>1 DEF Results, PostInv
    <3> QED  BY <3>1 DEF Record, ChargeInv, TypeOK, Row
  <2>4. task'[t].pc = "post" => Closed(t)'
    <3>1. SUFFICES ASSUME Final(t), task'[t].result = task[t].result,
                          task[t].result \in {"ok", "error"}
                   PROVE  Closed(t)'
      BY <2>1 DEF Results
    <3>2. /\ row'.status = "" /\ row'.ran /\ row'.txn = row.txn /\ UNCHANGED charges
          /\ task[t].pc = "final"
      BY <3>1 DEF Final, TypeOK, Row
    <3> QED  BY <3>1, <3>2 DEF Closed, PostInv
  <2>5. posted'[t] > 0 /\ faults'["worker"] = 0 => task'[t].pc \in {"ack", "end"} /\ Closed(t)'
    <3>1. SUFFICES ASSUME posted'[t] > 0, faults["worker"] = 0, ~WorkerDies(t)
                   PROVE  task'[t].pc \in {"ack", "end"} /\ Closed(t)'
      BY <2>1
    <3>2. /\ task[t].pc \in {"post", "ack", "end"} /\ Closed(t)
          /\ task'[t].pc \in {"ack", "end"} /\ task'[t].result = task[t].result
      <4>1. CASE posted'[t] = posted[t]
        BY <2>1, <3>1, <4>1 DEF PostInv, Results
      <4>2. CASE posted'[t] # posted[t]
        BY <1>7, <4>2, WorkPosts DEF PostInv
      <4> QED  BY <4>1, <4>2
    <3>3. row' = row /\ charges'[t] = charges[t]
      BY <1>7, <2>1, <3>2, WorkCharges DEF Rows
    <3> QED  BY <3>2, <3>3 DEF Closed
  <2> QED
    BY <2>1, <2>2, <2>3, <2>4, <2>5 DEF PostInv, Moves, Results, Issued
<1>8. CASE UNCHANGED vars
  BY <1>8, <1>k DEF vars
<1> QED
  BY <1>1, <1>2, <1>3, <1>4, <1>5, <1>6, <1>7, <1>8 DEF Next, Start, Press, Work

-----------------------------------------------------------------------------
(* Theorems *)

\* RunnerInv holds in every state: among other things, a run that nobody stopped has one
\* request or one task, whatever is clicked, lost or delivered again.
THEOREM RunnerCorrect == Spec => []RunnerInv
<1>1. Init => RunnerInv
  <2> SUFFICES ASSUME Init PROVE RunnerInv
    OBVIOUS
  <2>1. \A t \in Tasks : /\ task[t] = Fresh /\ charges[t] = 0 /\ task[t].pc = "none"
                         /\ task[t].deliveries = 0 /\ task[t].result = "ok"
                         /\ task[t].sig = FALSE /\ task[t].seen = FALSE
    BY DEF Init, Fresh
  <2>2. row \in Row /\ row.txn = NoTask
    BY DEF Init, Row, STATUS
  <2>3. web \in [Webs -> Web] /\ \A w \in Webs : web[w].pc = "idle"
    BY DEF Init, Web
  <2>4. stop \in [Stops -> Stop] /\ \A s \in Stops : stop[s].pc = "idle"
    BY DEF Init, Stop, STATUS
  <2>5. task \in [Tasks -> Task] /\ charges \in [Tasks -> Nat] /\ posted \in [Tasks -> Nat]
    <3>1. /\ task = [t \in Tasks |-> Fresh] /\ charges = [t \in Tasks |-> 0]
          /\ posted = [t \in Tasks |-> 0]
      BY DEF Init
    <3> QED  BY <3>1, FreshType
  <2>6. faults \in [FaultKinds -> 0 .. MaxFaults]
    <3>1. faults = [kind \in FaultKinds |-> 0]
      BY DEF Init
    <3>2. 0 \in 0 .. MaxFaults
      BY RunnerAssumption DEF RunnerAssumption
    <3> QED  BY <3>1, <3>2
  <2>7. TypeOK
    BY <2>2, <2>3, <2>4, <2>5, <2>6 DEF TypeOK
  <2>8. StartInv /\ StopInv
    BY <2>1, <2>3, <2>4 DEF StartInv, Started, Dispatching, Issued, StopInv
  <2>p. \A t \in Tasks : posted[t] = 0
    BY DEF Init
  <2>9. OnePassed /\ ChargeInv
    BY <2>1, <2>p DEF OnePassed, Passed, ChargeInv
  <2>10. FlagInv /\ PostInv
    BY <2>1, <2>p DEF FlagInv, PostInv
  <2> QED
    BY <2>2, <2>7, <2>8, <2>9, <2>10 DEF RunnerInv, PriceIsCharged
<1>2. RunnerInv /\ [Next]_vars => RunnerInv'
  BY TypeStep, StartStep, StopStep, FlagStep, OneStep, ChargeStep, PriceStep, PostStep DEF RunnerInv
<1> QED  BY <1>1, <1>2, PTL DEF Spec

\* The row, the requests, the presses and the tasks stay within their types.
THEOREM TypeCorrect == Spec => []TypeOK
<1>1. RunnerInv => TypeOK
  BY DEF RunnerInv
<1> QED  BY <1>1, RunnerCorrect, PTL

\* One delivery of a task charges once at most, and two tasks of one run never both do.
THEOREM ChargedOnce == Spec => []ChargedPerDelivery
<1>1. RunnerInv => ChargedPerDelivery
  BY DEF RunnerInv, ChargeInv, OnePassed, Passed, ChargedPerDelivery
<1> QED  BY <1>1, RunnerCorrect, PTL

\* The price that a page shows was charged.
THEOREM PriceCorrect == Spec => []PriceIsCharged
<1>1. RunnerInv => PriceIsCharged
  BY DEF RunnerInv
<1> QED  BY <1>1, RunnerCorrect, PTL

\* Whoever gets the completion email finds the run closed, and its price on the page.
THEOREM EmailIsLast == Spec => []PostedIsClosed
<1>1. RunnerInv => PostedIsClosed
  BY DEF RunnerInv, PostInv, Closed, PostedIsClosed
<1> QED  BY <1>1, RunnerCorrect, PTL

-----------------------------------------------------------------------------
(* A stop in time *)

\* A task that a stop was in time for: it may be saved, but it has seen the flag.
Stopped(t) == /\ row.cancelled
              /\ task[t].pc \notin {"main", "charge"}
              /\ task[t].pc = "save" => task[t].seen

LEMMA StoppedStep ==
    ASSUME RunnerInv, NEW t \in Tasks, Stopped(t), [Next]_vars
    PROVE  Stopped(t)'
<1>0. TypeOK /\ StopInv /\ row'.cancelled
  BY CancelledStays DEF RunnerInv, Stopped
<1>1. CASE UNCHANGED task
  BY <1>0, <1>1 DEF Stopped
<1>2. ASSUME NEW w \in Webs, NEW u \in Tasks, Dispatch(w, u) PROVE Stopped(t)'
  <2>1. task'[u].pc = "queued" /\ \A v \in Tasks \ {u} : task'[v] = task[v]
    BY <1>0, <1>2 DEF TypeOK, Task, Dispatch
  <2> QED  BY <1>0, <2>1 DEF Stopped
<1>3. ASSUME NEW s \in Stops, StopRevoke(s) PROVE Stopped(t)'
  <2>1. task'[t].pc = task[t].pc /\ task'[t].seen = task[t].seen
    BY <1>0, <1>3, RevokeTask DEF StopInv, StopRevoke
  <2> QED  BY <1>0, <2>1 DEF Stopped
<1>4. ASSUME NEW u \in Tasks, Work(u) PROVE Stopped(t)'
  BY <1>0, <1>4, WorkMoves DEF Moves, Stopped
<1> QED
  BY <1>1, <1>2, <1>3, <1>4 DEF Next, Submit, SaveDraft, Publish, Start, SaveTaskId, WebDies,
     StopPressed, Press, StopCheck, StopFlag, StopClear, Work, vars

\* A stop that is on record before the worker's next look at the flag is in time: the run
\* is not charged any more.
THEOREM StopInTime == Spec => StoppedInTimeNotCharged
<1> SUFFICES ASSUME NEW t \in Tasks PROVE Spec => NotChargedAfter(t)
  BY DEF StoppedInTimeNotCharged
<1> DEFINE InTime == row.cancelled /\ task[t].pc \in {"none", "queued", "load", "refresh"}
<1>1. InTime => Stopped(t)
  BY DEF Stopped
<1>2. RunnerInv /\ Stopped(t) /\ [Next]_vars => Stopped(t)'
  BY StoppedStep
<1>3. Stopped(t) => task[t].pc # "charge"
  BY DEF Stopped
<1> QED  BY <1>1, <1>2, <1>3, RunnerCorrect, PTL DEF Spec, NotChargedAfter
=============================================================================
