---------------------------- MODULE NestedProofs ----------------------------
(* Proofs about NestedRuns, for any number of runs, workers, calls and         *)
(* failures: the messages the broker and the workers hold, what a caller finds *)
(* after its wait, and how often the rows of a bulk run are started and paid.  *)
EXTENDS NestedRuns, FiniteSetTheorems, TLAPS

\* The calls of an execution go on ...
Calling == {"main", "wait", "read"}

\* Rows that are not used yet, and who is waited for.
UseInv ==
    \A r \in Runs : /\ run[r].pc = "none" => run[r] = Unused
                    /\ run[r].pc \in {"wait", "read"} => run[r].on \in Runs

\* ... and its charge comes after them, so that each delivery pays once at most.
PaidInv ==
    \A r \in Runs : /\ run[r].charges <= run[r].deliveries
                    /\ run[r].pc \in Calling \cup {"charge"} =>
                          run[r].charges < run[r].deliveries

Called(r, line) == {c \in Runs : run[c].caller = r /\ run[c].line = line}

\* This delivery has not made the calls that are still to come.
LineInv ==
    \A r \in Runs, line \in 1 .. MaxCalls :
        /\ Cardinality(Called(r, line)) <= run[r].deliveries
        /\ run[r].pc \in Calling /\ line > run[r].calls =>
              Cardinality(Called(r, line)) < run[r].deliveries

\* Every message is that of a queued run, which has no other.
InQueue(r) == \E i \in 1 .. Len(queue) : queue[i] = r
Distinct(s) == \A i, j \in 1 .. Len(s) : s[i] = s[j] => i = j

MsgInv ==
    /\ Distinct(queue) /\ \A w \in Workers : Distinct(inbox[w])
    /\ \A r \in Runs : InQueue(r) => run[r].pc = "queued" /\ \A w \in Workers : ~Holds(w, r)
    /\ \A w \in Workers, r \in Runs : Holds(w, r) => /\ run[r].pc = "queued"
                                                     /\ \A v \in Workers : Holds(v, r) => v = w

\* A run of one delivery: it is charged once, then closed, then over, then its result is
\* read.
Paid(s) == s.kind = "row" /\ s.outcome = "ok" => s.charges = 1

Once(s) ==
    /\ s.pc \in {"none", "queued", "charge"} \cup Calling => s.charges = 0
    /\ s.pc \in {"final", "store"} => Paid(s)
    /\ s.pc = "store" /\ s.outcome # "raised" => ~s.open
    /\ s.result = "success" => s.pc \in {"ack", "end"} /\ ~s.open /\ Paid(s)

OnceInv ==
    \A r \in Runs : /\ Once(run[r])
                    /\ run[r].pc = "read" => run[run[r].on].result = "success"

NestedInv == /\ NestedTypes /\ UseInv /\ PaidInv /\ LineInv
             /\ happened["worker"] = 0 => MsgInv /\ OnceInv

-----------------------------------------------------------------------------
(* One record of run changes *)

\* What a run does by itself, a press of Stop or the death of its child makes of it,
\* as far as messages, calls and charges go.
Moves(r) ==
    /\ run' \in [Runs -> Run]
    /\ \A q \in Runs \ {r} : run'[q] = run[q]
    /\ run[r].pc # "none" /\ run'[r].pc # "none"
    /\ run'[r].kind = run[r].kind /\ run'[r].caller = run[r].caller
    /\ run'[r].line = run[r].line /\ run'[r].calls = run[r].calls
    /\ run'[r].deliveries = run[r].deliveries
    /\ run[r].pc = "queued" <=> run'[r].pc = "queued"
    /\ run'[r].pc \in Executing => Active(r) /\ run'[r].worker = run[r].worker
    /\ run'[r].pc \in {"wait", "read"} => run'[r].on \in Runs
    /\ run'[r].pc \in Calling => run[r].pc \in Calling
    /\ run'[r].pc = "charge" => run[r].pc = "main"
    /\ \/ run'[r].charges = run[r].charges
       \/ run[r].pc = "charge" /\ run'[r].pc = "final" /\ run'[r].charges = run[r].charges + 1

\* The same of the record that replaces it.
Becomes(a, b) ==
    /\ a.pc # "none" /\ b.pc # "none"
    /\ b.kind = a.kind /\ b.caller = a.caller
    /\ b.line = a.line /\ b.calls = a.calls
    /\ b.deliveries = a.deliveries
    /\ a.pc = "queued" <=> b.pc = "queued"
    /\ b.pc \in Executing => a.pc \in Executing /\ b.worker = a.worker
    /\ b.pc \in {"wait", "read"} => b.on \in Runs
    /\ b.pc \in Calling => a.pc \in Calling
    /\ b.pc = "charge" => a.pc = "main"
    /\ \/ b.charges = a.charges
       \/ a.pc = "charge" /\ b.pc = "final" /\ b.charges = a.charges + 1

LEMMA SetRun ==
    ASSUME NestedTypes, NEW r \in Runs, NEW s \in Run, run' = [run EXCEPT ![r] = s]
    PROVE  /\ run' \in [Runs -> Run]
           /\ run'[r] = s
           /\ \A q \in Runs \ {r} : run'[q] = run[q]
  BY DEF NestedTypes

LEMMA SetMoves ==
    ASSUME NestedTypes, NEW r \in Runs, NEW s \in Run, run' = [run EXCEPT ![r] = s],
           Becomes(run[r], s)
    PROVE  Moves(r)
  BY SetRun DEF Moves, Becomes, Active

LEMMA LocalMoves ==
    ASSUME NestedTypes, UseInv, NEW r \in Runs, Work(r) \/ StopRun(r) \/ ChildLost(r)
    PROVE  Moves(r) /\ UNCHANGED <<queue, inbox>>
<1> DEFINE a == run[r]
<1>0. a \in Run /\ (a.pc \in {"wait", "read"} => a.on \in Runs)
  BY DEF NestedTypes, UseInv
<1> SUFFICES \E s \in Run : run' = [run EXCEPT ![r] = s] /\ Becomes(a, s)
  BY SetMoves DEF Work, Resume, Read, WorkEnds, ChargeRun, CloseRun, Store, AckRun, StopRun,
                  ChildLost
<1>1. CASE Resume(r)
  <2> DEFINE s == [a EXCEPT !.pc = "read"]
             e == [a EXCEPT !.pc = "final", !.outcome = "error"]
  <2>1. s \in Run /\ e \in Run
    BY <1>0 DEF Run, Executing
  <2>2. a.pc = "wait" /\ (run' = [run EXCEPT ![r] = s] \/ run' = [run EXCEPT ![r] = e])
    BY <1>1 DEF Resume
  <2>3. Becomes(a, s) /\ Becomes(a, e)
    BY <1>0, <2>2 DEF Becomes, Run, Calling, Executing
  <2> QED  BY <2>1, <2>2, <2>3
<1>2. CASE Read(r)
  <2> DEFINE s == [a EXCEPT !.pc = "main", !.on = NoRun]
             e == [a EXCEPT !.pc = "final", !.outcome = "error"]
  <2>1. s \in Run /\ e \in Run
    BY <1>0 DEF Run, Executing
  <2>2. a.pc = "read" /\ (run' = [run EXCEPT ![r] = s] \/ run' = [run EXCEPT ![r] = e])
    BY <1>2 DEF Read
  <2>3. Becomes(a, s) /\ Becomes(a, e)
    BY <1>0, <2>2 DEF Becomes, Run, Calling, Executing
  <2> QED  BY <2>1, <2>2, <2>3
<1>3. CASE WorkEnds(r)
  <2> DEFINE s == [a EXCEPT !.pc = "charge"]
             e == [a EXCEPT !.pc = "final", !.outcome = "error"]
  <2>1. s \in Run /\ e \in Run
    BY <1>0 DEF Run, Executing
  <2>2. a.pc = "main" /\ (run' = [run EXCEPT ![r] = s] \/ run' = [run EXCEPT ![r] = e])
    BY <1>3 DEF WorkEnds
  <2>3. Becomes(a, s) /\ Becomes(a, e)
    BY <1>0, <2>2 DEF Becomes, Run, Calling, Executing
  <2> QED  BY <2>1, <2>2, <2>3
<1>4. CASE ChargeRun(r)
  <2> DEFINE n == a.charges + IF a.kind \in {"tool", "post"} THEN 0 ELSE 1
             s == [a EXCEPT !.pc = "final", !.charges = n]
  <2>1. n \in Nat /\ n \in {a.charges, a.charges + 1}
    BY <1>0 DEF Run
  <2>2. a.pc = "charge" /\ run' = [run EXCEPT ![r] = s]
    BY <1>4 DEF ChargeRun
  <2> HIDE DEF n
  <2>3. s \in Run
    BY <1>0, <2>1 DEF Run, Executing
  <2>4. Becomes(a, s)
    BY <1>0, <2>1, <2>2 DEF Becomes, Run, Calling, Executing
  <2> QED  BY <2>2, <2>3, <2>4
<1>5. CASE CloseRun(r)
  <2> DEFINE s == [a EXCEPT !.pc = "store", !.open = FALSE]
  <2>1. s \in Run
    BY <1>0 DEF Run, Executing
  <2>2. a.pc = "final" /\ run' = [run EXCEPT ![r] = s]
    BY <1>5 DEF CloseRun
  <2>3. Becomes(a, s)
    BY <1>0, <2>2 DEF Becomes, Run, Calling, Executing
  <2> QED  BY <2>1, <2>2, <2>3
<1>6. CASE Store(r)
  <2> DEFINE x == IF a.result = "success" \/ a.outcome # "raised" THEN "success" ELSE "failure"
             s == [a EXCEPT !.pc = "ack", !.result = x]
  <2>1. a.pc = "store" /\ run' = [run EXCEPT ![r] = s]
    BY <1>6 DEF Store
  <2>2. x \in {"success", "failure"}
    OBVIOUS
  <2> HIDE DEF x
  <2>3. s \in Run
    BY <1>0, <2>2 DEF Run, Executing
  <2>4. Becomes(a, s)
    BY <1>0, <2>1 DEF Becomes, Run, Calling, Executing
  <2> QED  BY <2>1, <2>3, <2>4
<1>7. CASE AckRun(r)
  <2> DEFINE s == [a EXCEPT !.pc = "end", !.worker = NoWorker]
  <2>1. s \in Run
    BY <1>0 DEF Run
  <2>2. a.pc = "ack" /\ run' = [run EXCEPT ![r] = s]
    BY <1>7 DEF AckRun
  <2>3. Becomes(a, s)
    BY <1>0, <2>2 DEF Becomes, Run, Calling, Executing
  <2> QED  BY <2>1, <2>2, <2>3
<1>8. CASE StopRun(r)
  <2>1. CASE a.pc = "queued"
    <3> DEFINE s == [a EXCEPT !.flag = TRUE, !.open = FALSE]
    <3>1. s \in Run
      BY <1>0 DEF Run
    <3>2. run' = [run EXCEPT ![r] = s]
      BY <1>8, <2>1 DEF StopRun
    <3>3. Becomes(a, s)
      BY <1>0, <2>1 DEF Becomes, Run, Calling, Executing
    <3> QED  BY <3>1, <3>2, <3>3
  <2>2. CASE a.pc # "queued"
    <3> DEFINE s == [Interrupted(a) EXCEPT !.flag = TRUE]
    <3>1. a.pc \in Executing /\ run' = [run EXCEPT ![r] = s]
      BY <1>8, <2>2 DEF StopRun, Active
    <3>2. PICK x \in {"final", "store", "ack"}, y \in {"ok", "error", "stopped", "raised"} :
               /\ s = [a EXCEPT !.pc = x, !.outcome = y, !.flag = TRUE]
      <4>1. a \in Run
        BY <1>0
      <4>2. CASE a.pc \in Calling
        <5>1. Interrupted(a) = [a EXCEPT !.pc = "final", !.outcome = "stopped"]
          BY <4>2 DEF Interrupted, Calling
        <5> QED  BY <4>1, <5>1 DEF Run
      <4>3. CASE a.pc = "charge"
        <5>1. Interrupted(a) = [a EXCEPT !.pc = "final", !.outcome = "raised"]
          BY <4>3 DEF Interrupted
        <5> QED  BY <4>1, <5>1 DEF Run
      <4>4. CASE a.pc = "final"
        <5>1. Interrupted(a) = [a EXCEPT !.pc = "store", !.outcome = "raised"]
          BY <4>4 DEF Interrupted
        <5> QED  BY <4>1, <5>1 DEF Run
      <4>5. CASE a.pc \in {"store", "ack"}
        <5>1. Interrupted(a) = [a EXCEPT !.pc = a.pc, !.outcome = a.outcome]
          BY <4>1, <4>5 DEF Interrupted, Run
        <5>2. a.outcome \in {"ok", "error", "stopped", "raised"}
          BY <4>1 DEF Run
        <5> QED  BY <4>1, <4>5, <5>1, <5>2 DEF Run
      <4> QED  BY <3>1, <4>2, <4>3, <4>4, <4>5 DEF Executing, Calling
    <3> HIDE DEF s
    <3>3. s \in Run
      BY <1>0, <3>2 DEF Run, Executing
    <3>4. Becomes(a, s)
      BY <1>0, <3>1, <3>2 DEF Becomes, Run, Calling, Executing
    <3> QED  BY <3>1, <3>3, <3>4
  <2> QED  BY <2>1, <2>2
<1>9. CASE ChildLost(r)
  <2> DEFINE x == IF a.result = "success" THEN "success" ELSE "failure"
             s == [a EXCEPT !.pc = "end", !.worker = NoWorker, !.result = x]
  <2>1. a.pc \in Executing /\ run' = [run EXCEPT ![r] = s]
    BY <1>9 DEF ChildLost, Active
  <2>2. x \in {"success", "failure"}
    OBVIOUS
  <2> HIDE DEF x
  <2>3. s \in Run
    BY <1>0, <2>2 DEF Run
  <2>4. Becomes(a, s)
    BY <1>0, <2>1 DEF Becomes, Run, Calling, Executing
  <2> QED  BY <2>1, <2>3, <2>4
<1> QED  BY <1>1, <1>2, <1>3, <1>4, <1>5, <1>6, <1>7, <1>8, <1>9 DEF Work

-----------------------------------------------------------------------------
(* The other steps: requests, calls, messages, lost workers *)

LEMMA UnusedType ==
    /\ Unused \in Run
    /\ Unused.deliveries = 0 /\ Unused.charges = 0 /\ Unused.result = "none"
    /\ Unused.caller = NoRun /\ Unused.line = 0
  BY NestedAssumption DEF Unused, Run, NestedAssumption

LEMMA SubmittedType ==
    ASSUME NEW k \in {"root", "row", "tool", "post"}, NEW q \in Runs \cup {NoRun},
           NEW line \in 0 .. MaxCalls
    PROVE  /\ Submitted(k, q, line) \in Run
           /\ Submitted(k, q, line).pc = "queued"
           /\ Submitted(k, q, line).caller = q /\ Submitted(k, q, line).line = line
           /\ Submitted(k, q, line).deliveries = 0 /\ Submitted(k, q, line).charges = 0
           /\ Submitted(k, q, line).result = "none"
<1> DEFINE z == [Unused EXCEPT !.pc = "queued", !.kind = k, !.caller = q]
           y == [z EXCEPT !.line = line, !.open = TRUE]
<1>1. /\ z \in Run /\ z.pc = "queued" /\ z.caller = q
      /\ z.deliveries = 0 /\ z.charges = 0 /\ z.result = "none"
  BY UnusedType DEF Run
<1>2. Submitted(k, q, line) = y
  BY DEF Submitted
<1> HIDE DEF z
<1>3. /\ y \in Run /\ y.pc = "queued" /\ y.caller = q /\ y.line = line
      /\ y.deliveries = 0 /\ y.charges = 0 /\ y.result = "none"
  BY <1>1 DEF Run
<1> QED  BY <1>2, <1>3

LEMMA RequestStep ==
    ASSUME NestedTypes, UseInv, NEW r \in Runs, Request(r)
    PROVE  /\ run' \in [Runs -> Run]
           /\ run[r] = Unused /\ run'[r] = Submitted("root", NoRun, 0)
           /\ \A q \in Runs \ {r} : run'[q] = run[q]
<1>1. Submitted("root", NoRun, 0) \in Run
  BY NestedAssumption, SubmittedType DEF NestedAssumption
<1>2. run' = [run EXCEPT ![r] = Submitted("root", NoRun, 0)] /\ run[r].pc = "none"
  BY DEF Request
<1>3. run[r] = Unused
  BY <1>2 DEF UseInv
<1> QED  BY <1>1, <1>2, <1>3, SetRun

\* What a new run is queued with.
LEMMA RequestIs ==
    LET s == Submitted("root", NoRun, 0) IN
    /\ s.pc = "queued" /\ s.caller = NoRun /\ s.line = 0
    /\ s.deliveries = 0 /\ s.charges = 0 /\ s.result = "none"
<1>1. 0 \in 0 .. MaxCalls
  BY NestedAssumption DEF NestedAssumption
<1> QED  BY <1>1, SubmittedType

\* The run that is called, and its caller.
LEMMA CallStep ==
    ASSUME NestedTypes, UseInv, NEW r \in Runs, NEW c \in NewRuns,
           NEW kind \in {"row", "tool", "post"}, Call(r, c, kind)
    PROVE  /\ run' \in [Runs -> Run]
           /\ c \in Runs /\ c # r /\ run[c] = Unused
           /\ run'[c] = Submitted(kind, r, run[r].calls + 1)
           /\ run[r].calls + 1 \in 1 .. MaxCalls
           /\ run[r].pc = "main"
           /\ run'[r].pc \in {"main", "wait"} /\ (run'[r].pc = "wait" => run'[r].on = c)
           /\ run'[r].calls = run[r].calls + 1
           /\ run'[r].kind = run[r].kind /\ run'[r].caller = run[r].caller
           /\ run'[r].line = run[r].line /\ run'[r].deliveries = run[r].deliveries
           /\ run'[r].charges = run[r].charges /\ run'[r].result = run[r].result
           /\ run'[r].worker = run[r].worker
           /\ \A q \in Runs \ {r, c} : run'[q] = run[q]
<1> DEFINE n == run[r].calls + 1
           pc == IF kind = "post" THEN "main" ELSE "wait"
           on == IF kind = "post" THEN NoRun ELSE c
           b == [run[r] EXCEPT !.calls = n, !.pc = pc, !.on = on]
<1>1. run[r].pc = "main" /\ run[r].calls < MaxCalls
  BY DEF Call
<1>2. c \in Runs /\ run[c].pc = "none"
  BY DEF NewRuns
<1>3. run[c] = Unused /\ c # r
  BY <1>1, <1>2 DEF UseInv
<1>4. run[r] \in Run /\ run[r].calls \in Nat
  BY NestedAssumption DEF NestedTypes, Run, NestedAssumption
<1>5. n \in 1 .. MaxCalls /\ n \in 0 .. MaxCalls
  BY <1>1, <1>4, NestedAssumption DEF NestedAssumption
<1>6. Submitted(kind, r, n) \in Run
  BY <1>5, SubmittedType
<1>7. pc \in {"main", "wait"} /\ (pc = "wait" => on = c) /\ on \in Runs \cup {NoRun}
  BY <1>2
<1>8. run' = [run EXCEPT ![c] = Submitted(kind, r, n), ![r] = b]
  BY DEF Call
<1> HIDE DEF n, pc, on
<1>9. b \in Run /\ b.pc = pc /\ b.on = on /\ b.calls = n
      /\ b.kind = run[r].kind /\ b.caller = run[r].caller /\ b.line = run[r].line
      /\ b.deliveries = run[r].deliveries /\ b.charges = run[r].charges
      /\ b.result = run[r].result /\ b.worker = run[r].worker
  BY <1>4, <1>5, <1>7 DEF Run, Executing
<1> HIDE DEF b
<1>10. /\ run' \in [Runs -> Run] /\ run'[c] = Submitted(kind, r, n) /\ run'[r] = b
       /\ \A q \in Runs \ {r, c} : run'[q] = run[q]
  BY <1>2, <1>3, <1>6, <1>8, <1>9 DEF NestedTypes
<1> QED  BY <1>1, <1>2, <1>3, <1>5, <1>7, <1>9, <1>10 DEF n

LEMMA CalledIs ==
    ASSUME NestedTypes, UseInv, NEW r \in Runs, NEW c \in NewRuns,
           NEW kind \in {"row", "tool", "post"}, Call(r, c, kind)
    PROVE  /\ run'[c].pc = "queued" /\ run'[c].caller = r
           /\ run'[c].line = run[r].calls + 1 /\ run'[c].deliveries = 0
           /\ run'[c].charges = 0 /\ run'[c].result = "none"
<1> DEFINE n == run[r].calls + 1
<1>1. n \in 0 .. MaxCalls /\ run'[c] = Submitted(kind, r, n)
  BY CallStep, NestedAssumption DEF NestedAssumption
<1> HIDE DEF n
<1>2. /\ run'[c].pc = "queued" /\ run'[c].caller = r /\ run'[c].line = n
      /\ run'[c].deliveries = 0 /\ run'[c].charges = 0 /\ run'[c].result = "none"
  BY <1>1, SubmittedType
<1> QED  BY <1>2 DEF n

LEMMA BeginStep ==
    ASSUME NestedTypes, UseInv, NEW w \in Workers, Begin(w)
    PROVE  \E r \in Runs :
             /\ inbox[w] # <<>> /\ r = Head(inbox[w])
             /\ run' \in [Runs -> Run]
             /\ \A q \in Runs \ {r} : run'[q] = run[q]
             /\ run'[r].kind = run[r].kind /\ run'[r].caller = run[r].caller
             /\ run'[r].line = run[r].line /\ run'[r].charges = run[r].charges
             /\ \/ /\ run'[r].pc = "end" /\ run'[r].result = "failure"
                   /\ run'[r].deliveries = run[r].deliveries
                \/ /\ run'[r].pc = "main" /\ run'[r].worker = w
                   /\ run'[r].result = run[r].result
                   /\ run'[r].deliveries = run[r].deliveries + 1
<1> DEFINE r == Head(inbox[w])
           a == run[r]
           n == a.deliveries + 1
           x == [a EXCEPT !.pc = "end", !.result = "failure"]
           z == [a EXCEPT !.pc = "main", !.worker = w, !.open = TRUE]
           y == [z EXCEPT !.calls = 0, !.outcome = "ok", !.deliveries = n]
<1>1. inbox[w] # <<>> /\ run' = [run EXCEPT ![r] = IF a.flag THEN x ELSE y]
  BY DEF Begin
<1>2. r \in Runs
  BY <1>1 DEF NestedTypes
<1>3. a \in Run /\ n \in Nat
  BY <1>2 DEF NestedTypes, Run
<1> HIDE DEF r, n
<1>4. x \in Run /\ x.pc = "end" /\ x.result = "failure" /\ x.deliveries = a.deliveries
      /\ x.kind = a.kind /\ x.caller = a.caller /\ x.line = a.line /\ x.charges = a.charges
  BY <1>3 DEF Run
<1>z. z \in Run /\ z.pc = "main" /\ z.result = a.result /\ z.worker = w
      /\ z.kind = a.kind /\ z.caller = a.caller /\ z.line = a.line /\ z.charges = a.charges
  BY <1>3 DEF Run, Executing
<1> HIDE DEF z
<1>5. y \in Run /\ y.pc = "main" /\ y.result = a.result /\ y.deliveries = n /\ y.worker = w
      /\ y.kind = a.kind /\ y.caller = a.caller /\ y.line = a.line /\ y.charges = a.charges
  <2>1. 0 \in 0 .. MaxCalls
    BY NestedAssumption DEF NestedAssumption
  <2> QED  BY <1>3, <1>z, <2>1 DEF Run
<1> HIDE DEF x, y
<1>6. CASE a.flag
  <2>1. run' = [run EXCEPT ![r] = x]
    BY <1>1, <1>6
  <2> QED  BY <1>1, <1>2, <1>4, <2>1, SetRun DEF r
<1>7. CASE ~a.flag
  <2>1. run' = [run EXCEPT ![r] = y]
    BY <1>1, <1>7
  <2>2. /\ run' \in [Runs -> Run] /\ run'[r] = y
        /\ \A q \in Runs \ {r} : run'[q] = run[q]
    BY <1>2, <1>5, <2>1, SetRun
  <2>3. n = run[r].deliveries + 1 /\ r = Head(inbox[w])
    BY DEF r, n
  <2> QED  BY <1>1, <1>2, <1>5, <2>2, <2>3
<1> QED  BY <1>6, <1>7

\* The runs of a lost worker are queued again or over; nothing else is said of them.
LEMMA LostStep ==
    ASSUME NestedTypes, NEW w \in Workers, WorkerLost(w)
    PROVE  /\ run' \in [Runs -> Run]
           /\ \A q \in Runs :
                /\ \/ run'[q] = run[q] /\ ~(Active(q) /\ run[q].worker = w)
                   \/ Active(q) /\ run'[q].pc \in {"queued", "end"}
                /\ run'[q].kind = run[q].kind /\ run'[q].caller = run[q].caller
                /\ run'[q].line = run[q].line /\ run'[q].deliveries = run[q].deliveries
                /\ run'[q].charges = run[q].charges
<1> DEFINE mine == {r \in Runs : Active(r) /\ run[r].worker = w}
           e(s) == [s EXCEPT !.pc = "end", !.worker = NoWorker]
           b(s) == [s EXCEPT !.pc = "queued", !.worker = NoWorker, !.on = NoRun]
           again(s) == IF s.flag THEN e(s) ELSE b(s)
<1>1. run' = [r \in Runs |-> IF r \in mine THEN again(run[r]) ELSE run[r]]
  BY DEF WorkerLost
<1>2. ASSUME NEW s \in Run
      PROVE  /\ again(s) \in Run /\ again(s).pc \in {"queued", "end"}
             /\ again(s).kind = s.kind /\ again(s).caller = s.caller
             /\ again(s).line = s.line /\ again(s).deliveries = s.deliveries
             /\ again(s).charges = s.charges
  <2>1. /\ e(s) \in Run /\ e(s).pc = "end"
        /\ e(s).kind = s.kind /\ e(s).caller = s.caller
        /\ e(s).line = s.line /\ e(s).deliveries = s.deliveries
        /\ e(s).charges = s.charges
    BY <1>2 DEF Run
  <2>2. /\ b(s) \in Run /\ b(s).pc = "queued"
        /\ b(s).kind = s.kind /\ b(s).caller = s.caller
        /\ b(s).line = s.line /\ b(s).deliveries = s.deliveries
        /\ b(s).charges = s.charges
    BY <1>2 DEF Run
  <2> HIDE DEF e, b
  <2> QED  BY <2>1, <2>2
<1> HIDE DEF again
<1>3. run' \in [Runs -> Run]
  BY <1>1, <1>2 DEF NestedTypes
<1>4. ASSUME NEW q \in Runs
      PROVE  /\ \/ run'[q] = run[q] /\ ~(Active(q) /\ run[q].worker = w)
                \/ Active(q) /\ run'[q].pc \in {"queued", "end"}
             /\ run'[q].kind = run[q].kind /\ run'[q].caller = run[q].caller
             /\ run'[q].line = run[q].line /\ run'[q].deliveries = run[q].deliveries
             /\ run'[q].charges = run[q].charges
  <2>1. run[q] \in Run
    BY DEF NestedTypes
  <2> QED  BY <1>1, <1>2, <2>1
<1> QED  BY <1>3, <1>4

\* The runs of a worker as a sequence.
LEMMA SeqOfRuns ==
    ASSUME NEW S \in SUBSET Runs
    PROVE  SetToSeq(S) \in Seq(Runs)
<1>1. IsFiniteSet(S)
  BY NestedAssumption, FS_Subset DEF NestedAssumption
<1>2. Cardinality(S) \in Nat /\ ExistsBijection(1 .. Cardinality(S), S)
  BY <1>1, FS_CardinalityType
<1>3. \E f \in [1 .. Cardinality(S) -> S] : IsInjective(f)
  BY <1>2 DEF ExistsBijection, Bijection, Injection
<1>4. SetToSeq(S) \in [1 .. Cardinality(S) -> S]
  BY <1>3 DEF SetToSeq
<1> QED  BY <1>2, <1>4

-----------------------------------------------------------------------------
(* Types *)

LEMMA HappenedType ==
    ASSUME NestedTypes, NEW k, Event(k)
    PROVE  /\ happened' \in [{"stop", "worker", "child"} -> 0 .. MaxHappens]
           /\ k \in {"stop", "worker", "child"}
           /\ happened' = [happened EXCEPT ![k] = @ + 1]
<1>1. k \in {"stop", "worker", "child"} /\ MaxHappens \in Nat
  BY NestedAssumption DEF NestedAssumption, Event
<1>2. /\ happened["stop"] \in Nat /\ happened["worker"] \in Nat /\ happened["child"] \in Nat
      /\ happened["stop"] + happened["worker"] + happened["child"] < MaxHappens
  BY DEF NestedTypes, Event
<1>3. happened[k] + 1 \in 0 .. MaxHappens
  BY <1>1, <1>2
<1> QED  BY <1>1, <1>3 DEF NestedTypes, Event

\* What a worker holds, with the message it works on.
LEMMA UnackedIs ==
    ASSUME NEW w \in Workers
    PROVE  /\ Busy(w) => Unacked(w) = Len(inbox[w]) + 1
           /\ ~Busy(w) => Unacked(w) = Len(inbox[w]) + 0
           /\ Busy(w)' => Unacked(w)' = Len(inbox'[w]) + 1
           /\ ~Busy(w)' => Unacked(w)' = Len(inbox'[w]) + 0
  BY Zenon DEF Unacked

\* The messages that the workers hold stay within the limit when no worker becomes busy.
LEMMA HoldsNoMore ==
    ASSUME NestedTypes, UNCHANGED inbox, \A w \in Workers : Busy(w)' => Busy(w)
    PROVE  \A w \in Workers : Unacked(w)' <= Prefetch
<1> SUFFICES ASSUME NEW w \in Workers
             PROVE  Unacked(w)' <= Prefetch
  OBVIOUS
<1>1. /\ Len(inbox[w]) \in Nat /\ Unacked(w) <= Prefetch /\ Prefetch \in Nat
      /\ Busy(w)' => Busy(w)
  BY NestedAssumption DEF NestedTypes, NestedAssumption
<1>2. CASE Busy(w)'
  BY <1>1, <1>2, UnackedIs
<1>3. CASE ~Busy(w)'
  BY <1>1, <1>3, UnackedIs
<1> QED  BY <1>2, <1>3

LEMMA TypesStep ==
    ASSUME NestedTypes, UseInv, [NestedNext]_nested
    PROVE  NestedTypes'
<1>0. /\ \A w \in Workers : inbox[w] \in Seq(Runs) /\ Len(inbox[w]) \in Nat
      /\ Prefetch \in Nat
  BY NestedAssumption DEF NestedTypes, NestedAssumption
<1>1. CASE UNCHANGED nested
  BY <1>1 DEF NestedTypes, Unacked, Busy, Active, nested
<1>2. ASSUME NEW r \in Runs, Request(r)
      PROVE  NestedTypes'
  <2>1. \A q \in Runs : Active(q)' => Active(q) /\ run'[q] = run[q]
    <3>1. run'[r].pc = "queued"
      BY <1>2, RequestStep, RequestIs
    <3>2. ~Active(r)' /\ \A q \in Runs \ {r} : run'[q] = run[q]
      BY <1>2, <3>1, RequestStep DEF Active, Executing
    <3> QED  BY <3>2 DEF Active
  <2>2. \A w \in Workers : Busy(w)' => Busy(w)
    BY <2>1 DEF Busy
  <2>3. UNCHANGED <<inbox, happened>> /\ queue' \in Seq(Runs)
    BY <1>2 DEF Request, NestedTypes
  <2> QED  BY <1>2, <2>2, <2>3, RequestStep, HoldsNoMore DEF NestedTypes
<1>3. ASSUME NEW r \in Runs, Work(r) \/ StopRun(r) \/ ChildLost(r)
      PROVE  NestedTypes'
  <2>1. Moves(r) /\ UNCHANGED <<queue, inbox>>
    BY <1>3, LocalMoves
  <2>2. \A q \in Runs : Active(q)' => Active(q) /\ run'[q].worker = run[q].worker
    BY <2>1 DEF Moves, Active
  <2>3. \A w \in Workers : Busy(w)' => Busy(w)
    BY <2>2 DEF Busy
  <2>4. happened' \in [{"stop", "worker", "child"} -> 0 .. MaxHappens]
    BY <1>3, HappenedType DEF Work, Resume, Read, WorkEnds, ChargeRun, CloseRun, Store, AckRun,
       StopRun, ChildLost, NestedTypes
  <2> QED  BY <2>1, <2>3, <2>4, HoldsNoMore DEF NestedTypes, Moves
<1>4. ASSUME NEW r \in Runs, NEW c \in NewRuns, NEW kind \in {"row", "tool", "post"},
             Call(r, c, kind)
      PROVE  NestedTypes'
  <2>1. \A q \in Runs : Active(q)' => Active(q) /\ run'[q].worker = run[q].worker
    <3>1. ~Active(c)'
      BY <1>4, CalledIs DEF Active, Executing
    <3>2. Active(r) /\ run'[r].worker = run[r].worker
      BY <1>4, CallStep DEF Active, Executing
    <3> QED  BY <1>4, <3>1, <3>2, CallStep DEF Active
  <2>2. \A w \in Workers : Busy(w)' => Busy(w)
    BY <2>1 DEF Busy
  <2>3. UNCHANGED <<inbox, happened>> /\ queue' \in Seq(Runs)
    <3>1. c \in Runs /\ queue' = Append(queue, c) /\ UNCHANGED <<inbox, happened>>
      BY <1>4 DEF Call, NewRuns
    <3> QED  BY <3>1 DEF NestedTypes
  <2> QED  BY <1>4, <2>2, <2>3, CallStep, HoldsNoMore DEF NestedTypes
<1>5. ASSUME NEW w \in Workers, Deliver(w)
      PROVE  NestedTypes'
  <2>1. /\ queue # <<>> /\ Unacked(w) < Prefetch /\ UNCHANGED <<run, happened>>
        /\ inbox' = [inbox EXCEPT ![w] = Append(@, Head(queue))] /\ queue' = Tail(queue)
    BY <1>5 DEF Deliver
  <2>2. Head(queue) \in Runs /\ queue' \in Seq(Runs)
    BY <2>1 DEF NestedTypes
  <2>3. /\ inbox' \in [Workers -> Seq(Runs)] /\ Len(inbox'[w]) = Len(inbox[w]) + 1
        /\ \A v \in Workers \ {w} : inbox'[v] = inbox[v]
    BY <1>0, <2>1, <2>2 DEF NestedTypes
  <2>4. \A v \in Workers : Busy(v)' <=> Busy(v)
    BY <2>1 DEF Busy, Active
  <2>5. ASSUME NEW v \in Workers
        PROVE  Unacked(v)' <= Prefetch
    <3>1. Unacked(v) <= Prefetch /\ (v = w => Unacked(v) < Prefetch)
      BY <2>1 DEF NestedTypes
    <3>2. Len(inbox'[v]) = Len(inbox[v]) \/ (v = w /\ Len(inbox'[v]) = Len(inbox[v]) + 1)
      BY <2>3
    <3>3. CASE Busy(v)
      BY <1>0, <2>4, <3>1, <3>2, <3>3, UnackedIs
    <3>4. CASE ~Busy(v)
      BY <1>0, <2>4, <3>1, <3>2, <3>4, UnackedIs
    <3> QED  BY <3>3, <3>4
  <2> QED  BY <2>1, <2>2, <2>3, <2>5 DEF NestedTypes
<1>6. ASSUME NEW w \in Workers, Begin(w)
      PROVE  NestedTypes'
  <2>1. /\ inbox[w] # <<>> /\ ~Busy(w) /\ UNCHANGED <<queue, happened>>
        /\ inbox' = [inbox EXCEPT ![w] = Tail(@)]
    BY <1>6 DEF Begin
  <2>2. /\ inbox' \in [Workers -> Seq(Runs)] /\ Len(inbox'[w]) = Len(inbox[w]) - 1
        /\ \A v \in Workers \ {w} : inbox'[v] = inbox[v]
    BY <1>0, <2>1 DEF NestedTypes
  <2>3. PICK r \in Runs :
             /\ run' \in [Runs -> Run] /\ \A q \in Runs \ {r} : run'[q] = run[q]
             /\ run'[r].pc = "end" \/ run'[r].worker = w
    BY <1>6, BeginStep
  <2>4. ASSUME NEW v \in Workers \ {w}
        PROVE  Busy(v)' => Busy(v)
    <3> SUFFICES ASSUME NEW q \in Runs, Active(q)', run'[q].worker = v
                 PROVE  Busy(v)
      BY DEF Busy
    <3>1. q # r
      BY <2>3 DEF Active, Executing
    <3> QED  BY <2>3, <3>1 DEF Busy, Active
  <2>5. \A v \in Workers : Unacked(v)' <= Prefetch
    <3>1. Unacked(w)' <= Prefetch
      BY <1>0, <2>1, <2>2 DEF Unacked, NestedTypes
    <3>2. ASSUME NEW v \in Workers \ {w}
          PROVE  Unacked(v)' <= Prefetch
      BY <1>0, <2>2, <2>4 DEF Unacked, NestedTypes
    <3> QED  BY <3>1, <3>2
  <2> QED  BY <2>1, <2>2, <2>3, <2>5 DEF NestedTypes
<1>7. ASSUME NEW w \in Workers, WorkerLost(w)
      PROVE  NestedTypes'
  <2>1. /\ inbox' = [inbox EXCEPT ![w] = <<>>] /\ Event("worker")
        /\ queue' = SetToSeq({r \in {q \in Runs : Active(q) /\ run[q].worker = w} : ~run[r].flag})
                       \o inbox[w] \o queue
    BY <1>7 DEF WorkerLost
  <2>2. queue' \in Seq(Runs)
    <3> DEFINE back == {r \in {q \in Runs : Active(q) /\ run[q].worker = w} : ~run[r].flag}
    <3>1. SetToSeq(back) \in Seq(Runs)
      BY SeqOfRuns
    <3>2. queue' = SetToSeq(back) \o inbox[w] \o queue
      BY <2>1
    <3> HIDE DEF back
    <3> QED  BY <1>0, <3>1, <3>2 DEF NestedTypes
  <2>3. inbox' \in [Workers -> Seq(Runs)] /\ inbox'[w] = <<>>
        /\ \A v \in Workers \ {w} : inbox'[v] = inbox[v]
    BY <2>1 DEF NestedTypes
  <2>4. run' \in [Runs -> Run]
    BY <1>7, LostStep
  <2>5. \A v \in Workers : Busy(v)' => Busy(v)
    BY <1>7, LostStep DEF Busy, Active, Executing
  <2>6. \A v \in Workers : Unacked(v)' <= Prefetch
    <3>1. \A v \in Workers : Len(inbox'[v]) \in Nat /\ Len(inbox'[v]) <= Len(inbox[v])
      BY <1>0, <2>3
    <3>2. ASSUME NEW v \in Workers
          PROVE  Unacked(v)' <= Prefetch
      <4>1. Unacked(v) <= Prefetch
        BY DEF NestedTypes
      <4>2. CASE Busy(v)'
        BY <1>0, <2>5, <3>1, <4>1, <4>2, UnackedIs
      <4>3. CASE ~Busy(v)'
        <5>1. /\ Unacked(v)' = Len(inbox'[v]) + 0
              /\ Unacked(v) \in Nat /\ Len(inbox[v]) <= Unacked(v)
          BY <1>0, <4>3, UnackedIs
        <5> QED  BY <1>0, <3>1, <4>1, <5>1
      <4> QED  BY <4>2, <4>3
    <3> QED  BY <3>2
  <2> QED  BY <2>1, <2>2, <2>3, <2>4, <2>6, HappenedType DEF NestedTypes
<1> QED  BY <1>1, <1>2, <1>3, <1>4, <1>5, <1>6, <1>7 DEF NestedNext

-----------------------------------------------------------------------------
(* Charges and calls of one delivery *)

LEMMA UseStep ==
    ASSUME NestedTypes, UseInv, [NestedNext]_nested
    PROVE  UseInv'
<1>1. CASE UNCHANGED nested
  BY <1>1 DEF UseInv, nested
<1>2. ASSUME NEW r \in Runs, Request(r)
      PROVE  UseInv'
  <2>1. run'[r].pc = "queued" /\ \A q \in Runs \ {r} : run'[q] = run[q]
    BY <1>2, RequestStep, RequestIs
  <2> QED  BY <2>1 DEF UseInv
<1>3. ASSUME NEW r \in Runs, Work(r) \/ StopRun(r) \/ ChildLost(r)
      PROVE  UseInv'
  BY <1>3, LocalMoves DEF UseInv, Moves
<1>4. ASSUME NEW r \in Runs, NEW c \in NewRuns, NEW kind \in {"row", "tool", "post"},
             Call(r, c, kind)
      PROVE  UseInv'
  <2>1. /\ run'[c].pc = "queued" /\ c \in Runs
        /\ \A q \in Runs \ {r, c} : run'[q] = run[q]
        /\ run'[r].pc \in {"main", "wait"} /\ (run'[r].pc = "wait" => run'[r].on = c)
    BY <1>4, CallStep, CalledIs
  <2> QED  BY <2>1 DEF UseInv
<1>5. ASSUME NEW w \in Workers, Deliver(w)
      PROVE  UseInv'
  BY <1>5 DEF UseInv, Deliver
<1>6. ASSUME NEW w \in Workers, Begin(w)
      PROVE  UseInv'
  <2>1. PICK r \in Runs : run'[r].pc \in {"end", "main"} /\ \A q \in Runs \ {r} : run'[q] = run[q]
    BY <1>6, BeginStep
  <2> QED  BY <2>1 DEF UseInv
<1>7. ASSUME NEW w \in Workers, WorkerLost(w)
      PROVE  UseInv'
  BY <1>7, LostStep DEF UseInv
<1> QED  BY <1>1, <1>2, <1>3, <1>4, <1>5, <1>6, <1>7 DEF NestedNext

LEMMA PaidStep ==
    ASSUME NestedTypes, UseInv, PaidInv, [NestedNext]_nested
    PROVE  PaidInv'
<1>0. \A r \in Runs : run[r].charges \in Nat /\ run[r].deliveries \in Nat
  BY DEF NestedTypes, Run
<1>1. CASE UNCHANGED nested
  BY <1>1 DEF PaidInv, nested
<1>2. ASSUME NEW r \in Runs, Request(r)
      PROVE  PaidInv'
  <2>1. /\ run'[r].pc = "queued" /\ run'[r].charges = 0 /\ run'[r].deliveries = 0
        /\ \A q \in Runs \ {r} : run'[q] = run[q]
    BY <1>2, RequestStep, RequestIs
  <2> QED  BY <2>1 DEF PaidInv, Calling
<1>3. ASSUME NEW r \in Runs, Work(r) \/ StopRun(r) \/ ChildLost(r)
      PROVE  PaidInv'
  <2>1. Moves(r)
    BY <1>3, LocalMoves
  <2>2. /\ run'[r].charges <= run'[r].deliveries
        /\ run'[r].pc \in Calling \cup {"charge"} => run'[r].charges < run'[r].deliveries
    BY <1>0, <2>1 DEF PaidInv, Moves, Calling
  <2> QED  BY <2>1, <2>2 DEF PaidInv, Moves
<1>4. ASSUME NEW r \in Runs, NEW c \in NewRuns, NEW kind \in {"row", "tool", "post"},
             Call(r, c, kind)
      PROVE  PaidInv'
  <2>1. /\ run'[c].pc = "queued" /\ run'[c].charges = 0 /\ run'[c].deliveries = 0
        /\ c \in Runs /\ \A q \in Runs \ {r, c} : run'[q] = run[q]
        /\ run'[r].charges = run[r].charges /\ run'[r].deliveries = run[r].deliveries
        /\ run[r].pc = "main"
    BY <1>4, CallStep, CalledIs
  <2> QED  BY <1>0, <2>1 DEF PaidInv, Calling
<1>5. ASSUME NEW w \in Workers, Deliver(w)
      PROVE  PaidInv'
  BY <1>5 DEF PaidInv, Deliver
<1>6. ASSUME NEW w \in Workers, Begin(w)
      PROVE  PaidInv'
  <2>1. PICK r \in Runs :
             /\ \A q \in Runs \ {r} : run'[q] = run[q]
             /\ run'[r].charges = run[r].charges
             /\ \/ run'[r].pc = "end" /\ run'[r].deliveries = run[r].deliveries
                \/ run'[r].pc = "main" /\ run'[r].deliveries = run[r].deliveries + 1
    BY <1>6, BeginStep
  <2> QED  BY <1>0, <2>1 DEF PaidInv, Calling
<1>7. ASSUME NEW w \in Workers, WorkerLost(w)
      PROVE  PaidInv'
  BY <1>7, LostStep DEF PaidInv, Calling
<1> QED  BY <1>1, <1>2, <1>3, <1>4, <1>5, <1>6, <1>7 DEF NestedNext

LEMMA CalledFinite ==
    ASSUME NEW r, NEW line
    PROVE  /\ IsFiniteSet(Called(r, line)) /\ Cardinality(Called(r, line)) \in Nat
           /\ IsFiniteSet(Called(r, line)') /\ Cardinality(Called(r, line)') \in Nat
<1>1. Called(r, line) \in SUBSET Runs /\ Called(r, line)' \in SUBSET Runs
  BY DEF Called
<1>2. IsFiniteSet(Called(r, line)) /\ IsFiniteSet(Called(r, line)')
  BY <1>1, NestedAssumption, FS_Subset DEF NestedAssumption
<1> QED  BY <1>2, FS_CardinalityType

\* A step that calls nobody, and counts a delivery where it starts an execution.
LEMMA LineKeeps ==
    ASSUME NestedTypes, LineInv,
           \A q \in Runs :
              /\ run'[q].caller = run[q].caller /\ run'[q].line = run[q].line
              /\ \/ /\ run'[q].deliveries = run[q].deliveries
                    /\ run'[q].pc \in Calling =>
                          run[q].pc \in Calling /\ run'[q].calls = run[q].calls
                 \/ run'[q].deliveries = run[q].deliveries + 1
    PROVE  LineInv'
<1> SUFFICES ASSUME NEW r \in Runs, NEW line \in 1 .. MaxCalls
             PROVE  /\ Cardinality(Called(r, line)') <= run'[r].deliveries
                    /\ run'[r].pc \in Calling /\ line > run'[r].calls =>
                          Cardinality(Called(r, line)') < run'[r].deliveries
  BY DEF LineInv
<1>1. Called(r, line)' = Called(r, line)
  BY DEF Called
<1>2. Cardinality(Called(r, line)) \in Nat /\ run[r].deliveries \in Nat
  BY CalledFinite DEF NestedTypes, Run
<1>3. /\ Cardinality(Called(r, line)) <= run[r].deliveries
      /\ run[r].pc \in Calling /\ line > run[r].calls =>
            Cardinality(Called(r, line)) < run[r].deliveries
  BY DEF LineInv
<1>4. Cardinality(Called(r, line)') = Cardinality(Called(r, line))
  BY <1>1
<1> QED  BY <1>2, <1>3, <1>4

LEMMA LineStep ==
    ASSUME NestedTypes, UseInv, LineInv, [NestedNext]_nested
    PROVE  LineInv'
<1>1. CASE UNCHANGED nested
  BY <1>1, LineKeeps DEF nested
<1>2. ASSUME NEW r \in Runs, Request(r)
      PROVE  LineInv'
  <2>1. /\ run'[r].pc = "queued" /\ run'[r].caller = NoRun /\ run'[r].line = 0
        /\ run'[r].deliveries = 0 /\ \A q \in Runs \ {r} : run'[q] = run[q]
    BY <1>2, RequestStep, RequestIs
  <2>2. run[r].caller = NoRun /\ run[r].line = 0 /\ run[r].deliveries = 0
    BY <1>2, RequestStep, UnusedType
  <2> QED  BY <2>1, <2>2, LineKeeps DEF Calling
<1>3. ASSUME NEW r \in Runs, Work(r) \/ StopRun(r) \/ ChildLost(r)
      PROVE  LineInv'
  BY <1>3, LocalMoves, LineKeeps DEF Moves
<1>4. ASSUME NEW r \in Runs, NEW c \in NewRuns, NEW kind \in {"row", "tool", "post"},
             Call(r, c, kind)
      PROVE  LineInv'
  <2> DEFINE n == run[r].calls + 1
  <2>1. /\ c \in Runs /\ c # r /\ run'[c].caller = r /\ run'[c].line = n /\ run'[c].pc = "queued"
        /\ run'[c].deliveries = 0
        /\ \A q \in Runs \ {r, c} : run'[q] = run[q]
        /\ run'[r].calls = n /\ run'[r].deliveries = run[r].deliveries
        /\ run'[r].caller = run[r].caller /\ run'[r].line = run[r].line
        /\ run[r].pc = "main" /\ n \in 1 .. MaxCalls
    BY <1>4, CallStep, CalledIs
  <2>2. run[c].caller = NoRun /\ run[c].deliveries = 0
    BY <1>4, CallStep, UnusedType
  <2>3. run[r].calls \in Nat /\ \A q \in Runs : run[q].deliveries \in Nat
    BY NestedAssumption DEF NestedTypes, Run, NestedAssumption
  <2>n. run[r].calls < n /\ n \in Nat
    BY <2>3
  <2> HIDE DEF n
  <2> SUFFICES ASSUME NEW q \in Runs, NEW line \in 1 .. MaxCalls
               PROVE  /\ Cardinality(Called(q, line)') <= run'[q].deliveries
                      /\ run'[q].pc \in Calling /\ line > run'[q].calls =>
                            Cardinality(Called(q, line)') < run'[q].deliveries
    BY DEF LineInv
  <2>4. /\ Cardinality(Called(q, line)) <= run[q].deliveries
        /\ run[q].pc \in Calling /\ line > run[q].calls =>
              Cardinality(Called(q, line)) < run[q].deliveries
    BY DEF LineInv
  <2>5. Cardinality(Called(q, line)) \in Nat /\ IsFiniteSet(Called(q, line))
    BY CalledFinite
  <2>6. c \notin Called(q, line)
    BY <2>2, NestedAssumption DEF Called, NestedAssumption
  <2>7. CASE q = r /\ line = n
    <3>1. Called(q, line)' = Called(q, line) \cup {c}
      BY <2>1, <2>7 DEF Called
    <3>2. Cardinality(Called(q, line)') = Cardinality(Called(q, line)) + 1
      BY <2>5, <2>6, <3>1, FS_AddElement
    <3>3. Cardinality(Called(q, line)) < run[q].deliveries
      BY <2>1, <2>4, <2>7, <2>n DEF Calling
    <3> QED  BY <2>1, <2>3, <2>5, <2>7, <2>n, <3>2, <3>3
  <2>8. CASE ~(q = r /\ line = n)
    <3>1. Called(q, line)' = Called(q, line)
      BY <2>1, <2>6, <2>8 DEF Called
    <3>2. Cardinality(Called(q, line)') = Cardinality(Called(q, line))
      BY <3>1
    <3>3. CASE q = r
      <4>1. line > n => line > run[r].calls
        BY <2>3, <2>n
      <4> QED  BY <2>1, <2>4, <3>2, <3>3, <4>1 DEF Calling
    <3>4. CASE q # r
      <4>1. run'[q].deliveries = run[q].deliveries
            /\ (run'[q].pc \in Calling => run'[q] = run[q])
        BY <2>1, <2>2, <3>4 DEF Calling
      <4> QED  BY <2>4, <3>2, <4>1
    <3> QED  BY <3>3, <3>4
  <2> QED  BY <2>7, <2>8
<1>5. ASSUME NEW w \in Workers, Deliver(w)
      PROVE  LineInv'
  BY <1>5, LineKeeps DEF Deliver
<1>6. ASSUME NEW w \in Workers, Begin(w)
      PROVE  LineInv'
  <2>1. PICK r \in Runs :
             /\ \A q \in Runs \ {r} : run'[q] = run[q]
             /\ run'[r].caller = run[r].caller /\ run'[r].line = run[r].line
             /\ \/ run'[r].pc = "end" /\ run'[r].deliveries = run[r].deliveries
                \/ run'[r].pc = "main" /\ run'[r].deliveries = run[r].deliveries + 1
    BY <1>6, BeginStep
  <2> QED  BY <2>1, LineKeeps DEF Calling
<1>7. ASSUME NEW w \in Workers, WorkerLost(w)
      PROVE  LineInv'
  BY <1>7, LostStep, LineKeeps DEF Calling
<1> QED  BY <1>1, <1>2, <1>3, <1>4, <1>5, <1>6, <1>7 DEF NestedNext

-----------------------------------------------------------------------------
(* Messages, while no worker is lost *)

\* A queued run gets its message.
LEMMA MsgAppended ==
    ASSUME NestedTypes, MsgInv, NEW c \in Runs, run[c].pc = "none", run'[c].pc = "queued",
           \A q \in Runs : run[q].pc = "queued" => run'[q].pc = "queued",
           queue' = Append(queue, c), UNCHANGED inbox
    PROVE  MsgInv'
<1>0. /\ queue \in Seq(Runs) /\ Len(queue) \in Nat /\ Len(queue') = Len(queue) + 1
      /\ queue'[Len(queue) + 1] = c /\ \A i \in 1 .. Len(queue) : queue'[i] = queue[i]
  BY DEF NestedTypes
<1>1. ~InQueue(c) /\ \A w \in Workers : ~Holds(w, c)
  BY DEF MsgInv
<1>2. \A r \in Runs : InQueue(r)' => InQueue(r) \/ r = c
  BY <1>0 DEF InQueue
<1>3. \A w \in Workers, r \in Runs : Holds(w, r)' <=> Holds(w, r)
  BY DEF Holds
<1>4. Distinct(queue)'
  <2> SUFFICES ASSUME NEW i \in 1 .. Len(queue'), NEW j \in 1 .. Len(queue'),
                      queue'[i] = queue'[j]
               PROVE  i = j
    BY DEF Distinct
  <2>1. \A k \in 1 .. Len(queue) : queue[k] # c
    BY <1>1 DEF InQueue
  <2>2. \A k, l \in 1 .. Len(queue) : queue[k] = queue[l] => k = l
    BY DEF MsgInv, Distinct
  <2> QED  BY <1>0, <2>1, <2>2
<1>5. \A w \in Workers : Distinct(inbox[w])'
  BY DEF MsgInv, Distinct
<1> QED  BY <1>1, <1>2, <1>3, <1>4, <1>5 DEF MsgInv

LEMMA MsgDelivered ==
    ASSUME NestedTypes, MsgInv, NEW w \in Workers, Deliver(w)
    PROVE  MsgInv'
<1> DEFINE h == Head(queue)
           n == Len(inbox[w]) + 1
<1>1. /\ queue # <<>> /\ run' = run /\ queue' = Tail(queue)
      /\ inbox' = [inbox EXCEPT ![w] = Append(@, h)]
  BY DEF Deliver
<1>2. /\ queue \in Seq(Runs) /\ Len(queue) \in Nat /\ 1 \in 1 .. Len(queue) /\ h = queue[1]
      /\ h \in Runs /\ Len(queue') = Len(queue) - 1
      /\ \A i \in 1 .. Len(queue') : i + 1 \in 1 .. Len(queue) /\ queue'[i] = queue[i + 1]
  BY <1>1 DEF NestedTypes
<1>3. /\ Len(inbox[w]) \in Nat
      /\ Len(inbox'[w]) = n /\ inbox'[w][n] = h
      /\ \A i \in 1 .. Len(inbox[w]) : inbox'[w][i] = inbox[w][i]
      /\ \A v \in Workers \ {w} : inbox'[v] = inbox[v]
  BY <1>1, <1>2 DEF NestedTypes
<1> HIDE DEF h
<1>4. InQueue(h) /\ run[h].pc = "queued" /\ \A v \in Workers : ~Holds(v, h)
  BY <1>2 DEF InQueue, MsgInv
<1>5. \A i, j \in 1 .. Len(queue) : queue[i] = queue[j] => i = j
  BY DEF MsgInv, Distinct
<1>6. \A r \in Runs : InQueue(r)' => InQueue(r) /\ r # h
  <2> SUFFICES ASSUME NEW r \in Runs, NEW i \in 1 .. Len(queue'), queue'[i] = r
               PROVE  InQueue(r) /\ r # h
    BY DEF InQueue
  <2>1. i + 1 \in 1 .. Len(queue) /\ queue[i + 1] = r /\ i + 1 # 1
    BY <1>2
  <2> QED  BY <1>2, <1>5, <2>1 DEF InQueue
<1>7. Distinct(queue)'
  <2> SUFFICES ASSUME NEW i \in 1 .. Len(queue'), NEW j \in 1 .. Len(queue'),
                      queue'[i] = queue'[j]
               PROVE  i = j
    BY DEF Distinct
  <2>1. i + 1 = j + 1
    BY <1>2, <1>5
  <2> QED  BY <1>2, <2>1
<1>8. \A v \in Workers, r \in Runs : Holds(v, r)' => Holds(v, r) \/ (v = w /\ r = h)
  BY <1>3 DEF Holds
<1>9. \A v \in Workers : Distinct(inbox[v])'
  <2>1. ASSUME NEW i \in 1 .. Len(inbox'[w]), NEW j \in 1 .. Len(inbox'[w]),
               inbox'[w][i] = inbox'[w][j]
        PROVE  i = j
    <3>1. \A k \in 1 .. Len(inbox[w]) : inbox[w][k] # h
      BY <1>4 DEF Holds
    <3>2. \A k, l \in 1 .. Len(inbox[w]) : inbox[w][k] = inbox[w][l] => k = l
      BY DEF MsgInv, Distinct
    <3>3. (i \in 1 .. Len(inbox[w]) \/ i = n) /\ (j \in 1 .. Len(inbox[w]) \/ j = n)
      BY <1>3
    <3> HIDE DEF n
    <3> QED  BY <1>3, <2>1, <3>1, <3>2, <3>3
  <2>2. \A v \in Workers \ {w} : Distinct(inbox[v])'
    BY <1>3 DEF MsgInv, Distinct
  <2> QED  BY <2>1, <2>2 DEF Distinct
<1>10. ASSUME NEW r \in Runs, InQueue(r)'
       PROVE  run'[r].pc = "queued" /\ \A v \in Workers : ~Holds(v, r)'
  BY <1>1, <1>6, <1>8, <1>10 DEF MsgInv
<1>11. ASSUME NEW v \in Workers, NEW r \in Runs, Holds(v, r)'
       PROVE  run'[r].pc = "queued" /\ \A u \in Workers : Holds(u, r)' => u = v
  <2>1. CASE r = h
    BY <1>1, <1>4, <1>8, <1>11, <2>1
  <2>2. CASE r # h
    BY <1>1, <1>8, <1>11, <2>2 DEF MsgInv
  <2> QED  BY <2>1, <2>2
<1> QED  BY <1>7, <1>9, <1>10, <1>11 DEF MsgInv

LEMMA MsgBegun ==
    ASSUME NestedTypes, UseInv, MsgInv, NEW w \in Workers, Begin(w)
    PROVE  MsgInv'
<1>1. PICK r \in Runs :
           inbox[w] # <<>> /\ r = Head(inbox[w]) /\ \A q \in Runs \ {r} : run'[q] = run[q]
  BY BeginStep
<1>2. queue' = queue /\ inbox' = [inbox EXCEPT ![w] = Tail(@)]
  BY DEF Begin
<1>3. /\ Len(inbox[w]) \in Nat /\ 1 \in 1 .. Len(inbox[w]) /\ r = inbox[w][1]
      /\ Len(inbox'[w]) = Len(inbox[w]) - 1
      /\ \A i \in 1 .. Len(inbox'[w]) : /\ i + 1 \in 1 .. Len(inbox[w])
                                        /\ inbox'[w][i] = inbox[w][i + 1]
      /\ \A v \in Workers \ {w} : inbox'[v] = inbox[v]
  BY <1>1, <1>2 DEF NestedTypes
<1>4. Holds(w, r) /\ ~InQueue(r) /\ \A v \in Workers : Holds(v, r) => v = w
  BY <1>3 DEF MsgInv, Holds
<1>5. \A i, j \in 1 .. Len(inbox[w]) : inbox[w][i] = inbox[w][j] => i = j
  BY DEF MsgInv, Distinct
<1>6. ASSUME NEW v \in Workers, NEW q \in Runs, Holds(v, q)'
      PROVE  Holds(v, q) /\ q # r
  <2>1. CASE v = w
    <3>1. PICK i \in 1 .. Len(inbox'[w]) : inbox'[w][i] = q
      BY <1>6, <2>1 DEF Holds
    <3>2. i + 1 \in 1 .. Len(inbox[w]) /\ inbox[w][i + 1] = q /\ i + 1 # 1
      BY <1>3, <3>1
    <3> QED  BY <1>3, <1>5, <2>1, <3>2 DEF Holds
  <2>2. CASE v # w
    BY <1>3, <1>4, <1>6, <2>2 DEF Holds
  <2> QED  BY <2>1, <2>2
<1>7. \A v \in Workers : Distinct(inbox[v])'
  <2>1. ASSUME NEW i \in 1 .. Len(inbox'[w]), NEW j \in 1 .. Len(inbox'[w]),
               inbox'[w][i] = inbox'[w][j]
        PROVE  i = j
    <3>1. i + 1 = j + 1
      BY <1>3, <1>5, <2>1
    <3> QED  BY <1>3, <3>1
  <2>2. \A v \in Workers \ {w} : Distinct(inbox[v])'
    BY <1>3 DEF MsgInv, Distinct
  <2> QED  BY <2>1, <2>2 DEF Distinct
<1>8. Distinct(queue)' /\ \A q \in Runs : InQueue(q)' => InQueue(q) /\ q # r
  BY <1>2, <1>4 DEF MsgInv, Distinct, InQueue
<1> QED  BY <1>1, <1>6, <1>7, <1>8 DEF MsgInv

\* No worker was lost before.
LEMMA NoWorkerLost ==
    ASSUME NestedTypes, [NestedNext]_nested, happened'["worker"] = 0
    PROVE  happened["worker"] = 0 /\ \A w \in Workers : ~WorkerLost(w)
<1>0. happened["worker"] \in Nat
  BY DEF NestedTypes
<1>1. ASSUME NEW k, Event(k)
      PROVE  happened["worker"] = 0 /\ k # "worker"
  <2>1. happened' = [happened EXCEPT ![k] = @ + 1]
    BY <1>1, HappenedType
  <2>2. CASE k = "worker"
    <3>1. happened'["worker"] = happened["worker"] + 1
      BY <2>1, <2>2 DEF NestedTypes
    <3> QED  BY <1>0, <3>1
  <2>3. CASE k # "worker"
    <3>1. happened'["worker"] = happened["worker"]
      BY <2>1, <2>3 DEF NestedTypes
    <3> QED  BY <2>3, <3>1
  <2> QED  BY <2>2, <2>3
<1>2. \A w \in Workers : ~WorkerLost(w)
  BY <1>1 DEF WorkerLost
<1>3. CASE \E k \in {"stop", "child"} : Event(k)
  BY <1>1, <1>2, <1>3
<1>4. CASE ~\E k \in {"stop", "child"} : Event(k)
  <2>1. happened' = happened
    BY <1>2, <1>4 DEF NestedNext, nested, Request, Work, Resume, Read, WorkEnds, ChargeRun,
       CloseRun, Store, AckRun, StopRun, ChildLost, Call, Deliver, Begin
  <2> QED  BY <1>2, <2>1
<1> QED  BY <1>3, <1>4

LEMMA MsgStep ==
    ASSUME NestedTypes, UseInv, MsgInv, [NestedNext]_nested, happened'["worker"] = 0
    PROVE  MsgInv'
<1>1. CASE UNCHANGED nested
  BY <1>1 DEF MsgInv, Distinct, InQueue, Holds, nested
<1>2. ASSUME NEW r \in Runs, Request(r)
      PROVE  MsgInv'
  <2>1. run'[r].pc = "queued" /\ \A q \in Runs \ {r} : run'[q] = run[q]
    BY <1>2, RequestStep, RequestIs
  <2>2. run[r].pc = "none" /\ queue' = Append(queue, r) /\ UNCHANGED inbox
    BY <1>2 DEF Request
  <2> QED  BY <2>1, <2>2, MsgAppended
<1>3. ASSUME NEW r \in Runs, Work(r) \/ StopRun(r) \/ ChildLost(r)
      PROVE  MsgInv'
  <2>1. UNCHANGED <<queue, inbox>> /\ \A q \in Runs : run[q].pc = "queued" => run'[q].pc = "queued"
    BY <1>3, LocalMoves DEF Moves
  <2> QED  BY <2>1 DEF MsgInv, Distinct, InQueue, Holds
<1>4. ASSUME NEW r \in Runs, NEW c \in NewRuns, NEW kind \in {"row", "tool", "post"},
             Call(r, c, kind)
      PROVE  MsgInv'
  <2>1. /\ run'[c].pc = "queued" /\ run[r].pc = "main"
        /\ c \in Runs /\ \A q \in Runs \ {r, c} : run'[q] = run[q]
    BY <1>4, CallStep, CalledIs
  <2>2. run[c].pc = "none" /\ queue' = Append(queue, c) /\ UNCHANGED inbox
    BY <1>4 DEF Call, NewRuns
  <2> QED  BY <2>1, <2>2, MsgAppended
<1>5. ASSUME NEW w \in Workers, Deliver(w)
      PROVE  MsgInv'
  BY <1>5, MsgDelivered
<1>6. ASSUME NEW w \in Workers, Begin(w)
      PROVE  MsgInv'
  BY <1>6, MsgBegun
<1> QED  BY <1>1, <1>2, <1>3, <1>4, <1>5, <1>6, NoWorkerLost DEF NestedNext

-----------------------------------------------------------------------------
(* A run of one delivery *)

\* What a run itself does, a press of Stop or the death of its child leaves of a result
\* and of the order charge, close, store.
LEMMA OnceLocal ==
    ASSUME NestedTypes, OnceInv, NEW r \in Runs, Work(r) \/ StopRun(r) \/ ChildLost(r)
    PROVE  /\ Once(run'[r])
           /\ run[r].result = "success" => run'[r].result = "success"
           /\ run'[r].pc = "read" => run'[r].on = run[r].on
                                     /\ run[run[r].on].result = "success"
<1> DEFINE a == run[r]
           Kept(s) == /\ Once(s)
                      /\ a.result = "success" => s.result = "success"
                      /\ s.pc = "read" => s.on = a.on /\ run[a.on].result = "success"
<1>0. a \in Run /\ Once(a) /\ run \in [Runs -> Run]
  BY DEF NestedTypes, OnceInv
<1> SUFFICES \E s : run' = [run EXCEPT ![r] = s] /\ Kept(s)
  BY <1>0
<1>1. CASE Resume(r)
  <2> DEFINE s == [a EXCEPT !.pc = "read"]
             e == [a EXCEPT !.pc = "final", !.outcome = "error"]
  <2>1. a.pc = "wait"
        /\ \/ run' = [run EXCEPT ![r] = s] /\ run[a.on].result = "success"
           \/ run' = [run EXCEPT ![r] = e]
    BY <1>1 DEF Resume
  <2>2. Kept(e) /\ (run[a.on].result = "success" => Kept(s))
    BY <1>0, <2>1 DEF Once, Paid, Run, Calling
  <2> QED  BY <2>1, <2>2
<1>2. CASE Read(r)
  <2> DEFINE s == [a EXCEPT !.pc = "main", !.on = NoRun]
             e == [a EXCEPT !.pc = "final", !.outcome = "error"]
  <2>1. a.pc = "read" /\ (run' = [run EXCEPT ![r] = s] \/ run' = [run EXCEPT ![r] = e])
    BY <1>2 DEF Read
  <2>2. Kept(s) /\ Kept(e)
    BY <1>0, <2>1 DEF Once, Paid, Run, Calling
  <2> QED  BY <2>1, <2>2
<1>3. CASE WorkEnds(r)
  <2> DEFINE s == [a EXCEPT !.pc = "charge"]
             e == [a EXCEPT !.pc = "final", !.outcome = "error"]
  <2>1. a.pc = "main" /\ (run' = [run EXCEPT ![r] = s] \/ run' = [run EXCEPT ![r] = e])
    BY <1>3 DEF WorkEnds
  <2>2. Kept(s) /\ Kept(e)
    BY <1>0, <2>1 DEF Once, Paid, Run, Calling
  <2> QED  BY <2>1, <2>2
<1>4. CASE ChargeRun(r)
  <2> DEFINE n == a.charges + IF a.kind \in {"tool", "post"} THEN 0 ELSE 1
             s == [a EXCEPT !.pc = "final", !.charges = n]
  <2>1. a.pc = "charge" /\ run' = [run EXCEPT ![r] = s]
    BY <1>4 DEF ChargeRun
  <2>2. a.kind = "row" => n = 1
    BY <1>0, <2>1 DEF Once
  <2> HIDE DEF n
  <2>3. Kept(s)
    BY <1>0, <2>1, <2>2 DEF Once, Paid, Run, Calling
  <2> QED  BY <2>1, <2>3
<1>5. CASE CloseRun(r)
  <2> DEFINE s == [a EXCEPT !.pc = "store", !.open = FALSE]
  <2>1. a.pc = "final" /\ run' = [run EXCEPT ![r] = s]
    BY <1>5 DEF CloseRun
  <2>2. Kept(s)
    BY <1>0, <2>1 DEF Once, Paid, Run, Calling
  <2> QED  BY <2>1, <2>2
<1>6. CASE Store(r)
  <2> DEFINE x == IF a.result = "success" \/ a.outcome # "raised" THEN "success" ELSE "failure"
             s == [a EXCEPT !.pc = "ack", !.result = x]
  <2>1. a.pc = "store" /\ run' = [run EXCEPT ![r] = s]
    BY <1>6 DEF Store
  <2>2. x = "success" => a.outcome # "raised"
    BY <1>0, <2>1 DEF Once
  <2> HIDE DEF x
  <2>3. Kept(s)
    BY <1>0, <2>1, <2>2 DEF Once, Paid, Run, Calling
  <2> QED  BY <2>1, <2>3
<1>7. CASE AckRun(r)
  <2> DEFINE s == [a EXCEPT !.pc = "end", !.worker = NoWorker]
  <2>1. a.pc = "ack" /\ run' = [run EXCEPT ![r] = s]
    BY <1>7 DEF AckRun
  <2>2. Kept(s)
    BY <1>0, <2>1 DEF Once, Paid, Run, Calling
  <2> QED  BY <2>1, <2>2
<1>8. CASE StopRun(r)
  <2>1. CASE a.pc = "queued"
    <3> DEFINE s == [a EXCEPT !.flag = TRUE, !.open = FALSE]
    <3>1. run' = [run EXCEPT ![r] = s]
      BY <1>8, <2>1 DEF StopRun
    <3>2. Kept(s)
      BY <1>0, <2>1 DEF Once, Paid, Run, Calling
    <3> QED  BY <3>1, <3>2
  <2>2. CASE a.pc # "queued"
    <3> DEFINE s == [Interrupted(a) EXCEPT !.flag = TRUE]
    <3>1. a.pc \in Executing /\ run' = [run EXCEPT ![r] = s]
      BY <1>8, <2>2 DEF StopRun, Active
    <3>2. CASE a.pc \in Calling
      <4>1. Interrupted(a) = [a EXCEPT !.pc = "final", !.outcome = "stopped"]
        BY <3>2 DEF Interrupted, Calling
      <4>2. s = [a EXCEPT !.pc = "final", !.outcome = "stopped", !.flag = TRUE]
        BY <4>1
      <4> HIDE DEF s
      <4>3. Kept(s)
        BY <1>0, <3>2, <4>2 DEF Once, Paid, Run, Calling
      <4> QED  BY <3>1, <4>3
    <3>3. CASE a.pc = "charge"
      <4>1. Interrupted(a) = [a EXCEPT !.pc = "final", !.outcome = "raised"]
        BY <3>3 DEF Interrupted
      <4>2. s = [a EXCEPT !.pc = "final", !.outcome = "raised", !.flag = TRUE]
        BY <4>1
      <4> HIDE DEF s
      <4>3. Kept(s)
        BY <1>0, <3>3, <4>2 DEF Once, Paid, Run, Calling
      <4> QED  BY <3>1, <4>3
    <3>4. CASE a.pc = "final"
      <4>1. Interrupted(a) = [a EXCEPT !.pc = "store", !.outcome = "raised"]
        BY <3>4 DEF Interrupted
      <4>2. s = [a EXCEPT !.pc = "store", !.outcome = "raised", !.flag = TRUE]
        BY <4>1
      <4> HIDE DEF s
      <4>3. Kept(s)
        BY <1>0, <3>4, <4>2 DEF Once, Paid, Run, Calling
      <4> QED  BY <3>1, <4>3
    <3>5. CASE a.pc \in {"store", "ack"}
      <4>1. Interrupted(a) = a
        BY <3>5 DEF Interrupted
      <4>2. s = [a EXCEPT !.flag = TRUE]
        BY <4>1
      <4> HIDE DEF s
      <4>3. Kept(s)
        BY <1>0, <3>5, <4>2 DEF Once, Paid, Run, Calling
      <4> QED  BY <3>1, <4>3
    <3> QED  BY <3>1, <3>2, <3>3, <3>4, <3>5 DEF Executing, Calling
  <2> QED  BY <2>1, <2>2
<1>9. CASE ChildLost(r)
  <2> DEFINE x == IF a.result = "success" THEN "success" ELSE "failure"
             s == [a EXCEPT !.pc = "end", !.worker = NoWorker, !.result = x]
  <2>1. a.pc \in Executing \ {"ack"} /\ run' = [run EXCEPT ![r] = s]
    BY <1>9 DEF ChildLost, Active
  <2>2. x = "failure" /\ a.result # "success"
    BY <1>0, <2>1 DEF Once, Executing
  <2> HIDE DEF x
  <2>3. Kept(s)
    BY <1>0, <2>1, <2>2 DEF Once, Paid, Run, Calling
  <2> QED  BY <2>1, <2>3
<1> QED  BY <1>1, <1>2, <1>3, <1>4, <1>5, <1>6, <1>7, <1>8, <1>9 DEF Work

\* A step in which one run changes and keeps a success that is stored.
LEMMA OnceKept ==
    ASSUME NestedTypes, UseInv, OnceInv, NEW r \in Runs, Once(run'[r]),
           \A q \in Runs \ {r} : run'[q] = run[q],
           run[r].result = "success" => run'[r].result = "success",
           run'[r].pc = "read" => run'[r].on = run[r].on /\ run'[r].on \in Runs
                                  /\ run[run[r].on].result = "success"
    PROVE  OnceInv'
<1>1. ASSUME NEW q \in Runs, run[q].result = "success"
      PROVE  run'[q].result = "success"
  BY <1>1
<1>2. ASSUME NEW q \in Runs
      PROVE  Once(run'[q]) /\ (run'[q].pc = "read" => run'[run'[q].on].result = "success")
  <2>1. CASE q = r
    BY <1>1, <2>1
  <2>2. CASE q # r
    <3>1. run'[q] = run[q] /\ Once(run[q])
          /\ (run[q].pc = "read" => run[q].on \in Runs /\ run[run[q].on].result = "success")
      BY <2>2 DEF OnceInv, UseInv
    <3> QED  BY <1>1, <3>1
  <2> QED  BY <2>1, <2>2
<1> QED  BY <1>2 DEF OnceInv

LEMMA OnceStep ==
    ASSUME NestedTypes, UseInv, MsgInv, OnceInv, [NestedNext]_nested, happened'["worker"] = 0
    PROVE  OnceInv'
<1>1. CASE UNCHANGED nested
  BY <1>1 DEF OnceInv, nested
<1>2. ASSUME NEW r \in Runs, Request(r)
      PROVE  OnceInv'
  <2>1. /\ run'[r].pc = "queued" /\ run'[r].charges = 0 /\ run'[r].result = "none"
        /\ \A q \in Runs \ {r} : run'[q] = run[q]
    BY <1>2, RequestStep, RequestIs
  <2>2. run[r].result = "none"
    BY <1>2, RequestStep, UnusedType
  <2>3. Once(run'[r])
    BY <2>1 DEF Once
  <2> QED  BY <2>1, <2>2, <2>3, OnceKept
<1>3. ASSUME NEW r \in Runs, Work(r) \/ StopRun(r) \/ ChildLost(r)
      PROVE  OnceInv'
  <2>1. \A q \in Runs \ {r} : run'[q] = run[q]
    BY <1>3, LocalMoves DEF Moves
  <2>2. run'[r].pc = "read" => run'[r].on \in Runs
    BY <1>3, LocalMoves DEF Moves
  <2> QED  BY <1>3, <2>1, <2>2, OnceLocal, OnceKept
<1>4. ASSUME NEW r \in Runs, NEW c \in NewRuns, NEW kind \in {"row", "tool", "post"},
             Call(r, c, kind)
      PROVE  OnceInv'
  <2>1. /\ run'[c].pc = "queued" /\ run'[c].charges = 0 /\ run'[c].result = "none"
        /\ c \in Runs /\ \A q \in Runs \ {r, c} : run'[q] = run[q]
        /\ run'[r].charges = run[r].charges /\ run'[r].result = run[r].result
        /\ run[r].pc = "main" /\ run'[r].pc \in {"main", "wait"}
    BY <1>4, CallStep, CalledIs
  <2>2. run[c].result = "none"
    BY <1>4, CallStep, UnusedType
  <2>3. Once(run'[c])
    BY <2>1 DEF Once
  <2>4. Once(run[r])
    BY DEF OnceInv
  <2>5. Once(run'[r])
    BY <2>1, <2>4 DEF Once, Calling
  <2>6. ASSUME NEW q \in Runs, run[q].result = "success"
        PROVE  run'[q].result = "success"
    BY <2>1, <2>2, <2>6
  <2>7. ASSUME NEW q \in Runs
        PROVE  Once(run'[q]) /\ (run'[q].pc = "read" => run'[run'[q].on].result = "success")
    <3>1. CASE q \in {r, c}
      BY <2>1, <2>3, <2>5, <3>1
    <3>2. CASE q \notin {r, c}
      <4>1. run'[q] = run[q] /\ Once(run[q])
            /\ (run[q].pc = "read" => run[q].on \in Runs /\ run[run[q].on].result = "success")
        BY <2>1, <3>2 DEF OnceInv, UseInv
      <4> QED  BY <2>6, <4>1
    <3> QED  BY <3>1, <3>2
  <2> QED  BY <2>7 DEF OnceInv
<1>5. ASSUME NEW w \in Workers, Deliver(w)
      PROVE  OnceInv'
  BY <1>5 DEF OnceInv, Deliver
<1>6. ASSUME NEW w \in Workers, Begin(w)
      PROVE  OnceInv'
  <2>1. PICK r \in Runs :
             /\ inbox[w] # <<>> /\ r = Head(inbox[w])
             /\ \A q \in Runs \ {r} : run'[q] = run[q]
             /\ run'[r].charges = run[r].charges
             /\ \/ run'[r].pc = "end" /\ run'[r].result = "failure"
                \/ run'[r].pc = "main" /\ run'[r].result = run[r].result
    BY <1>6, BeginStep
  <2>2. run[r].pc = "queued"
    <3>1. Len(inbox[w]) \in Nat /\ 1 \in 1 .. Len(inbox[w]) /\ inbox[w][1] = r
      BY <2>1 DEF NestedTypes
    <3> QED  BY <3>1 DEF MsgInv, Holds
  <2>3. run[r].charges = 0 /\ run[r].result # "success"
    BY <2>2 DEF OnceInv, Once
  <2>4. Once(run'[r]) /\ run'[r].pc # "read"
    BY <2>1, <2>3 DEF Once
  <2> QED  BY <2>1, <2>3, <2>4, OnceKept
<1> QED  BY <1>1, <1>2, <1>3, <1>4, <1>5, <1>6, NoWorkerLost DEF NestedNext

-----------------------------------------------------------------------------
\* The conjuncts of NestedInv hold at first and are kept by every step: types and the
\* workers' limit, the counters of calls and charges, and, while no worker is lost, one
\* message for each queued run and the order of charge, close and result.
THEOREM NestedCorrect == NestedSpec => []NestedInv
<1>1. NestedInit => NestedInv
  <2> SUFFICES ASSUME NestedInit
               PROVE  NestedInv
    OBVIOUS
  <2>1. /\ run = [r \in Runs |-> Unused] /\ queue = <<>> /\ inbox = [w \in Workers |-> <<>>]
        /\ happened = [kind \in {"stop", "worker", "child"} |-> 0]
    BY DEF NestedInit
  <2>2. \A r \in Runs : run[r] = Unused /\ run[r].pc = "none"
    BY <2>1 DEF Unused
  <2>3. NestedTypes
    <3>1. \A w \in Workers : ~Busy(w) /\ Len(inbox[w]) = 0
      BY <2>1, <2>2 DEF Busy, Active, Executing
    <3>2. \A w \in Workers : Unacked(w) <= Prefetch
      BY <3>1, UnackedIs, NestedAssumption DEF NestedAssumption
    <3> QED  BY <2>1, <3>2, UnusedType, NestedAssumption DEF NestedTypes, NestedAssumption
  <2>4. \A r \in Runs : run[r].charges = 0 /\ run[r].deliveries = 0 /\ run[r].caller = NoRun
                        /\ run[r].result = "none"
    BY <2>2, UnusedType
  <2>5. UseInv /\ PaidInv
    BY <2>2, <2>4 DEF UseInv, PaidInv, Calling
  <2>6. LineInv
    <3>1. \A r \in Runs, line \in 1 .. MaxCalls : Called(r, line) = {}
      BY <2>4, NestedAssumption DEF Called, NestedAssumption
    <3>2. \A r \in Runs, line \in 1 .. MaxCalls : Cardinality(Called(r, line)) = 0
      BY <3>1, FS_EmptySet
    <3> QED  BY <2>2, <2>4, <3>2 DEF LineInv, Calling
  <2>7. MsgInv
    BY <2>1 DEF MsgInv, Distinct, InQueue, Holds
  <2>8. OnceInv
    BY <2>2, <2>4 DEF OnceInv, Once
  <2> QED  BY <2>3, <2>5, <2>6, <2>7, <2>8 DEF NestedInv
<1>2. NestedInv /\ [NestedNext]_nested => NestedInv'
  <2> SUFFICES ASSUME NestedInv, [NestedNext]_nested
               PROVE  NestedInv'
    OBVIOUS
  <2>1. NestedTypes' /\ UseInv' /\ PaidInv' /\ LineInv'
    BY TypesStep, UseStep, PaidStep, LineStep DEF NestedInv
  <2>2. ASSUME happened'["worker"] = 0
        PROVE  MsgInv' /\ OnceInv'
    BY <2>2, NoWorkerLost, MsgStep, OnceStep DEF NestedInv
  <2> QED  BY <2>1, <2>2 DEF NestedInv
<1> QED  BY <1>1, <1>2, PTL DEF NestedSpec

\* As long as no worker was lost, a caller that has come back from its wait reads a row
\* that is closed, and one of a bulk run that succeeded has been charged exactly once.
THEOREM UsedAreClosed == NestedSpec => []UsedIsClosed
<1>1. NestedInv => UsedIsClosed
  <2> SUFFICES ASSUME NestedInv, NEW r \in Runs, run[r].pc = "read", happened["worker"] = 0
               PROVE  /\ ~run[run[r].on].open
                      /\ run[run[r].on].kind = "row" /\ run[run[r].on].outcome = "ok" =>
                            run[run[r].on].charges = 1
    BY DEF UsedIsClosed
  <2>1. run[r].on \in Runs /\ run[run[r].on].result = "success"
    BY DEF NestedInv, UseInv, OnceInv
  <2> QED  BY <2>1 DEF NestedInv, OnceInv, Once, Paid
<1> QED  BY <1>1, NestedCorrect, PTL

\* Lost workers or not, no run is charged more often than it was delivered, and no row of
\* a bulk run is started more often than the bulk run was.
THEOREM RowsPaidPerDelivery == NestedSpec => []RowPaidPerDelivery
<1>1. NestedInv => RowPaidPerDelivery
  BY DEF NestedInv, PaidInv, LineInv, Called, RowPaidPerDelivery
<1> QED  BY <1>1, NestedCorrect, PTL
=============================================================================
