---------------------------- MODULE LedgerProofs ----------------------------
(* Theorems about Ledger, for any set of accounts, invoices, amounts and       *)
(* processes: the inductive invariant LedgerInv, and that the locked, crashing *)
(* and retried transactions implement the atomic CreditLedger.                 *)
EXTENDS Ledger, SequenceTheorems, WellFoundedInduction, TLAPS

USE LedgerAssumption

-----------------------------------------------------------------------------
\* What a call record is: the only facts about its fields the proofs below need.
Outcomes == {"none", "new", "existing", "broken", "failed"}
Pcs == {"idle", "lookup", "lock", "workspace", "insert", "commit"}

LEMMA CallFields ==
  ASSUME NEW c \in Call
  PROVE  /\ c.pc \in Pcs /\ c.acct \in Accounts /\ c.inv \in Invoices
         /\ c.amt \in Int /\ c.view \in Int
  BY DEF Call, Pcs

LEMMA CallReturn ==
  ASSUME NEW c \in Call, NEW o \in Outcomes
  PROVE  [c EXCEPT !.pc = "idle", !.outcome = o] \in Call
  BY DEF Call, Outcomes

LEMMA CallMove ==
  ASSUME NEW c \in Call, NEW pc \in Pcs
  PROVE  [c EXCEPT !.pc = pc] \in Call
  BY DEF Call, Pcs

LEMMA CallView ==
  ASSUME NEW c \in Call, NEW v \in Int
  PROVE  [c EXCEPT !.pc = "insert", !.view = v] \in Call
  BY DEF Call

LEMMA CallNew ==
  ASSUME NEW a \in Accounts, NEW inv \in Invoices, NEW amt \in Amounts,
         NEW pc \in {"idle", "lookup"}
  PROVE  [pc |-> pc, acct |-> a, inv |-> inv, amt |-> amt,
          view |-> 0, outcome |-> "none"] \in Call
  BY DEF Call

LEMMA ReturnType ==
  ASSUME TypeOK, NEW p \in Procs, NEW o \in Outcomes, Return(p, o)
  PROVE  /\ lock' \in [Accounts -> Procs \cup {NoProc}]
         /\ call' \in [Procs -> Call]
<1>1. call[p] \in Call
  BY DEF TypeOK
<1>2. [call[p] EXCEPT !.pc = "idle", !.outcome = o] \in Call
  BY <1>1, CallReturn
<1> QED BY <1>2 DEF Return, TypeOK

-----------------------------------------------------------------------------
\* Every variable keeps its type, whatever the calls do.
LEMMA InitTypeOK == Init => TypeOK
<1> SUFFICES ASSUME Init PROVE TypeOK
  OBVIOUS
<1>1. PICK a \in Accounts, inv \in Invoices, amt \in Amounts :
        call = [p \in Procs |-> [pc |-> "idle", acct |-> a, inv |-> inv, amt |-> amt,
                                 view |-> 0, outcome |-> "none"]]
  BY DEF Init
<1>2. call \in [Procs -> Call]
  BY <1>1, CallNew
<1> QED BY <1>2 DEF Init, TypeOK

LEMMA NextTypeOK == TypeOK /\ [Next]_vars => TypeOK'
<1> SUFFICES ASSUME TypeOK, [Next]_vars PROVE TypeOK'
  OBVIOUS
<1> USE DEF TypeOK
<1>1. ASSUME NEW p \in Procs, NEW a \in Accounts, NEW inv \in Invoices, NEW amt \in Amounts,
             Begin(p, a, inv, amt)
      PROVE  TypeOK'
  BY <1>1, CallNew DEF Begin
<1>2. ASSUME NEW p \in Procs, Lookup(p) PROVE TypeOK'
  <2>1. CASE Return(p, "existing")
    BY <1>2, <2>1, ReturnType DEF Lookup, Outcomes
  <2>2. CASE call' = [call EXCEPT ![p].pc = "lock"] /\ UNCHANGED lock
    <3>1. [call[p] EXCEPT !.pc = "lock"] \in Call
      BY CallMove DEF Pcs
    <3>2. call' \in [Procs -> Call]
      BY <2>2, <3>1
    <3> QED BY <1>2, <2>2, <3>2 DEF Lookup
  <2> QED BY <1>2, <2>1, <2>2 DEF Lookup
<1>3. ASSUME NEW p \in Procs, LockRow(p) PROVE TypeOK'
  <2>1. [call[p] EXCEPT !.pc = "workspace"] \in Call
    BY CallMove DEF Pcs
  <2> QED BY <1>3, <2>1, CallFields DEF LockRow
<1>4. ASSUME NEW p \in Procs, LockWorkspace(p) PROVE TypeOK'
  <2>1. balance[call[p].acct] + call[p].amt \in Int
    BY CallFields
  <2> QED BY <1>4, <2>1, CallView, CallFields DEF LockWorkspace
<1>5. ASSUME NEW p \in Procs, InsertRow(p) PROVE TypeOK'
  <2>1. [call[p] EXCEPT !.pc = "commit"] \in Call
    BY CallMove DEF Pcs
  <2> QED BY <1>5, <2>1 DEF InsertRow
<1>6. ASSUME NEW p \in Procs, InsertConflict(p) PROVE TypeOK'
  BY <1>6, ReturnType DEF InsertConflict, Outcomes
<1>7. ASSUME NEW p \in Procs, Commit(p) PROVE TypeOK'
  <2>1. [inv |-> call[p].inv, amt |-> call[p].amt, end |-> call[p].view] \in Row
    BY CallFields DEF Row
  <2>2. hist' \in [Accounts -> Seq(Row)]
    BY <1>7, <2>1, AppendProperties, CallFields DEF Commit
  <2>3. balance' \in [Accounts -> Int]
    BY <1>7, CallFields DEF Commit
  <2> QED BY <1>7, <2>2, <2>3, ReturnType DEF Commit, Outcomes
<1>8. ASSUME NEW p \in Procs, Abort(p) PROVE TypeOK'
  BY <1>8, ReturnType DEF Abort, Outcomes
<1>9. CASE UNCHANGED vars
  BY <1>9 DEF vars
<1> QED BY <1>1, <1>2, <1>3, <1>4, <1>5, <1>6, <1>7, <1>8, <1>9 DEF Next, Step

THEOREM TypeCorrect == Spec => []TypeOK
  BY InitTypeOK, NextTypeOK, PTL DEF Spec
-----------------------------------------------------------------------------
\* How a step moves one call: the process that takes the step, the others' records
\* and locks, stated once for every action.
Others(p) == \A q \in Procs \ {p} : call'[q] = call[q]

LEMMA ReturnFrame ==
  ASSUME TypeOK, NEW p \in Procs, NEW o \in Outcomes, Return(p, o)
  PROVE  /\ Others(p)
         /\ call'[p].pc = "idle"
         /\ call'[p].outcome = o
         /\ call'[p].inv = call[p].inv
         /\ \A a \in Accounts : lock[a] # p => lock'[a] = lock[a]
<1>1. call'[p] = [call[p] EXCEPT !.pc = "idle", !.outcome = o]
  BY DEF Return, TypeOK
<1>2. call[p] \in Call
  BY DEF TypeOK
<1>3. call'[p].pc = "idle" /\ call'[p].outcome = o /\ call'[p].inv = call[p].inv
  BY <1>1, <1>2 DEF Call
<1> QED BY <1>3 DEF Return, Others, TypeOK

\* What a commit does to the rows, position by position: row n of account a is new.
NewRow(p, a, n) ==
    /\ n > 0
    /\ Len(hist[a]) = n - 1
    /\ DOMAIN hist[a] = 1..(n - 1)
    /\ \A b \in Accounts \ {a} : hist'[b] = hist[b]
    /\ Len(hist'[a]) = n
    /\ DOMAIN hist'[a] = 1..n
    /\ \A k \in 1..(n - 1) : hist'[a][k] = hist[a][k]
    /\ hist'[a][n].inv = call[p].inv
    /\ hist'[a][n].amt = call[p].amt
    /\ hist'[a][n].end = call[p].view

LEMMA CommitRows ==
  ASSUME TypeOK, NEW p \in Procs, Commit(p)
  PROVE  \E a \in Accounts, n \in Nat : a = call[p].acct /\ NewRow(p, a, n)
<1>a. call[p].acct \in Accounts
  BY CallFields DEF TypeOK
<1>b. hist[call[p].acct] \in Seq(Row)
  BY <1>a DEF TypeOK
<1>c. Len(hist[call[p].acct]) + 1 \in Nat
  BY <1>b, LenProperties
<1>d. PICK a \in Accounts, n \in Nat : a = call[p].acct /\ n = Len(hist[a]) + 1
  BY <1>a, <1>c
<1> DEFINE r == [inv |-> call[p].inv, amt |-> call[p].amt, end |-> call[p].view]
<1>1. r \in Row
  BY CallFields DEF TypeOK, Row
<1>2. hist' = [hist EXCEPT ![a] = Append(@, r)]
  BY <1>d DEF Commit
<1>3. \A b \in Accounts : hist[b] \in Seq(Row)
  BY DEF TypeOK
<1>4. hist'[a] = Append(hist[a], r) /\ \A b \in Accounts \ {a} : hist'[b] = hist[b]
  BY <1>1, <1>2 DEF TypeOK
<1>5. Len(hist[a]) \in Nat /\ DOMAIN hist[a] = 1..Len(hist[a])
  BY <1>3, LenProperties
<1>6. /\ Len(hist'[a]) = n
      /\ DOMAIN hist'[a] = 1..n
      /\ \A k \in 1..Len(hist[a]) : hist'[a][k] = hist[a][k]
      /\ hist'[a][n] = r
  <2> HIDE DEF r
  <2> QED BY <1>1, <1>3, <1>4, <1>5, <1>d, AppendProperties, LenProperties
<1>7. NewRow(p, a, n)
  BY <1>4, <1>5, <1>6, <1>d DEF NewRow
<1> QED BY <1>7, <1>d

\* Only a commit makes an invoice recorded, and only its own.
LEMMA RecordedAfterCommit ==
  ASSUME TypeOK, NEW p \in Procs, Commit(p), NEW inv
  PROVE  Recorded(inv)' <=> (Recorded(inv) \/ inv = call[p].inv)
<1>1. PICK a \in Accounts, n \in Nat : a = call[p].acct /\ NewRow(p, a, n)
  BY CommitRows
<1>2. ASSUME NEW b \in Accounts, NEW k \in DOMAIN hist[b], hist[b][k].inv = inv
      PROVE  \E j \in DOMAIN hist'[b] : hist'[b][j].inv = inv
  <2>1. CASE b = a
    <3>1. k \in 1..(n - 1) /\ k \in 1..n
      BY <1>1, <1>2, <2>1 DEF NewRow
    <3> QED BY <1>1, <1>2, <2>1, <3>1 DEF NewRow
  <2>2. CASE b # a
    BY <1>1, <1>2, <2>2 DEF NewRow
  <2> QED BY <2>1, <2>2
<1>4. inv = call[p].inv => \E k \in DOMAIN hist'[a] : hist'[a][k].inv = inv
  <2>1. n \in DOMAIN hist'[a]
    BY <1>1 DEF NewRow
  <2> QED BY <1>1, <2>1 DEF NewRow
<1>5. ASSUME NEW b \in Accounts, NEW k \in DOMAIN hist'[b], hist'[b][k].inv = inv,
             inv # call[p].inv
      PROVE  \E j \in DOMAIN hist[b] : hist[b][j].inv = inv
  <2>1. CASE b = a
    <3>1. k # n
      BY <1>1, <1>5, <2>1 DEF NewRow
    <3>2. k \in 1..(n - 1) /\ k \in DOMAIN hist[b]
      BY <1>1, <1>5, <2>1, <3>1 DEF NewRow
    <3> QED BY <1>1, <1>5, <2>1, <3>2 DEF NewRow
  <2>2. CASE b # a
    BY <1>1, <1>5, <2>2 DEF NewRow
  <2> QED BY <2>1, <2>2
<1>6. Recorded(inv) \/ inv = call[p].inv => Recorded(inv)'
  BY <1>2, <1>4 DEF Recorded
<1>7. Recorded(inv)' => Recorded(inv) \/ inv = call[p].inv
  BY <1>5 DEF Recorded
<1> QED BY <1>6, <1>7

-----------------------------------------------------------------------------
\* LedgerInv holds initially and every step keeps it.
LEMMA InitLedgerInv == Init => LedgerInv
<1> SUFFICES ASSUME Init PROVE LedgerInv
  OBVIOUS
<1>1. TypeOK
  BY InitTypeOK
<1>2. PICK a \in Accounts, inv \in Invoices, amt \in Amounts :
        call = [p \in Procs |-> [pc |-> "idle", acct |-> a, inv |-> inv, amt |-> amt,
                                 view |-> 0, outcome |-> "none"]]
  BY DEF Init
<1>3. \A p \in Procs : call[p].pc = "idle"
  BY <1>2
<1>4. LockInv /\ ViewInv /\ InsertInv
  BY <1>3 DEF LockInv, ViewInv, InsertInv, Holds
<1>5. \A b \in Accounts : hist[b] = << >>
  BY DEF Init
<1>6. LedgerExplainsBalance
  BY <1>5 DEF Init, LedgerExplainsBalance, Explained, LastEnd
<1>7. OneRowPerInvoice
  BY <1>5 DEF OneRowPerInvoice
<1> QED BY <1>1, <1>4, <1>6, <1>7 DEF LedgerInv

\* A step that leaves the committed tables alone keeps what is said of them alone.
LEMMA TablesUnchanged ==
  ASSUME UNCHANGED <<balance, hist>>
  PROVE  /\ LedgerExplainsBalance => LedgerExplainsBalance'
         /\ OneRowPerInvoice => OneRowPerInvoice'
         /\ \A inv : Recorded(inv)' <=> Recorded(inv)
  BY DEF LedgerExplainsBalance, Explained, LastEnd, OneRowPerInvoice, Recorded

\* A transaction that ends without a commit keeps everything else as it was.
LEMMA ReturnInv ==
  ASSUME LedgerInv, TypeOK', NEW p \in Procs, NEW o \in Outcomes, Return(p, o),
         UNCHANGED <<balance, hist>>
  PROVE  LedgerInv'
<1> USE DEF LedgerInv
<1>1. /\ \A q \in Procs \ {p} : call'[q] = call[q]
      /\ call'[p].pc = "idle"
      /\ \A a \in Accounts : lock[a] # p => lock'[a] = lock[a]
  BY ReturnFrame DEF Others
<1>2. \A q \in Procs : call[q] \in Call
  BY DEF TypeOK
<1>3. LockInv'
  BY <1>1, <1>2, CallFields DEF LockInv, Holds
<1>4. ViewInv'
  BY <1>1 DEF ViewInv
<1>5. InsertInv'
  BY <1>1, TablesUnchanged DEF InsertInv
<1> QED BY <1>3, <1>4, <1>5, TablesUnchanged

LEMMA CommitInv ==
  ASSUME LedgerInv, TypeOK', NEW p \in Procs, Commit(p)
  PROVE  LedgerInv'
<1> USE DEF LedgerInv
<1>1. /\ \A q \in Procs \ {p} : call'[q] = call[q]
      /\ call'[p].pc = "idle"
      /\ \A a \in Accounts : lock[a] # p => lock'[a] = lock[a]
  BY ReturnFrame DEF Commit, Others, Outcomes
<1>2. \A q \in Procs : call[q].acct \in Accounts
  BY CallFields DEF TypeOK
<1>3. PICK a \in Accounts, n \in Nat : a = call[p].acct /\ NewRow(p, a, n)
  BY CommitRows
<1>4. /\ balance'[a] = call[p].view
      /\ \A b \in Accounts \ {a} : balance'[b] = balance[b]
  BY <1>3 DEF Commit, TypeOK
<1>5. lock[a] = p /\ call[p].view = balance[a] + call[p].amt
  BY <1>3 DEF LockInv, Holds, ViewInv, Commit
<1>6. LockInv'
  BY <1>1, <1>2 DEF LockInv, Holds
<1>7. ViewInv'
  <2> SUFFICES ASSUME NEW q \in Procs, call'[q].pc \in {"insert", "commit"}
               PROVE  call'[q].view = balance'[call'[q].acct] + call'[q].amt
    BY DEF ViewInv
  <2>1. q # p /\ call'[q] = call[q]
    BY <1>1
  <2>2. call[q].acct # a
    BY <1>5, <2>1 DEF LockInv, Holds
  <2> QED BY <1>2, <1>4, <2>1, <2>2 DEF ViewInv
<1>8. InsertInv'
  <2>1. ASSUME NEW q \in Procs, call'[q].pc = "commit"
        PROVE  q # p /\ call'[q] = call[q] /\ call[q].pc = "commit"
    BY <1>1, <2>1
  <2>2. ASSUME NEW q \in Procs, call'[q].pc = "commit"
        PROVE  ~Recorded(call[q].inv)'
    <3>1. PICK inv : inv = call[q].inv
      OBVIOUS
    <3>2. inv # call[p].inv /\ ~Recorded(inv)
      BY <2>1, <2>2, <3>1 DEF InsertInv, Commit
    <3>3. ~Recorded(inv)'
      BY <3>2, RecordedAfterCommit
    <3>4. call'[q].inv = inv
      BY <2>1, <2>2, <3>1
    <3> QED BY <3>3, <3>4 DEF Recorded
  <2>3. ASSUME NEW q \in Procs, call'[q].pc = "commit",
               NEW o \in Procs \ {q}, call'[o].pc = "commit"
        PROVE  call'[o].inv # call'[q].inv
    BY <2>1, <2>3 DEF InsertInv
  <2> QED BY <2>2, <2>3 DEF InsertInv
<1>9. LedgerExplainsBalance'
  <2> SUFFICES ASSUME NEW b \in Accounts
               PROVE  /\ balance'[b] = LastEnd(b)'
                      /\ \A k \in DOMAIN hist'[b] :
                            hist'[b][k].end = hist'[b][k].amt
                              + (IF k = 1 THEN Opening[b] ELSE hist'[b][k - 1].end)
    BY DEF LedgerExplainsBalance, Explained
  <2>1. CASE b # a
    BY <1>3, <1>4, <2>1 DEF NewRow, LedgerExplainsBalance, Explained, LastEnd
  <2>2. CASE b = a
    <3>1. LastEnd(b)' = hist'[a][n].end
      <4>1. hist'[a] # << >>
        BY <1>3 DEF NewRow
      <4> QED BY <1>3, <2>2, <4>1 DEF NewRow, LastEnd
    <3>2. balance[a] = IF n = 1 THEN Opening[a] ELSE hist'[a][n - 1].end
      <4>1. CASE n = 1
        <5>1. hist[a] = << >>
          BY <1>3, <4>1, EmptySeq DEF NewRow, TypeOK
        <5> QED BY <4>1, <5>1 DEF LedgerExplainsBalance, Explained, LastEnd
      <4>2. CASE n # 1
        <5>1. n - 1 \in 1..(n - 1) /\ hist[a] # << >>
          BY <1>3, <4>2, EmptySeq DEF NewRow
        <5>2. balance[a] = hist[a][n - 1].end
          BY <1>3, <5>1 DEF NewRow, LedgerExplainsBalance, Explained, LastEnd
        <5> QED BY <1>3, <4>2, <5>1, <5>2 DEF NewRow
      <4> QED BY <4>1, <4>2
    <3>3. hist'[a][n].end = balance[a] + hist'[a][n].amt
      BY <1>3, <1>5 DEF NewRow
    <3>4. ASSUME NEW k \in DOMAIN hist'[a], k # n
          PROVE  hist'[a][k].end = hist'[a][k].amt
                   + (IF k = 1 THEN Opening[a] ELSE hist'[a][k - 1].end)
      <4>1. k \in 1..(n - 1) /\ k \in DOMAIN hist[a]
        BY <1>3, <3>4 DEF NewRow
      <4>2. k # 1 => k - 1 \in 1..(n - 1)
        BY <1>3, <4>1
      <4>3. hist[a][k].end = hist[a][k].amt
                  + (IF k = 1 THEN Opening[a] ELSE hist[a][k - 1].end)
        BY <4>1 DEF LedgerExplainsBalance, Explained
      <4>4. hist'[a][k] = hist[a][k] /\ (k # 1 => hist'[a][k - 1] = hist[a][k - 1])
        BY <1>3, <4>1, <4>2 DEF NewRow
      <4> QED BY <4>3, <4>4
    <3>5. call[p].amt \in Int /\ balance[a] \in Int
      BY CallFields DEF TypeOK
    <3>6. hist'[a][n].end = hist'[a][n].amt + balance[a]
      BY <1>3, <3>3, <3>5 DEF NewRow
    <3>7. balance'[b] = LastEnd(b)'
      BY <1>3, <1>4, <2>2, <3>1 DEF NewRow
    <3>8. ASSUME NEW k \in DOMAIN hist'[a]
          PROVE  hist'[a][k].end = hist'[a][k].amt
                   + (IF k = 1 THEN Opening[a] ELSE hist'[a][k - 1].end)
      BY <3>2, <3>4, <3>6
    <3> QED BY <2>2, <3>7, <3>8
  <2> QED BY <2>1, <2>2
<1>10. OneRowPerInvoice'
  <2>1. ~Recorded(call[p].inv)
    BY DEF InsertInv, Commit
  <2>2. ASSUME NEW b \in Accounts, NEW k \in DOMAIN hist'[b], ~(b = a /\ k = n)
        PROVE  k \in DOMAIN hist[b] /\ hist'[b][k] = hist[b][k]
    BY <1>3, <2>2 DEF NewRow
  <2>3. ASSUME NEW b \in Accounts, NEW k \in DOMAIN hist'[b], ~(b = a /\ k = n)
        PROVE  hist'[b][k].inv # hist'[a][n].inv
    BY <1>3, <2>1, <2>2, <2>3 DEF NewRow, Recorded
  <2> SUFFICES ASSUME NEW b \in Accounts, NEW d \in Accounts,
                      NEW j \in DOMAIN hist'[b], NEW k \in DOMAIN hist'[d],
                      hist'[b][j].inv = hist'[d][k].inv
               PROVE  b = d /\ j = k
    BY DEF OneRowPerInvoice
  <2>4. CASE b = a /\ j = n
    BY <2>3, <2>4
  <2>5. CASE d = a /\ k = n
    BY <2>3, <2>5
  <2>6. CASE ~(b = a /\ j = n) /\ ~(d = a /\ k = n)
    <3>1. /\ j \in DOMAIN hist[b] /\ hist'[b][j] = hist[b][j]
          /\ k \in DOMAIN hist[d] /\ hist'[d][k] = hist[d][k]
      BY <2>2, <2>6
    <3> QED BY <3>1 DEF OneRowPerInvoice
  <2> QED BY <2>4, <2>5, <2>6
<1> QED BY <1>6, <1>7, <1>8, <1>9, <1>10

\* A call that only moves on inside its transaction (p's record and lock change).
LEMMA MoveFrame ==
  ASSUME TypeOK, NEW p \in Procs, NEW pc \in Pcs, call' = [call EXCEPT ![p].pc = pc]
  PROVE  /\ \A q \in Procs \ {p} : call'[q] = call[q]
         /\ call'[p].pc = pc
         /\ call'[p].acct = call[p].acct
         /\ call'[p].inv = call[p].inv
         /\ call'[p].amt = call[p].amt
         /\ call'[p].view = call[p].view
         /\ call'[p].outcome = call[p].outcome
<1>1. call'[p] = [call[p] EXCEPT !.pc = pc]
  BY DEF TypeOK
<1>2. call[p] \in Call
  BY DEF TypeOK
<1>3. call'[p].pc = pc /\ call'[p].acct = call[p].acct /\ call'[p].inv = call[p].inv
  BY <1>1, <1>2 DEF Call
<1>4. call'[p].amt = call[p].amt /\ call'[p].view = call[p].view
      /\ call'[p].outcome = call[p].outcome
  BY <1>1, <1>2 DEF Call
<1> QED BY <1>3, <1>4 DEF TypeOK

LEMMA NextLedgerInv == LedgerInv /\ [Next]_vars => LedgerInv'
<1> SUFFICES ASSUME LedgerInv, [Next]_vars PROVE LedgerInv'
  OBVIOUS
<1>0. TypeOK'
  BY NextTypeOK DEF LedgerInv
<1>t. \A q \in Procs : call[q] \in Call /\ call[q].acct \in Accounts
  BY CallFields DEF LedgerInv, TypeOK
<1> USE DEF LedgerInv
<1>1. ASSUME NEW p \in Procs, NEW a \in Accounts, NEW inv \in Invoices, NEW amt \in Amounts,
             Begin(p, a, inv, amt)
      PROVE  LedgerInv'
  <2>1. call'[p].pc = "lookup" /\ \A q \in Procs \ {p} : call'[q] = call[q]
    BY <1>1 DEF Begin, TypeOK
  <2>2. LockInv' /\ ViewInv' /\ InsertInv'
    BY <1>1, <2>1, TablesUnchanged DEF Begin, LockInv, ViewInv, InsertInv, Holds
  <2> QED BY <1>0, <1>1, <2>2, TablesUnchanged DEF Begin
<1>2. ASSUME NEW p \in Procs, Lookup(p) PROVE LedgerInv'
  <2>1. CASE Return(p, "existing")
    BY <1>0, <1>2, <2>1, ReturnInv DEF Lookup, Outcomes
  <2>2. CASE call' = [call EXCEPT ![p].pc = "lock"] /\ UNCHANGED lock
    <3>1. call'[p].pc = "lock" /\ \A q \in Procs \ {p} : call'[q] = call[q]
      BY <2>2, MoveFrame DEF Pcs
    <3>2. LockInv' /\ ViewInv' /\ InsertInv'
      BY <1>2, <2>2, <3>1, TablesUnchanged DEF Lookup, LockInv, ViewInv, InsertInv, Holds
    <3> QED BY <1>0, <1>2, <3>2, TablesUnchanged DEF Lookup
  <2> QED BY <1>2, <2>1, <2>2 DEF Lookup
<1>3. ASSUME NEW p \in Procs, LockRow(p) PROVE LedgerInv'
  <2>1. /\ call'[p].pc = "workspace" /\ call'[p].acct = call[p].acct
        /\ \A q \in Procs \ {p} : call'[q] = call[q]
    BY <1>3, MoveFrame DEF LockRow, Pcs
  <2>2. ViewInv' /\ InsertInv'
    BY <1>3, <2>1, TablesUnchanged DEF LockRow, ViewInv, InsertInv
  <2>3. LockInv'
    BY <1>t, <1>3, <2>1 DEF LockRow, LockInv, Holds, TypeOK
  <2> QED BY <1>0, <1>3, <2>2, <2>3, TablesUnchanged DEF LockRow
<1>4. ASSUME NEW p \in Procs, LockWorkspace(p) PROVE LedgerInv'
  <2>1. call'[p] = [call[p] EXCEPT !.pc = "insert", !.view = balance[call[p].acct] + call[p].amt]
    BY <1>4 DEF LockWorkspace, TypeOK
  <2>2. /\ call'[p].pc = "insert" /\ call'[p].acct = call[p].acct
        /\ call'[p].view = balance[call[p].acct] + call[p].amt /\ call'[p].amt = call[p].amt
    BY <1>t, <2>1 DEF Call
  <2>3. \A q \in Procs \ {p} : call'[q] = call[q]
    BY <1>4 DEF LockWorkspace, TypeOK
  <2>4. ViewInv' /\ InsertInv'
    BY <1>4, <2>2, <2>3, TablesUnchanged DEF LockWorkspace, ViewInv, InsertInv
  <2>5. LockInv'
    <3>1. lock' = [lock EXCEPT ![WorkspaceOf[call[p].acct]] = p]
      BY <1>4 DEF LockWorkspace
    <3>2. lock[WorkspaceOf[call[p].acct]] \in {NoProc, p}
      BY <1>4 DEF LockWorkspace
    <3>3. lock[call[p].acct] = p
      BY <1>4 DEF LockWorkspace, LockInv, Holds
    <3>4. WorkspaceOf[call[p].acct] \in Accounts
      BY <1>t
    <3>5. \A a \in Accounts : lock[a] \notin {NoProc, p} => lock'[a] = lock[a]
      BY <3>1, <3>2, <3>4 DEF TypeOK
    <3>6. lock'[call[p].acct] = p
      BY <1>t, <3>1, <3>3 DEF TypeOK
    <3>7. ASSUME NEW q \in Procs \ {p}, call[q].pc \in {"workspace", "insert", "commit"}
          PROVE  lock'[call[q].acct] = q
      BY <1>t, <3>5, <3>7 DEF LockInv, Holds
    <3> QED BY <2>2, <2>3, <3>6, <3>7 DEF LockInv, Holds
  <2> QED BY <1>0, <1>4, <2>4, <2>5, TablesUnchanged DEF LockWorkspace
<1>5. ASSUME NEW p \in Procs, InsertRow(p) PROVE LedgerInv'
  <2>1. /\ call'[p].pc = "commit" /\ call'[p].acct = call[p].acct /\ call'[p].inv = call[p].inv
        /\ call'[p].view = call[p].view /\ call'[p].amt = call[p].amt
        /\ \A q \in Procs \ {p} : call'[q] = call[q]
    BY <1>5, MoveFrame DEF InsertRow, Pcs
  <2>2. ViewInv' /\ LockInv'
    BY <1>5, <2>1 DEF InsertRow, ViewInv, LockInv, Holds
  <2>3. InsertInv'
    BY <1>5, <2>1, TablesUnchanged DEF InsertRow, InsertInv, InFlight
  <2> QED BY <1>0, <1>5, <2>2, <2>3, TablesUnchanged DEF InsertRow
<1>6. ASSUME NEW p \in Procs, InsertConflict(p) PROVE LedgerInv'
  BY <1>0, <1>6, ReturnInv DEF InsertConflict, Outcomes
<1>7. ASSUME NEW p \in Procs, Commit(p) PROVE LedgerInv'
  BY <1>0, <1>7, CommitInv
<1>8. ASSUME NEW p \in Procs, Abort(p) PROVE LedgerInv'
  BY <1>0, <1>8, ReturnInv DEF Abort, Outcomes
<1>9. CASE UNCHANGED vars
  <2>1. LockInv' /\ ViewInv' /\ InsertInv'
    BY <1>9, TablesUnchanged DEF vars, LockInv, ViewInv, InsertInv, Holds
  <2> QED BY <1>0, <1>9, <2>1, TablesUnchanged DEF vars
<1> QED BY <1>1, <1>2, <1>3, <1>4, <1>5, <1>6, <1>7, <1>8, <1>9 DEF Next, Step

\* At every moment each balance is the last end_balance of a chain that the recorded
\* amounts explain, no invoice is recorded twice, and whoever has written a balance
\* holds the row it wrote.
THEOREM LedgerCorrect == Spec => []LedgerInv
  BY InitLedgerInv, NextLedgerInv, PTL DEF Spec

\* The same for the invariant a reader cares about most: whatever webhooks, runs and
\* retries do at once, an invoice changes one balance once.
THEOREM InvoiceOnce == Spec => []OneRowPerInvoice
<1>1. LedgerInv => OneRowPerInvoice
  BY DEF LedgerInv
<1> QED BY <1>1, LedgerCorrect, PTL

-----------------------------------------------------------------------------
\* A call that returned a row, its own or one found by invoice id, left the invoice
\* recorded, and no later step of anybody takes it away.
LEMMA NextReturnMeansRecorded ==
  LedgerInv /\ ReturnMeansRecorded /\ [Next]_vars => ReturnMeansRecorded'
<1> SUFFICES ASSUME LedgerInv, ReturnMeansRecorded, [Next]_vars PROVE ReturnMeansRecorded'
  OBVIOUS
<1>t. TypeOK /\ \A q \in Procs : call[q] \in Call
  BY DEF LedgerInv, TypeOK
\* It is enough that the process that moves keeps its word and no row disappears.
<1>0. ASSUME NEW p \in Procs, \A q \in Procs \ {p} : call'[q] = call[q],
             \A inv : Recorded(inv) => Recorded(inv)',
             call'[p].outcome \in {"new", "existing"} => Recorded(call[p].inv)',
             call'[p].inv = call[p].inv \/ call'[p].outcome = "none"
      PROVE  ReturnMeansRecorded'
  <2> SUFFICES ASSUME NEW q \in Procs, call'[q].outcome \in {"new", "existing"}
               PROVE  Recorded(call[q].inv)'
    BY DEF ReturnMeansRecorded
  <2>1. CASE q = p
    BY <1>0, <2>1
  <2>2. CASE q # p
    <3>1. PICK inv : inv = call[q].inv
      OBVIOUS
    <3>2. Recorded(inv) /\ call'[q].inv = inv
      BY <1>0, <2>2, <3>1 DEF ReturnMeansRecorded
    <3> QED BY <1>0, <3>2 DEF Recorded
  <2> QED BY <2>1, <2>2
\* A step of p that leaves the rows, p's invoice and p's outcome as they were.
<1>m. ASSUME NEW p \in Procs, \A q \in Procs \ {p} : call'[q] = call[q], UNCHANGED hist,
             call'[p].inv = call[p].inv, call'[p].outcome = call[p].outcome
      PROVE  ReturnMeansRecorded'
  BY <1>m DEF ReturnMeansRecorded, Recorded
<1>1. ASSUME NEW p \in Procs, NEW a \in Accounts, NEW inv \in Invoices, NEW amt \in Amounts,
             Begin(p, a, inv, amt)
      PROVE  ReturnMeansRecorded'
  <2>1. call'[p].outcome = "none" /\ \A q \in Procs \ {p} : call'[q] = call[q]
    BY <1>1, <1>t DEF Begin, TypeOK
  <2> QED BY <1>1, <2>1, <1>0 DEF Begin, Recorded
<1>2. ASSUME NEW p \in Procs, Lookup(p) PROVE ReturnMeansRecorded'
  <2>1. CASE Return(p, "existing") /\ Recorded(call[p].inv)
    <3>1. call'[p].inv = call[p].inv /\ \A q \in Procs \ {p} : call'[q] = call[q]
      BY <1>t, <2>1, ReturnFrame DEF Others, Outcomes
    <3> QED BY <1>2, <2>1, <3>1, <1>0 DEF Lookup, Recorded
  <2>2. CASE call' = [call EXCEPT ![p].pc = "lock"] /\ UNCHANGED lock
    BY <1>m, <1>t, <1>2, <2>2, MoveFrame DEF Lookup, Pcs
  <2> QED BY <1>2, <2>1, <2>2 DEF Lookup
<1>3. ASSUME NEW p \in Procs, LockRow(p) PROVE ReturnMeansRecorded'
  BY <1>m, <1>t, <1>3, MoveFrame DEF LockRow, Pcs
<1>4. ASSUME NEW p \in Procs, LockWorkspace(p) PROVE ReturnMeansRecorded'
  <2>1. call'[p] = [call[p] EXCEPT !.pc = "insert", !.view = balance[call[p].acct] + call[p].amt]
    BY <1>4, <1>t DEF LockWorkspace, TypeOK
  <2>2. call'[p].inv = call[p].inv /\ call'[p].outcome = call[p].outcome
    BY <1>t, <2>1 DEF Call
  <2>3. \A q \in Procs \ {p} : call'[q] = call[q]
    BY <1>4, <1>t DEF LockWorkspace, TypeOK
  <2> QED BY <1>m, <1>4, <2>2, <2>3 DEF LockWorkspace
<1>5. ASSUME NEW p \in Procs, InsertRow(p) PROVE ReturnMeansRecorded'
  BY <1>m, <1>t, <1>5, MoveFrame DEF InsertRow, Pcs
<1>6. ASSUME NEW p \in Procs, NEW o \in {"broken", "failed"}, Return(p, o), UNCHANGED hist
      PROVE  ReturnMeansRecorded'
  <2>1. /\ call'[p].inv = call[p].inv /\ call'[p].outcome = o
        /\ \A q \in Procs \ {p} : call'[q] = call[q]
    BY <1>t, <1>6, ReturnFrame DEF Others, Outcomes
  <2> QED BY <1>6, <2>1, <1>0 DEF Recorded
<1>7. ASSUME NEW p \in Procs, Commit(p) PROVE ReturnMeansRecorded'
  <2>1. call'[p].inv = call[p].inv /\ \A q \in Procs \ {p} : call'[q] = call[q]
    BY <1>t, <1>7, ReturnFrame DEF Commit, Others, Outcomes
  <2>2. PICK inv : inv = call[p].inv
    OBVIOUS
  <2>3. Recorded(inv)'
    BY <1>t, <1>7, <2>2, RecordedAfterCommit
  <2>4. Recorded(call[p].inv)'
    BY <2>1, <2>2, <2>3 DEF Recorded
  <2>5. \A i : Recorded(i) => Recorded(i)'
    BY <1>t, <1>7, RecordedAfterCommit
  <2> QED BY <2>1, <2>4, <2>5, <1>0
<1>9. CASE UNCHANGED vars
  BY <1>9 DEF vars, ReturnMeansRecorded, Recorded
<1> QED BY <1>1, <1>2, <1>3, <1>4, <1>5, <1>6, <1>7, <1>9
        DEF Next, Step, InsertConflict, Abort

THEOREM ReturnsAreRecorded == Spec => []ReturnMeansRecorded
<1>1. Init => ReturnMeansRecorded
  BY DEF Init, ReturnMeansRecorded
<1> QED BY <1>1, NextReturnMeansRecorded, LedgerCorrect, PTL DEF Spec

-----------------------------------------------------------------------------
\* Every transaction is one atomic Credit of CreditLedger, at its commit.
LEMMA InitImplements == Init => Abstract!CreditInit
  BY DEF Init, Abstract!CreditInit

LEMMA CommitImplements ==
  ASSUME LedgerInv, NEW p \in Procs, Commit(p)
  PROVE  Abstract!CreditNext
<1> DEFINE c == call[p]
<1>1. c.acct \in Accounts /\ c.inv \in Invoices /\ c.amt \in Amounts
  BY DEF LedgerInv, TypeOK, Call
<1>2. ~Recorded(c.inv)
  BY DEF LedgerInv, InsertInv, Commit
<1>3. c.view = balance[c.acct] + c.amt
  BY DEF LedgerInv, ViewInv, Commit
<1>4. Abstract!Credit(c.acct, c.amt, c.inv)
  BY <1>2, <1>3 DEF Commit, Abstract!Credit, Abstract!Recorded, Recorded
<1> QED BY <1>1, <1>4 DEF Abstract!CreditNext

LEMMA NextImplements == LedgerInv /\ [Next]_vars => [Abstract!CreditNext]_(Abstract!cvars)
<1> SUFFICES ASSUME LedgerInv, [Next]_vars
             PROVE  Abstract!CreditNext \/ UNCHANGED <<balance, hist>>
  BY DEF Abstract!cvars
<1>1. CASE UNCHANGED vars
  BY <1>1 DEF vars
<1>2. ASSUME NEW p \in Procs, Commit(p) PROVE Abstract!CreditNext
  BY <1>2, CommitImplements
<1>3. ASSUME NEW p \in Procs,
             \/ \E a \in Accounts, inv \in Invoices, amt \in Amounts : Begin(p, a, inv, amt)
             \/ Lookup(p) \/ LockRow(p) \/ LockWorkspace(p)
             \/ InsertRow(p) \/ InsertConflict(p) \/ Abort(p)
      PROVE  UNCHANGED <<balance, hist>>
  BY <1>3 DEF Begin, Lookup, LockRow, LockWorkspace, InsertRow, InsertConflict, Abort
<1> QED BY <1>1, <1>2, <1>3 DEF Next, Step

THEOREM LedgerImplementsCredit == Spec => ImplementsLedger
  BY InitImplements, NextImplements, LedgerCorrect, PTL
     DEF Spec, ImplementsLedger, Abstract!CreditSpec

-----------------------------------------------------------------------------
(* The balance is the sum of the rows' amounts.  The running sum of SumAmounts *)
(* is the rows' end_balance less the opening balance: that function satisfies  *)
(* its recursive definition, and no other does, because of two that do and     *)
(* differ there is a first place where they differ.                            *)

\* f is the running sum of the amounts of s.
Sums(f, s) == f = [k \in 0 .. Len(s) |-> IF k = 0 THEN 0 ELSE f[k - 1] + s[k].amt]

Before == {ss \in Nat \X Nat : ss[1] < ss[2]}

LEMMA SumsUnique ==
  ASSUME NEW s \in Seq(Row), NEW f, NEW g, Sums(f, s), Sums(g, s)
  PROVE  f[Len(s)] = g[Len(s)]
<1> DEFINE n == Len(s)
           differ == {k \in 0 .. n : f[k] # g[k]}
<1>1. n \in Nat
  BY LenProperties
<1>2. /\ \A k \in 0 .. n : f[k] = IF k = 0 THEN 0 ELSE f[k - 1] + s[k].amt
      /\ \A k \in 0 .. n : g[k] = IF k = 0 THEN 0 ELSE g[k - 1] + s[k].amt
  BY <1>1 DEF Sums
<1> HIDE DEF n
<1>3. differ = {}
  <2> SUFFICES ASSUME differ # {} PROVE FALSE
    OBVIOUS
  <2>1. differ \in SUBSET Nat
    BY <1>1
  <2>2. IsWellFoundedOn(Before, Nat)
    BY NatLessThanWellFounded DEF OpToRel, Before
  <2>3. \E m \in differ : \A k \in differ : ~ (<<k, m>> \in Before)
    BY <2>1, <2>2, WFMin
  <2>4. PICK m \in differ : \A k \in differ : ~ (k < m)
    BY <2>1, <2>3 DEF Before
  <2>5. m # 0
    BY <1>2, <2>4
  <2>6. m - 1 \in 0 .. n /\ m - 1 < m
    BY <1>1, <2>4, <2>5
  <2>7. f[m - 1] = g[m - 1]
    BY <2>4, <2>6
  <2>8. f[m] = f[m - 1] + s[m].amt /\ g[m] = g[m - 1] + s[m].amt
    BY <1>2, <2>4, <2>5
  <2> QED  BY <2>4, <2>7, <2>8
<1>4. n \in 0 .. n
  BY <1>1
<1> QED  BY <1>3, <1>4 DEF n

LEMMA SumIsEnd ==
  ASSUME NEW s \in Seq(Row), NEW o \in Int,
         \A k \in DOMAIN s : s[k].end = s[k].amt + (IF k = 1 THEN o ELSE s[k - 1].end)
  PROVE  SumAmounts(s) = IF s = << >> THEN 0 ELSE s[Len(s)].end - o
<1> DEFINE n == Len(s)
           g == [k \in 0 .. n |-> IF k = 0 THEN 0 ELSE s[k].end - o]
           sum == CHOOSE f : Sums(f, s)
<1>1. n \in Nat /\ DOMAIN s = 1 .. n
  BY LenProperties
<1>2. \A k \in 1 .. n : s[k].end \in Int /\ s[k].amt \in Int
  <2>1. \A r \in Row : r.end \in Int /\ r.amt \in Int
    BY DEF Row
  <2>2. \A k \in 1 .. n : s[k] \in Row
    BY <1>1, ElementOfSeq
  <2> QED  BY <2>1, <2>2
<1>3. ASSUME NEW k \in 0 .. n PROVE g[k] = IF k = 0 THEN 0 ELSE g[k - 1] + s[k].amt
  <2>1. CASE k = 0
    BY <1>3, <2>1
  <2>2. CASE k = 1
    <3>1. 0 \in 0 .. n /\ 1 \in 0 .. n /\ 1 \in 1 .. n
      BY <1>1, <1>3, <2>2
    <3>2. g[0] = 0 /\ g[1] = s[1].end - o
      BY <3>1
    <3>3. s[1].end = s[1].amt + o
      BY <1>1, <3>1
    <3> QED  BY <1>2, <2>2, <3>1, <3>2, <3>3
  <2>3. CASE k > 1
    <3>1. k - 1 \in 0 .. n /\ k \in 1 .. n /\ k - 1 \in 1 .. n
      BY <1>1, <1>3, <2>3
    <3>2. g[k - 1] = s[k - 1].end - o /\ g[k] = s[k].end - o
      BY <1>3, <2>3, <3>1
    <3>3. s[k].end = s[k].amt + s[k - 1].end
      BY <1>1, <2>3, <3>1
    <3> QED  BY <1>2, <2>3, <3>1, <3>2, <3>3
  <2> QED  BY <1>1, <1>3, <2>1, <2>2, <2>3
<1>4. Sums(g, s)
  BY <1>3 DEF Sums
<1>5. Sums(sum, s)
  BY <1>4
<1>6. SumAmounts(s) = sum[n]
  BY DEF SumAmounts, Sums
<1>7. sum[n] = g[n]
  BY <1>4, <1>5, SumsUnique
<1>8. g[n] = IF n = 0 THEN 0 ELSE s[n].end - o
  BY <1>1
<1>9. n = 0 <=> s = << >>
  BY EmptySeq
<1> QED  BY <1>6, <1>7, <1>8, <1>9

\* In every state the balance is the opening balance plus the amounts of all the rows
\* that were recorded, whatever their number and however the calls interleave.
THEOREM BalanceAddsUp == Spec => []BalanceIsSum
<1>1. LedgerInv => BalanceIsSum
  <2> SUFFICES ASSUME LedgerInv, NEW a \in Accounts
               PROVE  balance[a] = Opening[a] + SumAmounts(hist[a])
    BY DEF BalanceIsSum
  <2>1. hist[a] \in Seq(Row) /\ balance[a] \in Int /\ Opening[a] \in Int
    BY DEF LedgerInv, TypeOK
  <2>2. /\ balance[a] = LastEnd(a)
        /\ \A k \in DOMAIN hist[a] :
              hist[a][k].end = hist[a][k].amt
                               + (IF k = 1 THEN Opening[a] ELSE hist[a][k - 1].end)
    BY DEF LedgerInv, LedgerExplainsBalance, Explained
  <2>3. SumAmounts(hist[a]) =
          IF hist[a] = << >> THEN 0 ELSE hist[a][Len(hist[a])].end - Opening[a]
    BY <2>1, <2>2, SumIsEnd
  <2>4. CASE hist[a] = << >>
    BY <2>1, <2>2, <2>3, <2>4 DEF LastEnd
  <2>5. CASE hist[a] # << >>
    <3>1. balance[a] = hist[a][Len(hist[a])].end
      BY <2>2, <2>5 DEF LastEnd
    <3> QED  BY <2>1, <2>3, <2>5, <3>1
  <2> QED  BY <2>4, <2>5
<1> QED  BY <1>1, LedgerCorrect, PTL
=============================================================================
