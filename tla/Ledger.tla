------------------------------- MODULE Ledger -------------------------------
(* Workspace.add_balance / add_balance_raw and WorkspaceMembership.add_balance *)
(* (workspaces/models.py) as Postgres runs them: many web and celery processes *)
(* each run one database transaction per call, at READ COMMITTED, with row     *)
(* locks and a unique index on AppUserTransaction.invoice_id.  Both methods    *)
(* have the same control, so an account is either row; the member's            *)
(* select_for_update() joins its workspace and so locks that row as well.      *)
EXTENDS Integers, Sequences

CONSTANTS
    Accounts,  \* workspace and membership rows
    WorkspaceOf, \* the workspace of a membership; a workspace is its own
    Invoices,  \* invoice ids callers may pass
    Amounts,   \* amounts callers may pass, negative for a deduction
    Procs,     \* processes that may be inside add_balance at the same time
    Opening,   \* the balance each row is created with (free credits)
    NoProc     \* "nobody holds the lock"

ASSUME LedgerAssumption ==
    /\ Amounts \subseteq Int
    /\ Opening \in [Accounts -> Int]
    /\ WorkspaceOf \in [Accounts -> Accounts]
    /\ \A a \in Accounts : WorkspaceOf[WorkspaceOf[a]] = WorkspaceOf[a]
    /\ NoProc \notin Procs

VARIABLES
    balance,   \* committed balance per account
    hist,      \* committed AppUserTransaction rows per account, oldest first
    lock,      \* lock[a]: the process whose transaction holds a's row lock
    call       \* call[p]: the call process p is in, or the last one it finished

vars == <<balance, hist, lock, call>>

Row == [inv : Invoices, amt : Int, end : Int]

Call == [pc      : {"idle", "lookup", "lock", "workspace", "insert", "commit"},
         acct    : Accounts,
         inv     : Invoices,
         amt     : Amounts,
         view    : Int,     \* workspace.balance as the transaction has written it
         outcome : {"none", "new", "existing", "broken", "failed"}]

-----------------------------------------------------------------------------
Recorded(inv) == \E a \in Accounts : \E k \in DOMAIN hist[a] : hist[a][k].inv = inv

\* Another transaction has inserted the invoice id and has not ended: Postgres
\* makes a second insert of the same key wait for it.
InFlight(p, inv) ==
    \E q \in Procs \ {p} : call[q].pc = "commit" /\ call[q].inv = inv

\* Mutant of Return: the connection is handed back with its transaction still open.
ReturnInTransaction(p, outcome) ==
    /\ UNCHANGED lock
    /\ call' = [call EXCEPT ![p] = [@ EXCEPT !.pc = "idle", !.outcome = outcome]]

\* The transaction ends, one way or another, and with it the row locks.
Return(p, outcome) ==
    /\ lock' = [a \in Accounts |-> IF lock[a] = p THEN NoProc ELSE lock[a]]
    /\ call' = [call EXCEPT ![p] = [@ EXCEPT !.pc = "idle", !.outcome = outcome]]

Init ==
    /\ balance = Opening
    /\ hist = [a \in Accounts |-> << >>]
    /\ lock = [a \in Accounts |-> NoProc]
    /\ \E a \in Accounts, inv \in Invoices, amt \in Amounts :
          call = [p \in Procs |-> [pc |-> "idle", acct |-> a, inv |-> inv, amt |-> amt,
                                   view |-> 0, outcome |-> "none"]]

-----------------------------------------------------------------------------
\* A caller enters add_balance: the transaction begins.
Begin(p, a, inv, amt) ==
    /\ call[p].pc = "idle"
    /\ call' = [call EXCEPT ![p] = [pc |-> "lookup", acct |-> a, inv |-> inv, amt |-> amt,
                                    view |-> 0, outcome |-> "none"]]
    /\ UNCHANGED <<balance, hist, lock>>

\* AppUserTransaction.objects.get(invoice_id=...): return the row if there is one.
Lookup(p) ==
    /\ call[p].pc = "lookup"
    /\ IF Recorded(call[p].inv)
       THEN Return(p, "existing")
       ELSE call' = [call EXCEPT ![p].pc = "lock"] /\ UNCHANGED lock
    /\ UNCHANGED <<balance, hist>>

\* Mutant of LockRow: a plain get(pk), without select_for_update().
ReadRow(p) ==
    /\ call[p].pc = "lock"
    /\ call' = [call EXCEPT
                  ![p] = [@ EXCEPT !.pc = "insert",
                                   !.view = balance[call[p].acct] + call[p].amt]]
    /\ UNCHANGED <<balance, hist, lock>>

\* select_for_update().get(pk): wait for the row lock.
LockRow(p) ==
    /\ call[p].pc = "lock"
    /\ lock[call[p].acct] = NoProc
    /\ lock' = [lock EXCEPT ![call[p].acct] = p]
    /\ call' = [call EXCEPT ![p].pc = "workspace"]
    /\ UNCHANGED <<balance, hist>>

\* The join of the same statement locks the member's workspace too.  The locked row
\* is the latest committed one; the amount is added to its balance and
\* save(update_fields=["balance"]) writes it inside the transaction.
LockWorkspace(p) ==
    LET c == call[p]
        w == WorkspaceOf[c.acct]
    IN  /\ c.pc = "workspace"
        /\ lock[w] \in {NoProc, p}
        /\ lock' = [lock EXCEPT ![w] = p]
        /\ call' = [call EXCEPT
                       ![p] = [@ EXCEPT !.pc = "insert", !.view = balance[c.acct] + c.amt]]
        /\ UNCHANGED <<balance, hist>>

\* Mutant of InsertRow: invoice_id loses its unique index.
InsertDuplicate(p) ==
    /\ call[p].pc = "insert"
    /\ call' = [call EXCEPT ![p].pc = "commit"]
    /\ UNCHANGED <<balance, hist, lock>>

\* AppUserTransaction.objects.create(...) with the invoice id still free.
InsertRow(p) ==
    /\ call[p].pc = "insert"
    /\ ~Recorded(call[p].inv)
    /\ ~InFlight(p, call[p].inv)
    /\ call' = [call EXCEPT ![p].pc = "commit"]
    /\ UNCHANGED <<balance, hist, lock>>

\* Mutant of InsertConflict: the handler's get() works (a savepoint around create),
\* so the existing row is returned and the block commits the balance it has added.
ConflictCommits(p) ==
    /\ call[p].pc = "insert"
    /\ Recorded(call[p].inv)
    /\ balance' = [balance EXCEPT ![call[p].acct] = call[p].view]
    /\ Return(p, "existing")
    /\ UNCHANGED hist

\* The insert hits the unique index.  The IntegrityError marks the atomic block for
\* rollback, so the get() in its handler raises TransactionManagementError: the
\* balance written under the lock is rolled back and the caller sees the error.
InsertConflict(p) ==
    /\ call[p].pc = "insert"
    /\ Recorded(call[p].inv)
    /\ Return(p, "broken")
    /\ UNCHANGED <<balance, hist>>

\* The atomic block ends: the balance and the row become visible together.
Commit(p) ==
    LET c == call[p] IN
    /\ c.pc = "commit"
    /\ balance' = [balance EXCEPT ![c.acct] = c.view]
    /\ hist' = [hist EXCEPT ![c.acct] =
                  Append(@, [inv |-> c.inv, amt |-> c.amt, end |-> c.view])]
    /\ Return(p, "new")

\* Mutant of Abort: a failure is caught above add_balance and taken for a success.
AbortSwallowed(p) ==
    /\ call[p].pc # "idle"
    /\ Return(p, "existing")
    /\ UNCHANGED <<balance, hist>>

\* The process, its connection or the statement fails anywhere in the transaction.
Abort(p) ==
    /\ call[p].pc # "idle"
    /\ Return(p, "failed")
    /\ UNCHANGED <<balance, hist>>

Step(p) == \/ Lookup(p) \/ LockRow(p) \/ LockWorkspace(p)
           \/ InsertRow(p) \/ InsertConflict(p) \/ Commit(p)

Next ==
    \E p \in Procs :
        \/ \E a \in Accounts, inv \in Invoices, amt \in Amounts : Begin(p, a, inv, amt)
        \/ Step(p)
        \/ Abort(p)

Spec == Init /\ [][Next]_vars

\* Postgres queues the waiters of a row lock or of another insert and wakes them
\* when it ends, so one that could proceed again and again does; a process inside a
\* call keeps running; nothing makes a caller call again or a failure happen.
FairSpec == Spec /\ \A p \in Procs : /\ WF_vars(Lookup(p) \/ Commit(p))
                                     /\ SF_vars(LockRow(p))
                                     /\ SF_vars(LockWorkspace(p))
                                     /\ SF_vars(InsertRow(p) \/ InsertConflict(p))

-----------------------------------------------------------------------------
TypeOK ==
    /\ balance \in [Accounts -> Int]
    /\ hist \in [Accounts -> Seq(Row)]
    /\ lock \in [Accounts -> Procs \cup {NoProc}]
    /\ call \in [Procs -> Call]

\* Each row's end_balance is the previous one moved by the row's amount, and the
\* balance column is the last end_balance: the ledger explains the balance even
\* though many processes add and deduct at once (the code's reason for locking).
LastEnd(a) == IF hist[a] = << >> THEN Opening[a] ELSE hist[a][Len(hist[a])].end

Explained(a) ==
    /\ balance[a] = LastEnd(a)
    /\ \A k \in DOMAIN hist[a] :
          hist[a][k].end = hist[a][k].amt
                           + (IF k = 1 THEN Opening[a] ELSE hist[a][k - 1].end)

LedgerExplainsBalance == \A a \in Accounts : Explained(a)

\* The assertion of bots/tests.py test_add_balance and test_add_balance_txn: in
\* every state the balance is the opening balance plus all recorded amounts, however
\* the concurrent calls of add_balance interleave.
SumAmounts(rows) ==
    LET sum[k \in 0 .. Len(rows)] == IF k = 0 THEN 0 ELSE sum[k - 1] + rows[k].amt
    IN  sum[Len(rows)]

BalanceIsSum == \A a \in Accounts : balance[a] = Opening[a] + SumAmounts(hist[a])

\* However often a payment is delivered, and by however many processes at once,
\* its invoice is credited once ("avoid updating twice for same invoice").
OneRowPerInvoice ==
    \A a, b \in Accounts : \A j \in DOMAIN hist[a], k \in DOMAIN hist[b] :
        hist[a][j].inv = hist[b][k].inv => a = b /\ j = k

\* A call that returns without an exception leaves the invoice recorded: the
\* webhook handler may acknowledge the event, nothing will be lost.
ReturnMeansRecorded ==
    \A p \in Procs : call[p].outcome \in {"new", "existing"} => Recorded(call[p].inv)

\* The handler of the IntegrityError in add_balance_raw looks the row up again and
\* only raises "the original IntegrityError" if there is none, so a duplicate that
\* loses the race should return the winner's row like one that comes later.
DuplicateReturnsRow == \A p \in Procs : call[p].outcome # "broken"

\* No call waits for ever on the row lock or on another insert of its invoice id.
CallsEnd == \A p \in Procs : (call[p].pc # "idle") ~> (call[p].pc = "idle")

\* The locked, retried, crash-prone calls implement the atomic ledger: its state is what
\* has been committed, its only action is Commit, every other step is a stutter.
Abstract == INSTANCE CreditLedger WITH balance <- balance, hist <- hist
ImplementsLedger == Abstract!CreditSpec

-----------------------------------------------------------------------------
\* The inductive invariant.  Who is between LockRow and the end of its transaction
\* holds the row, alone; what it has written is the committed balance plus its
\* amount; two transactions never have the same invoice id inserted.
Holds(p) == call[p].pc \in {"workspace", "insert", "commit"}

LockInv == \A p \in Procs : Holds(p) => lock[call[p].acct] = p

ViewInv == \A p \in Procs : call[p].pc \in {"insert", "commit"} =>
                              call[p].view = balance[call[p].acct] + call[p].amt

InsertInv ==
    \A p \in Procs : call[p].pc = "commit" =>
        /\ ~Recorded(call[p].inv)
        /\ \A q \in Procs \ {p} : call[q].pc = "commit" => call[q].inv # call[p].inv

LedgerInv == TypeOK /\ LockInv /\ ViewInv /\ InsertInv /\ LedgerExplainsBalance /\ OneRowPerInvoice
=============================================================================
