------------------------- MODULE AutoRechargeProofs -------------------------
(* Proofs about AutoRecharge: its types, its inductive invariant RechargeInv,  *)
(* and what follows from it, for any number of processes, invoices and         *)
(* attempts and any size of a page, whoever dies where, and whatever Stripe    *)
(* collects or invoices by itself.                                             *)
EXTENDS AutoRecharge, SequenceTheorems, TLAPS

\* The pc is set to one of its values; the rest of the record is left as it was.
PC == {"idle", "wait", "budget", "fetch", "create", "finalize", "pay", "credit", "end"}

LEMMA GotoType ==
    ASSUME TypeOK, NEW p \in Procs, NEW x \in PC, Goto(p, x)
    PROVE  proc' \in [Procs -> Proc]
  BY DEF TypeOK, Goto, Proc, PC

LEMMA GotoRecord ==
    ASSUME TypeOK, NEW p \in Procs, NEW x, Goto(p, x)
    PROVE  /\ proc'[p].pc = x /\ proc'[p].key = proc[p].key /\ proc'[p].inv = proc[p].inv
           /\ \A q \in Procs \ {p} : proc'[q] = proc[q]
  BY DEF TypeOK, Goto, Proc

\* Invoices are numbered as Stripe made them.
LEMMA KnownIds ==
    ASSUME TypeOK
    PROVE  Len(invoice) \in Nat /\ Known \subseteq Ids /\ Page \subseteq Known
  BY RechargeAssumption DEF RechargeAssumption, TypeOK, Known, Ids, Page

\* The search for an invoice ends with one to pay, with none, or with a new one to make.
LEMMA FetchRecord ==
    ASSUME TypeOK, NEW p \in Procs, Fetch(p)
    PROVE  /\ UNCHANGED <<lock, invoice>> /\ proc[p].pc = "fetch"
           /\ proc'[p].key = proc[p].key
           /\ \A q \in Procs \ {p} : proc'[q] = proc[q]
           /\ \/ proc'[p].pc = "pay" /\ proc'[p].inv \in Known /\ Open(proc'[p].inv)
              \/ proc'[p].pc = "end"
              \/ /\ proc'[p].pc = "create"
                 /\ \A i \in Page : ~Open(i) /\ ~InCooldown(i)
<1>1. UNCHANGED <<lock, invoice>> /\ proc[p].pc = "fetch"
  BY DEF Fetch
<1>2. CASE \E i \in Page : Open(i) /\ PayFor(p, i)
  <2>1. PICK i \in Page : Open(i) /\ PayFor(p, i)
    BY <1>2
  <2>2. /\ proc'[p].pc = "pay" /\ proc'[p].inv = i /\ proc'[p].key = proc[p].key
        /\ \A q \in Procs \ {p} : proc'[q] = proc[q]
    BY <2>1 DEF TypeOK, Proc, PayFor
  <2>3. i \in Known
    BY KnownIds
  <2> QED  BY <1>1, <2>1, <2>2, <2>3
<1>3. CASE /\ \A i \in Page : ~Open(i)
           /\ Goto(p, IF \E i \in Page : InCooldown(i) THEN "end" ELSE "create")
  BY <1>1, <1>3, GotoRecord
<1> QED  BY <1>2, <1>3 DEF Fetch

\* Amounts of invoices are dollars.
LEMMA AmountType ==
    ASSUME TypeOK, NEW i \in Known
    PROVE  invoice[i].amount \in Int
<1>1. invoice[i] \in Invoice
  BY DEF TypeOK, Known
<1>2. invoice[i].amount \in Topups \cup {0}
  BY <1>1 DEF Invoice
<1>3. \A x \in Topups \cup {0} : x \in Int
  BY RechargeAssumption DEF RechargeAssumption
<1> QED  BY <1>2, <1>3

\* One invoice is updated, the others and their order stay.
LEMMA UpdateRecord ==
    ASSUME TypeOK, NEW i \in Known, NEW e \in Invoice, invoice' = [invoice EXCEPT ![i] = e]
    PROVE  /\ invoice' \in Seq(Invoice) /\ Len(invoice') = Len(invoice)
           /\ invoice'[i] = e
           /\ \A j \in Known \ {i} : invoice'[j] = invoice[j]
<1>1. invoice \in Seq(Invoice) /\ i \in 1 .. Len(invoice)
  BY DEF TypeOK, Known
<1>2. /\ [invoice EXCEPT ![i] = e] \in Seq(Invoice)
      /\ Len([invoice EXCEPT ![i] = e]) = Len(invoice)
      /\ \A j \in 1 .. Len(invoice) :
            [invoice EXCEPT ![i] = e][j] = IF j = i THEN e ELSE invoice[j]
  BY <1>1, ExceptSeq
<1> QED  BY <1>1, <1>2 DEF Known

\* A new status, everything else of the invoice as it was.
LEMMA StatusRecord ==
    ASSUME TypeOK, NEW i \in Known, NEW x \in {"draft", "open", "paid"},
           invoice' = [invoice EXCEPT ![i].status = x]
    PROVE  /\ invoice' \in Seq(Invoice) /\ Len(invoice') = Len(invoice)
           /\ invoice'[i].status = x /\ invoice'[i].key = invoice[i].key
           /\ invoice'[i].fresh = invoice[i].fresh
           /\ \A j \in Known \ {i} : invoice'[j] = invoice[j]
<1> DEFINE e == [invoice[i] EXCEPT !.status = x]
<1>1. invoice[i] \in Invoice
  BY DEF TypeOK, Known
<1>2. /\ e \in Invoice /\ e.status = x /\ e.key = invoice[i].key
      /\ e.fresh = invoice[i].fresh
  BY <1>1 DEF Invoice
<1>3. invoice' = [invoice EXCEPT ![i] = e]
  OBVIOUS
<1>4. /\ invoice' \in Seq(Invoice) /\ Len(invoice') = Len(invoice) /\ invoice'[i] = e
      /\ \A j \in Known \ {i} : invoice'[j] = invoice[j]
  BY <1>2, <1>3, UpdateRecord
<1> QED  BY <1>2, <1>4

\* A cooldown passes, everything else of the invoice as it was.
LEMMA AgeRecord ==
    ASSUME TypeOK, NEW i \in Ids, Age(i)
    PROVE  /\ invoice' \in Seq(Invoice) /\ Len(invoice') = Len(invoice) /\ i \in Known
           /\ invoice'[i].status = invoice[i].status /\ invoice'[i].key = invoice[i].key
           /\ ~invoice'[i].fresh
           /\ \A j \in Known \ {i} : invoice'[j] = invoice[j]
<1> DEFINE e == [invoice[i] EXCEPT !.fresh = FALSE]
<1>1. invoice[i] \in Invoice /\ i \in Known
  BY DEF TypeOK, Known, Age
<1>2. /\ e \in Invoice /\ e.status = invoice[i].status /\ e.key = invoice[i].key
      /\ ~e.fresh
  BY <1>1 DEF Invoice
<1>3. invoice' = [invoice EXCEPT ![i] = e]
  BY DEF Age
<1>4. /\ invoice' \in Seq(Invoice) /\ Len(invoice') = Len(invoice) /\ invoice'[i] = e
      /\ \A j \in Known \ {i} : invoice'[j] = invoice[j]
  BY <1>1, <1>2, <1>3, UpdateRecord
<1> QED  BY <1>1, <1>2, <1>4

\* A new invoice takes the next place, the others keep theirs.
LEMMA AddRecord ==
    ASSUME TypeOK, NEW status \in {"draft", "open"}, NEW amount \in Topups \cup {0},
           NEW key \in {"auto_recharge", "addon", "renewal"}, AddInvoice(status, amount, key)
    PROVE  /\ invoice' \in Seq(Invoice) /\ Len(invoice') = Len(invoice) + 1
           /\ Len(invoice') <= MaxInvoices
           /\ invoice'[Len(invoice')].status = status /\ invoice'[Len(invoice')].key = key
           /\ \A j \in Known : invoice'[j] = invoice[j]
<1> DEFINE e == [status |-> status, amount |-> amount, key |-> key,
                 fresh |-> key = "auto_recharge"]
<1>1. e \in Invoice
  BY DEF Invoice
<1>2. invoice' = Append(invoice, e) /\ invoice \in Seq(Invoice) /\ Len(invoice) < MaxInvoices
  BY DEF AddInvoice, TypeOK
<1>3. /\ invoice' \in Seq(Invoice) /\ Len(invoice') = Len(invoice) + 1
      /\ \A j \in 1 .. Len(invoice) : invoice'[j] = invoice[j]
      /\ invoice'[Len(invoice) + 1] = e
  BY <1>1, <1>2, AppendProperties
<1>4. Len(invoice) \in Nat
  BY KnownIds
<1> HIDE DEF e
<1>5. invoice'[Len(invoice')] = e /\ \A j \in Known : invoice'[j] = invoice[j]
  BY <1>3 DEF Known
<1>6. Len(invoice') <= MaxInvoices
  BY <1>2, <1>3, <1>4, RechargeAssumption DEF RechargeAssumption
<1>7. e.status = status /\ e.key = key
  BY DEF e
<1> QED  BY <1>3, <1>5, <1>6, <1>7

\* What a process creates is a draft, and the last invoice.
LEMMA CreateRecord ==
    ASSUME TypeOK, NEW p \in Procs, Create(p)
    PROVE  /\ invoice' \in Seq(Invoice) /\ Len(invoice') = Len(invoice) + 1
           /\ Len(invoice') <= MaxInvoices
           /\ invoice'[Len(invoice')].status = "draft"
           /\ invoice'[Len(invoice')].key = proc[p].key
           /\ \A j \in Known : invoice'[j] = invoice[j]
           /\ proc[p].pc = "create"
           /\ proc'[p].pc = "finalize" /\ proc'[p].inv = Len(invoice')
           /\ proc'[p].key = proc[p].key /\ proc'[p].topup = proc[p].topup
           /\ \A q \in Procs \ {p} : proc'[q] = proc[q]
           /\ proc' \in [Procs -> Proc]
<1>1. /\ proc[p] \in Proc /\ proc[p].topup \in Topups \cup {0}
      /\ proc[p].key \in {"auto_recharge", "addon"} /\ AddInvoice("draft", proc[p].topup, proc[p].key)
  BY DEF TypeOK, Proc, Create
<1>2. /\ invoice' \in Seq(Invoice) /\ Len(invoice') = Len(invoice) + 1
      /\ Len(invoice') <= MaxInvoices
      /\ invoice'[Len(invoice')].status = "draft"
      /\ invoice'[Len(invoice')].key = proc[p].key
      /\ \A j \in Known : invoice'[j] = invoice[j]
  BY <1>1, AddRecord
<1>3. Len(invoice') \in Ids
  BY <1>2, KnownIds, RechargeAssumption DEF RechargeAssumption, Ids
<1> DEFINE r == [proc[p] EXCEPT !.pc = "finalize", !.inv = Len(invoice')]
<1>4. /\ r \in Proc /\ r.pc = "finalize" /\ r.inv = Len(invoice') /\ r.key = proc[p].key
      /\ r.topup = proc[p].topup
  BY <1>1, <1>3 DEF Proc
<1>5. proc' = [proc EXCEPT ![p] = r] /\ proc[p].pc = "create"
  BY DEF Create
<1> HIDE DEF r
<1>6. /\ proc'[p] = r /\ \A q \in Procs \ {p} : proc'[q] = proc[q]
      /\ proc' \in [Procs -> Proc]
  BY <1>4, <1>5 DEF TypeOK
<1> QED  BY <1>2, <1>4, <1>5, <1>6

\* Every action keeps the types.
LEMMA TypeStep == TypeOK /\ InvoiceInv /\ [Next]_vars => TypeOK'
<1> SUFFICES ASSUME TypeOK, InvoiceInv, [Next]_vars PROVE TypeOK'
  OBVIOUS
<1> USE RechargeAssumption DEF RechargeAssumption
<1>i. Idle \in Proc
  BY DEF Idle, Proc
<1>1. ASSUME NEW p \in Procs, Start(p) PROVE TypeOK'
  <2>1. [pc |-> "wait", key |-> "auto_recharge", topup |-> setting.topup,
         budget |-> setting.budget, inv |-> 0] \in Proc
    BY DEF TypeOK, Setting, Proc
  <2>2. proc' \in [Procs -> Proc]
    BY <1>1, <2>1 DEF Known, TypeOK, Start
  <2>3. attempts' \in 0 .. MaxAttempts
    BY <1>1 DEF Known, TypeOK, Start
  <2> QED  BY <1>1, <2>2, <2>3 DEF Known, TypeOK, Start
<1>2. ASSUME NEW p \in Procs, Acquire(p) PROVE TypeOK'
  <2>1. proc' \in [Procs -> Proc]
    BY <1>2, GotoType DEF Acquire, PC
  <2> QED  BY <1>2, <2>1 DEF Known, TypeOK, Acquire
<1>3. ASSUME NEW p \in Procs, CheckBudget(p) PROVE TypeOK'
  <2>1. proc' \in [Procs -> Proc]
    BY <1>3, GotoType DEF CheckBudget, PC
  <2> QED  BY <1>3, <2>1 DEF Known, TypeOK, CheckBudget
<1>4. ASSUME NEW p \in Procs, Fetch(p) PROVE TypeOK'
  <2>1. CASE \E i \in Page : PayFor(p, i)
    <3>1. PICK i \in Page : PayFor(p, i)
      BY <2>1
    <3>2. i \in Ids
      BY KnownIds
    <3>3. [proc[p] EXCEPT !.pc = "pay", !.inv = i] \in Proc
      BY <3>2 DEF TypeOK, Proc
    <3>4. proc' \in [Procs -> Proc]
      BY <3>1, <3>3 DEF TypeOK, PayFor
    <3> QED  BY <1>4, <3>4 DEF TypeOK, Fetch, Known
  <2>2. CASE Goto(p, IF \E i \in Page : InCooldown(i) THEN "end" ELSE "create")
    <3>1. proc' \in [Procs -> Proc]
      BY <2>2, GotoType DEF PC
    <3> QED  BY <1>4, <3>1 DEF TypeOK, Fetch, Known
  <2> QED  BY <1>4, <2>1, <2>2 DEF Fetch
<1>5. ASSUME NEW p \in Procs, Create(p) PROVE TypeOK'
  <2>1. /\ proc' \in [Procs -> Proc] /\ invoice' \in Seq(Invoice)
        /\ Len(invoice') = Len(invoice) + 1 /\ Len(invoice') <= MaxInvoices
    BY <1>5, CreateRecord
  <2>2. credited' \subseteq Known'
    BY <1>5, <2>1, KnownIds DEF TypeOK, Create, Known
  <2> QED  BY <1>5, <2>1, <2>2 DEF TypeOK, Create
<1>6. ASSUME NEW p \in Procs, Finalize(p) PROVE TypeOK'
  <2>1. proc' \in [Procs -> Proc]
    BY <1>6, GotoType DEF Finalize, PC
  <2>2. proc[p].inv \in Known
    BY <1>6 DEF InvoiceInv, Finalize
  <2>3. invoice' \in Seq(Invoice) /\ Len(invoice') = Len(invoice)
    BY <1>6, <2>2, StatusRecord DEF Finalize
  <2> QED  BY <1>6, <2>1, <2>3 DEF TypeOK, Finalize, Known
<1>7. ASSUME NEW p \in Procs, Pay(p) PROVE TypeOK'
  <2>1. proc' \in [Procs -> Proc]
    BY <1>7, GotoType DEF Pay, PC
  <2>2. proc[p].inv \in Known
    BY <1>7 DEF InvoiceInv, Pay
  <2>3. invoice' \in Seq(Invoice) /\ Len(invoice') = Len(invoice)
    BY <1>7, <2>2, StatusRecord DEF Pay, Paid
  <2> QED  BY <1>7, <2>1, <2>3 DEF TypeOK, Pay, Known
<1>8. ASSUME NEW p \in Procs, PaymentFailed(p) PROVE TypeOK'
  <2>1. proc' \in [Procs -> Proc]
    BY <1>8, GotoType DEF PaymentFailed, PC
  <2> QED  BY <1>8, <2>1 DEF Known, TypeOK, PaymentFailed
<1>9. ASSUME NEW p \in Procs, Credit(p) PROVE TypeOK'
  <2>1. proc' \in [Procs -> Proc]
    BY <1>9, GotoType DEF Credit, PC
  <2>2. proc[p].inv \in Known
    BY <1>9 DEF InvoiceInv, Credit
  <2>3. balance' \in Int /\ credited' \subseteq Known
    BY <1>9, <2>2, AmountType DEF TypeOK, Credit, AddBalance
  <2> QED  BY <1>9, <2>1, <2>3 DEF Known, TypeOK, Credit
<1>10. ASSUME NEW p \in Procs, Release(p) PROVE TypeOK'
  <2>1. proc' \in [Procs -> Proc]
    BY <1>10, <1>i DEF Known, TypeOK, Release
  <2> QED  BY <1>10, <2>1 DEF Known, TypeOK, Release
<1>11. ASSUME NEW p \in Procs, NEW amount \in Topups, BuyAddon(p, amount) PROVE TypeOK'
  <2>1. [pc |-> "create", key |-> "addon", topup |-> amount, budget |-> 0,
         inv |-> 0] \in Proc
    BY DEF Proc
  <2>2. proc' \in [Procs -> Proc]
    BY <1>11, <2>1 DEF Known, TypeOK, BuyAddon
  <2>3. attempts' \in 0 .. MaxAttempts
    BY <1>11 DEF Known, TypeOK, BuyAddon
  <2> QED  BY <1>11, <2>2, <2>3 DEF Known, TypeOK, BuyAddon
<1>12. ASSUME NEW i \in Ids, Webhook(i) PROVE TypeOK'
  <2>1. balance' \in Int /\ credited' \subseteq Known
    BY <1>12, AmountType DEF TypeOK, Webhook, AddBalance
  <2> QED  BY <1>12, <2>1 DEF TypeOK, Webhook, Known
<1>13. ASSUME NEW i \in Ids, Collect(i) PROVE TypeOK'
  <2>1. invoice' \in Seq(Invoice) /\ Len(invoice') = Len(invoice)
    BY <1>13, StatusRecord DEF Collect, Paid
  <2> QED  BY <1>13, <2>1 DEF TypeOK, Collect, Known
<1>14. ASSUME NEW i \in Ids, Age(i) PROVE TypeOK'
  <2>1. invoice' \in Seq(Invoice) /\ Len(invoice') = Len(invoice)
    BY <1>14, AgeRecord
  <2> QED  BY <1>14, <2>1 DEF TypeOK, Age, Known
<1>20. ASSUME NEW amount \in Topups, Renew(amount) PROVE TypeOK'
  <2>1. /\ invoice' \in Seq(Invoice) /\ Len(invoice') = Len(invoice) + 1
        /\ Len(invoice') <= MaxInvoices
    BY <1>20, AddRecord DEF Renew
  <2>2. credited' \subseteq Known'
    BY <1>20, <2>1, KnownIds DEF TypeOK, Renew, Known
  <2> QED  BY <1>20, <2>1, <2>2 DEF TypeOK, Renew
<1>15. ASSUME Spend PROVE TypeOK'
  BY <1>15 DEF Known, TypeOK, Spend
<1>16. ASSUME NEW new \in Setting, ChangeSetting(new) PROVE TypeOK'
  BY <1>16 DEF Known, TypeOK, ChangeSetting
<1>17. ASSUME NEW p \in Procs, Crash(p) PROVE TypeOK'
  <2>1. proc' \in [Procs -> Proc]
    BY <1>17, <1>i DEF Known, TypeOK, Crash
  <2>2. crashes' \in 0 .. MaxCrashes
    BY <1>17 DEF Known, TypeOK, Crash
  <2>3. lock' \in Procs \cup {Free, Orphan}
    BY <1>17 DEF Known, TypeOK, Crash
  <2> QED  BY <1>17, <2>1, <2>2, <2>3 DEF Known, TypeOK, Crash
<1>18. ASSUME LockExpires PROVE TypeOK'
  BY <1>18 DEF Known, TypeOK, LockExpires
<1>19. CASE UNCHANGED vars
  BY <1>19 DEF Known, TypeOK, vars
<1> QED
  BY <1>1, <1>2, <1>3, <1>4, <1>5, <1>6, <1>7, <1>8, <1>9, <1>10, <1>11, <1>12, <1>13,
     <1>14, <1>15, <1>16, <1>17, <1>18, <1>19, <1>20 DEF Next, Step

\* The initial state.
LEMMA InitInv == Init => RechargeInv
<1> SUFFICES ASSUME Init PROVE RechargeInv
  OBVIOUS
<1> USE RechargeAssumption DEF RechargeAssumption
<1>1. invoice = <<>> /\ invoice \in Seq(Invoice) /\ Len(invoice) = 0 /\ Known = {}
  BY DEF Init, Known
<1>2. \A p \in Procs : proc[p] = Idle /\ Idle \in Proc
  BY DEF Init, Idle, Proc
<1>3. TypeOK
  BY <1>1, <1>2 DEF Init, TypeOK
<1>4. LockInv /\ InvoiceInv /\ CreateInv /\ FinalizeInv
  BY <1>2 DEF LockInv, InvoiceInv, CreateInv, FinalizeInv, Inside, Idle
<1>5. OneOpenInvoice /\ OneInvoicePerCooldown
  BY <1>1 DEF OneOpenInvoice, OneInvoicePerCooldown
<1> QED  BY <1>3, <1>4, <1>5 DEF RechargeInv


-----------------------------------------------------------------------------
(* Who is inside, and with which invoice *)

\* The lock is free or its owner is dead when somebody gets in, and only the owner
\* gives it back.
LEMMA LockStep == TypeOK /\ LockInv /\ InvoiceInv /\ [Next]_vars => LockInv'
<1> SUFFICES ASSUME TypeOK, LockInv, InvoiceInv, [Next]_vars PROVE LockInv'
  OBVIOUS
<1> USE RechargeAssumption DEF RechargeAssumption, LockInv, Inside
<1>1. ASSUME NEW p \in Procs, Start(p) PROVE LockInv'
  <2>1. proc'[p].pc = "wait" /\ \A q \in Procs \ {p} : proc'[q] = proc[q]
    BY <1>1 DEF TypeOK, Start
  <2> QED  BY <1>1, <2>1 DEF Start
<1>2. ASSUME NEW p \in Procs, Acquire(p) PROVE LockInv'
  <2>1. \A q \in Procs \ {p} : proc'[q] = proc[q]
    BY <1>2, GotoRecord DEF Acquire
  <2> QED  BY <1>2, <2>1 DEF Acquire
\* Steps that stay on one side of the lock and leave it alone.
<1>3. ASSUME NEW p \in Procs, NEW x \in PC, Goto(p, x), UNCHANGED lock,
             proc[p].pc \notin {"idle", "wait"}
      PROVE  LockInv'
  <2>1. /\ proc'[p].key = proc[p].key
        /\ \A q \in Procs \ {p} : proc'[q] = proc[q]
    BY <1>3, GotoRecord
  <2> QED  BY <1>3, <2>1
<1>4. ASSUME NEW p \in Procs, Fetch(p) PROVE LockInv'
  BY <1>4, FetchRecord
<1>5. ASSUME NEW p \in Procs, Create(p) PROVE LockInv'
  <2>1. /\ proc'[p].key = proc[p].key /\ proc[p].pc = "create"
        /\ \A q \in Procs \ {p} : proc'[q] = proc[q]
    BY <1>5, CreateRecord
  <2> QED  BY <1>5, <2>1 DEF Create
<1>6. ASSUME NEW p \in Procs, Release(p) PROVE LockInv'
  <2>1. proc'[p].pc = "idle" /\ \A q \in Procs \ {p} : proc'[q] = proc[q]
    BY <1>6 DEF TypeOK, Release, Idle
  <2>2. \A q \in Procs \ {p} : lock = q => lock' = q
    BY <1>6 DEF Release
  <2> QED  BY <2>1, <2>2
<1>7. ASSUME NEW p \in Procs, Crash(p) PROVE LockInv'
  <2>1. proc'[p].pc = "idle" /\ \A q \in Procs \ {p} : proc'[q] = proc[q]
    BY <1>7 DEF TypeOK, Crash, Idle
  <2>2. \A q \in Procs \ {p} : lock = q => lock' = q
    BY <1>7 DEF Crash
  <2> QED  BY <2>1, <2>2
<1>8. ASSUME NEW p \in Procs, NEW amount \in Topups, BuyAddon(p, amount) PROVE LockInv'
  <2>1. proc'[p].key = "addon" /\ \A q \in Procs \ {p} : proc'[q] = proc[q]
    BY <1>8 DEF TypeOK, BuyAddon
  <2> QED  BY <1>8, <2>1 DEF BuyAddon
<1>9. ASSUME LockExpires PROVE LockInv'
  BY <1>9 DEF LockExpires
<1>10. ASSUME UNCHANGED <<proc, lock>> PROVE LockInv'
  BY <1>10
<1>11. ASSUME NEW p \in Procs,
              CheckBudget(p) \/ Finalize(p) \/ Pay(p) \/ PaymentFailed(p) \/ Credit(p)
       PROVE  LockInv'
  BY <1>3, <1>11 DEF CheckBudget, Finalize, Pay, PaymentFailed, Credit, PC
<1> QED
  BY <1>1, <1>2, <1>4, <1>5, <1>6, <1>7, <1>8, <1>9, <1>10, <1>11
  DEF Next, Step, Webhook, Collect, Age, Renew, ChangeSetting, Spend, vars

\* An invoice once made keeps its kind.
LEMMA InvoiceStep == TypeOK /\ InvoiceInv /\ [Next]_vars => InvoiceInv'
<1> SUFFICES ASSUME TypeOK, InvoiceInv, [Next]_vars PROVE InvoiceInv'
  OBVIOUS
<1> DEFINE Kept == /\ Known \subseteq Known'
                   /\ \A i \in Known : invoice'[i].key = invoice[i].key
           Own(p) == /\ proc[p].pc \in {"wait", "budget", "fetch"} =>
                          proc[p].key = "auto_recharge"
                     /\ proc[p].pc \in {"finalize", "pay", "credit"} =>
                          /\ proc[p].inv \in Known
                          /\ invoice[proc[p].inv].key = proc[p].key
<1>a. \A p \in Procs : Own(p)
  BY DEF InvoiceInv
<1>b. ASSUME Kept, NEW p \in Procs, proc'[p] = proc[p] PROVE Own(p)'
  BY <1>a, <1>b
<1>c. ASSUME Kept, NEW p \in Procs, \A q \in Procs \ {p} : proc'[q] = proc[q], Own(p)'
      PROVE  InvoiceInv'
  BY <1>b, <1>c DEF InvoiceInv
<1>d. ASSUME Kept, UNCHANGED proc PROVE InvoiceInv'
  BY <1>b, <1>d DEF InvoiceInv
<1>e. ASSUME UNCHANGED invoice PROVE Kept
  BY <1>e DEF Known
\* A list one longer, the old ones in their places.
<1>g. ASSUME Len(invoice') = Len(invoice) + 1, \A j \in Known : invoice'[j] = invoice[j]
      PROVE  Kept /\ Len(invoice') \in Known'
  BY <1>g, KnownIds DEF Known
<1>1. ASSUME NEW p \in Procs, Start(p) PROVE InvoiceInv'
  <2>1. /\ proc'[p].pc = "wait" /\ proc'[p].key = "auto_recharge"
        /\ \A q \in Procs \ {p} : proc'[q] = proc[q]
    BY <1>1 DEF TypeOK, Start
  <2> QED  BY <1>1, <1>c, <1>e, <2>1 DEF Start
<1>2. ASSUME NEW p \in Procs, Acquire(p) \/ CheckBudget(p) \/ PaymentFailed(p) \/ Credit(p)
      PROVE  InvoiceInv'
  <2>1. PICK x \in {"budget", "fetch", "end"} : Goto(p, x)
    BY <1>2 DEF Acquire, CheckBudget, PaymentFailed, Credit
  <2>2. x = "end" \/ proc[p].pc \in {"wait", "budget"}
    BY <1>2, <2>1, GotoRecord DEF Acquire, CheckBudget, PaymentFailed, Credit
  <2>3. Own(p)'
    BY <1>a, <2>1, <2>2, GotoRecord
  <2> QED  BY <1>2, <1>c, <1>e, <2>1, <2>3, GotoRecord
           DEF Acquire, CheckBudget, PaymentFailed, Credit
<1>3. ASSUME NEW p \in Procs, Fetch(p) PROVE InvoiceInv'
  <2>1. proc[p].key = "auto_recharge"
    BY <1>3, <1>a DEF Fetch
  <2>2. proc'[p].pc = "pay" => proc'[p].inv \in Known
                               /\ invoice[proc'[p].inv].key = "auto_recharge"
    <3>1. proc'[p].pc = "pay" => proc'[p].inv \in Known /\ Open(proc'[p].inv)
      BY <1>3, FetchRecord
    <3>2. \A i \in Known : Open(i) => invoice[i].key = "auto_recharge"
      BY DEF Open, IsRecharge
    <3> QED  BY <3>1, <3>2
  <2>3. /\ invoice' = invoice /\ proc'[p].key = "auto_recharge"
        /\ proc'[p].pc \in {"pay", "end", "create"}
    BY <1>3, <2>1, FetchRecord
  <2>4. Own(p)'
    BY <2>2, <2>3 DEF Known
  <2> QED  BY <1>3, <1>c, <1>e, <2>4, FetchRecord
<1>4. ASSUME NEW p \in Procs, Create(p) PROVE InvoiceInv'
  <2>1. /\ proc'[p].pc = "finalize" /\ proc'[p].inv = Len(invoice')
        /\ proc'[p].key = proc[p].key
        /\ \A q \in Procs \ {p} : proc'[q] = proc[q]
        /\ Len(invoice') = Len(invoice) + 1
        /\ invoice'[Len(invoice')].key = proc[p].key
        /\ \A j \in Known : invoice'[j] = invoice[j]
    BY <1>4, CreateRecord
  <2>2. Kept /\ Len(invoice') \in Known'
    BY <1>g, <2>1
  <2> QED  BY <1>c, <2>1, <2>2
<1>5. ASSUME NEW i \in Known, NEW x \in {"open", "paid"},
             invoice' = [invoice EXCEPT ![i].status = x]
      PROVE  Kept
  BY <1>5, StatusRecord DEF Known
<1>6. ASSUME NEW p \in Procs, Finalize(p) \/ Pay(p) PROVE InvoiceInv'
  <2>1. PICK x \in {"pay", "credit"} : Goto(p, x)
    BY <1>6 DEF Finalize, Pay
  <2>2. Kept
    BY <1>5, <1>6, <1>a DEF Finalize, Pay, Paid
  <2>3. Own(p)'
    BY <1>6, <1>a, <2>1, <2>2, GotoRecord DEF Finalize, Pay
  <2> QED  BY <1>c, <2>1, <2>2, <2>3, GotoRecord
<1>7. ASSUME NEW p \in Procs, Release(p) \/ Crash(p) PROVE InvoiceInv'
  <2>1. proc'[p].pc = "idle" /\ \A q \in Procs \ {p} : proc'[q] = proc[q]
    BY <1>7 DEF TypeOK, Release, Crash, Idle
  <2> QED  BY <1>7, <1>c, <1>e, <2>1 DEF Release, Crash
<1>8. ASSUME NEW p \in Procs, NEW amount \in Topups, BuyAddon(p, amount) PROVE InvoiceInv'
  <2>1. proc'[p].pc = "create" /\ \A q \in Procs \ {p} : proc'[q] = proc[q]
    BY <1>8 DEF TypeOK, BuyAddon
  <2> QED  BY <1>8, <1>c, <1>e, <2>1 DEF BuyAddon
<1>9. ASSUME NEW i \in Ids, Collect(i) \/ Age(i) PROVE InvoiceInv'
  <2>1. CASE Collect(i)
    BY <1>5, <1>d, <2>1 DEF Collect, Paid
  <2>2. CASE Age(i)
    <3>1. Kept
      BY <2>2, AgeRecord DEF Known
    <3> QED  BY <1>d, <2>2, <3>1 DEF Age
  <2> QED  BY <1>9, <2>1, <2>2
<1>10. ASSUME UNCHANGED <<proc, invoice>> PROVE InvoiceInv'
  BY <1>10, <1>d, <1>e
<1>11. ASSUME NEW amount \in Topups, Renew(amount) PROVE InvoiceInv'
  <2>1. Len(invoice') = Len(invoice) + 1 /\ \A j \in Known : invoice'[j] = invoice[j]
    BY <1>11, AddRecord DEF Renew
  <2> QED  BY <1>11, <1>d, <1>g, <2>1 DEF Renew
<1> QED
  BY <1>1, <1>2, <1>3, <1>4, <1>6, <1>7, <1>8, <1>9, <1>10, <1>11
  DEF Next, Step, Webhook, ChangeSetting, Spend, LockExpires, vars

-----------------------------------------------------------------------------
(* What is due *)

\* The owner of the lock is one process.
LEMMA OwnerIsOne == LockInv => OneInside
  BY DEF LockInv, OneInside

\* The two properties are one: whatever is due is more than a page from what is newer.
Apart == \A i, j \in Known : Due(i) /\ Chargeable(j) /\ i < j => j - i > PageSize

LEMMA DueApart == OneOpenInvoice /\ OneInvoicePerCooldown <=> Apart
  BY DEF OneOpenInvoice, OneInvoicePerCooldown, Apart, Due, Open, Chargeable, IsRecharge

\* Nothing a step does to one invoice makes another one due.
LEMMA DueStep == RechargeInv /\ [Next]_vars => CreateInv' /\ FinalizeInv' /\ Apart'
<1> SUFFICES ASSUME RechargeInv, [Next]_vars
             PROVE  CreateInv' /\ FinalizeInv' /\ Apart'
  OBVIOUS
<1> DEFINE Goal == CreateInv /\ FinalizeInv /\ Apart
           Others(i) == \A j \in Known \ {i} : invoice'[j] = invoice[j]
           \* Nothing becomes due or chargeable, and the list does not shrink.
           Calm == /\ Len(invoice) <= Len(invoice')
                   /\ \A k \in Known' : Due(k)' => k \in Known /\ Due(k)
                   /\ \A k \in Known' : Chargeable(k)' => k \in Known /\ Chargeable(k)
<1>o. OneInside
  BY OwnerIsOne DEF RechargeInv
<1>t. TypeOK /\ Goal /\ InvoiceInv
  BY DueApart DEF RechargeInv
<1>n. /\ Len(invoice) \in Nat /\ PageSize \in Nat
      /\ Known \subseteq Nat
  BY <1>t, KnownIds, RechargeAssumption DEF RechargeAssumption, Known
<1>m. Len(invoice') \in Nat /\ Known' \subseteq Nat
  <2>1. TypeOK'
    BY TypeStep DEF RechargeInv
  <2> QED  BY <2>1 DEF TypeOK, Known
<1>a. ASSUME UNCHANGED invoice PROVE Calm
  BY <1>a, <1>n DEF Due, Chargeable, IsRecharge, Known
<1>b. ASSUME Len(invoice') = Len(invoice) + 1, \A j \in Known : invoice'[j] = invoice[j],
             \/ invoice'[Len(invoice')].key # "auto_recharge"
             \/ invoice'[Len(invoice')].status = "draft"
      PROVE  Calm
  <2>1. \A i \in Known' : i \in Known \/ i = Len(invoice')
    BY <1>b, <1>n DEF Known
  <2>2. ~Chargeable(Len(invoice))' /\ ~Due(Len(invoice))'
    BY <1>b DEF Due, Chargeable, IsRecharge
  <2>3. Len(invoice) <= Len(invoice')
    BY <1>b, <1>n
  <2>4. ASSUME NEW k \in Known', Chargeable(k)' PROVE k \in Known /\ Chargeable(k)
    <3>1. k \in Known
      BY <2>1, <2>2, <2>4
    <3> QED  BY <1>b, <2>4, <3>1 DEF Chargeable, IsRecharge
  <2>5. ASSUME NEW k \in Known', Due(k)' PROVE k \in Known /\ Due(k)
    <3>1. k \in Known
      BY <2>1, <2>2, <2>5
    <3> QED  BY <1>b, <2>5, <3>1 DEF Due, Chargeable, IsRecharge
  <2> QED  BY <2>3, <2>4, <2>5
<1>c. ASSUME NEW i \in Known, Len(invoice') = Len(invoice), Others(i),
             invoice'[i].key = invoice[i].key, invoice'[i].fresh = invoice[i].fresh,
             \/ invoice'[i].status = "paid" /\ invoice[i].status = "open"
             \/ invoice[i].key # "auto_recharge"
      PROVE  Calm
  <2>1. Known' = Known
    BY <1>c DEF Known
  <2>2. \A j \in Known : Chargeable(j)' => Chargeable(j)
    BY <1>c DEF Chargeable, IsRecharge
  <2>3. \A j \in Known : Due(j)' => Due(j)
    BY <1>c DEF Due, Chargeable, IsRecharge
  <2> QED  BY <1>c, <1>n, <2>1, <2>2, <2>3
<1>d. ASSUME NEW i \in Ids, Age(i) PROVE Calm
  <2>1. /\ i \in Known /\ Len(invoice') = Len(invoice) /\ Others(i)
        /\ invoice'[i].status = invoice[i].status
        /\ invoice'[i].key = invoice[i].key /\ ~invoice'[i].fresh
    BY <1>d, <1>t, AgeRecord
  <2>2. Known' = Known
    BY <2>1 DEF Known
  <2> QED  BY <1>n, <2>1, <2>2 DEF Due, Chargeable, IsRecharge
\* A process that is past the search after the step was so before it, or has searched.
<1>e. ASSUME Calm, NEW p \in Procs, proc'[p] = proc[p]
      PROVE  /\ (Inside(p)' /\ proc'[p].pc = "create") =>
                   \A i \in Known' : Due(i)' => Len(invoice') - i >= PageSize
             /\ (Inside(p)' /\ proc'[p].pc = "finalize") =>
                   /\ \A i \in Known' : Due(i)' => proc'[p].inv - i > PageSize
                   /\ \A j \in Known' : Chargeable(j)' => j < proc'[p].inv
  <2>1. CASE Inside(p) /\ proc[p].pc = "create"
    <3>1. \A i \in Known : Due(i) => Len(invoice) - i >= PageSize
      BY <1>t, <2>1 DEF CreateInv
    <3> QED  BY <1>e, <1>m, <1>n, <2>1, <3>1
  <2>2. CASE Inside(p) /\ proc[p].pc = "finalize"
    <3>1. /\ \A i \in Known : Due(i) => proc[p].inv - i > PageSize
          /\ \A j \in Known : Chargeable(j) => j < proc[p].inv
      BY <1>t, <2>2 DEF FinalizeInv
    <3> QED  BY <1>e, <2>2, <3>1
  <2>3. Inside(p)' = Inside(p)
    BY <1>e DEF Inside
  <2> QED  BY <1>e, <2>1, <2>2, <2>3
<1>s. ASSUME Calm PROVE Apart'
  BY <1>s, <1>t DEF Apart
<1>f. ASSUME Calm, NEW p \in Procs, \A q \in Procs \ {p} : proc'[q] = proc[q],
             proc'[p].pc \notin {"create", "finalize"} \/ proc'[p].key = "addon"
      PROVE  Goal'
  <2>1. ~(Inside(p)' /\ proc'[p].pc \in {"create", "finalize"})
    BY <1>f DEF Inside
  <2>2. CreateInv'
    BY <1>e, <1>f, <2>1 DEF CreateInv
  <2>3. FinalizeInv'
    BY <1>e, <1>f, <2>1 DEF FinalizeInv
  <2> QED  BY <1>f, <1>s, <2>2, <2>3
<1>g. ASSUME Calm, UNCHANGED proc PROVE Goal'
  <2>1. CreateInv'
    BY <1>e, <1>g DEF CreateInv
  <2>2. FinalizeInv'
    BY <1>e, <1>g DEF FinalizeInv
  <2> QED  BY <1>g, <1>s, <2>1, <2>2
<1>1. ASSUME NEW p \in Procs, Start(p) PROVE Goal'
  <2>1. UNCHANGED invoice
    BY <1>1 DEF Start
  <2>2. proc'[p].pc = "wait" /\ \A q \in Procs \ {p} : proc'[q] = proc[q]
    BY <1>1, <1>t DEF Start, TypeOK
  <2> QED  BY <1>a, <1>f, <2>1, <2>2
<1>2. ASSUME NEW p \in Procs, Acquire(p) \/ CheckBudget(p) \/ PaymentFailed(p) \/ Credit(p)
      PROVE  Goal'
  <2>1. PICK x \in {"budget", "fetch", "end"} : Goto(p, x)
    BY <1>2 DEF Acquire, CheckBudget, PaymentFailed, Credit
  <2>2. UNCHANGED invoice
    BY <1>2 DEF Acquire, CheckBudget, PaymentFailed, Credit
  <2>3. proc'[p].pc \in {"budget", "fetch", "end"} /\ \A q \in Procs \ {p} : proc'[q] = proc[q]
    BY <1>t, <2>1, GotoRecord DEF PC
  <2> QED  BY <1>a, <1>f, <2>2, <2>3
\* What the search saw was the page: what is due lies behind it.
<1>3. ASSUME NEW p \in Procs, Fetch(p) PROVE Goal'
  <2>1. UNCHANGED invoice /\ \A q \in Procs \ {p} : proc'[q] = proc[q]
    BY <1>3, <1>t, FetchRecord
  <2>2. CASE proc'[p].pc # "create"
    <3>1. proc'[p].pc \in {"pay", "end"}
      BY <1>3, <1>t, <2>2, FetchRecord
    <3> QED  BY <1>a, <1>f, <2>1, <3>1
  <2>3. CASE proc'[p].pc = "create"
    <3>1. \A i \in Page : ~Open(i) /\ ~InCooldown(i)
      BY <1>3, <1>t, <2>3, FetchRecord
    <3>2. \A i \in Known : Due(i) => Open(i) \/ InCooldown(i)
      BY DEF Due, Chargeable, Open, InCooldown
    <3>3. ASSUME NEW i \in Known, Due(i) PROVE Len(invoice) - i >= PageSize
      BY <1>n, <3>1, <3>2, <3>3 DEF Page
    <3>4. Calm
      BY <1>a, <2>1
    <3>5. \A i \in Known' : Due(i)' => Len(invoice') - i >= PageSize
      BY <2>1, <3>3, <3>4
    <3>6. CreateInv'
      BY <1>e, <2>1, <3>4, <3>5 DEF CreateInv
    <3>7. FinalizeInv'
      BY <1>e, <2>1, <2>3, <3>4 DEF FinalizeInv
    <3> QED  BY <1>s, <3>4, <3>6, <3>7
  <2> QED  BY <2>2, <2>3
\* The new invoice is one further away from what is due.
<1>4. ASSUME NEW p \in Procs, Create(p) PROVE Goal'
  <2>1. /\ Len(invoice') = Len(invoice) + 1
        /\ invoice'[Len(invoice')].status = "draft"
        /\ \A j \in Known : invoice'[j] = invoice[j]
        /\ proc[p].pc = "create" /\ proc'[p].pc = "finalize"
        /\ proc'[p].inv = Len(invoice') /\ proc'[p].key = proc[p].key
        /\ \A q \in Procs \ {p} : proc'[q] = proc[q]
    BY <1>4, <1>t, CreateRecord
  <2>2. Calm
    BY <1>b, <2>1
  <2>3. CreateInv'
    BY <1>e, <2>1, <2>2 DEF CreateInv
  <2>4. ASSUME Inside(p)'
        PROVE  /\ \A i \in Known' : Due(i)' => proc'[p].inv - i > PageSize
               /\ \A j \in Known' : Chargeable(j)' => j < proc'[p].inv
    <3>1. Inside(p)
      BY <2>1, <2>4 DEF Inside
    <3>2. \A i \in Known : Due(i) => Len(invoice) - i >= PageSize
      BY <1>t, <2>1, <3>1 DEF CreateInv
    <3>3. \A j \in Known : j <= Len(invoice)
      BY DEF Known
    <3> QED  BY <1>n, <2>1, <2>2, <3>2, <3>3
  <2>5. FinalizeInv'
    BY <1>e, <2>1, <2>2, <2>4 DEF FinalizeInv
  <2> QED  BY <1>s, <2>2, <2>3, <2>5
\* A recharge invoice is finalized by the owner of the lock, and what is due is further
\* away than a page; the invoice of a purchase is no recharge invoice.
<1>5. ASSUME NEW p \in Procs, Finalize(p) PROVE Goal'
  <2> DEFINE i == proc[p].inv
  <2>1. /\ i \in Known /\ invoice[i].key = proc[p].key /\ proc[p].pc = "finalize"
    BY <1>5, <1>t DEF Finalize, InvoiceInv
  <2>2. /\ Others(i) /\ invoice'[i].status = "open" /\ invoice'[i].key = invoice[i].key
        /\ invoice'[i].fresh = invoice[i].fresh /\ Len(invoice') = Len(invoice)
    BY <1>5, <1>t, <2>1, StatusRecord DEF Finalize
  <2>3. /\ proc'[p].pc = "pay" /\ \A q \in Procs \ {p} : proc'[q] = proc[q]
    BY <1>5, <1>t, GotoRecord DEF Finalize, PC
  <2>4. CASE proc[p].key # "auto_recharge"
    <3>1. Calm
      BY <1>c, <2>1, <2>2, <2>4
    <3> QED  BY <1>f, <2>3, <3>1
  <2>5. CASE proc[p].key = "auto_recharge"
    <3>1. Inside(p)
      BY <2>1, <2>5 DEF Inside
    <3>2. /\ \A k \in Known : Due(k) => i - k > PageSize
          /\ \A j \in Known : Chargeable(j) => j < i
      BY <1>t, <2>1, <3>1 DEF FinalizeInv
    <3>3. Known' = Known
      BY <2>2 DEF Known
    <3>4. ASSUME NEW k \in Known \ {i}
          PROVE  (Due(k)' => Due(k)) /\ (Chargeable(k)' => Chargeable(k))
      BY <2>2 DEF Due, Chargeable, IsRecharge
    <3>5. Apart'
      <4> SUFFICES ASSUME NEW k \in Known, NEW j \in Known, Due(k)', Chargeable(j)', k < j
                   PROVE  j - k > PageSize
        BY <3>3 DEF Apart
      <4> HIDE DEF i
      <4>1. CASE k # i /\ j # i
        <5>1. Due(k) /\ Chargeable(j)
          BY <3>4, <4>1
        <5> QED  BY <1>t, <5>1 DEF Apart
      <4>2. CASE k # i /\ j = i
        <5>1. Due(k)
          BY <3>4, <4>2
        <5> QED  BY <3>2, <4>2, <5>1
      <4>3. CASE k = i
        <5>1. j # i /\ ~(j < i)
          BY <1>n, <2>1, <4>3
        <5>2. Chargeable(j)
          BY <3>4, <5>1
        <5> QED  BY <3>2, <5>1, <5>2
      <4> QED  BY <4>1, <4>2, <4>3
    <3>6. ASSUME NEW q \in Procs, Inside(q)' PROVE proc'[q].pc \notin {"create", "finalize"}
      <4>1. CASE q = p
        BY <2>3, <4>1
      <4>2. CASE q # p
        BY <1>o, <2>3, <3>1, <3>6, <4>2 DEF OneInside, Inside
      <4> QED  BY <4>1, <4>2
    <3> QED  BY <3>5, <3>6 DEF CreateInv, FinalizeInv
  <2> QED  BY <2>4, <2>5
<1>6. ASSUME NEW p \in Procs, Pay(p) PROVE Goal'
  <2> DEFINE i == proc[p].inv
  <2>1. i \in Known /\ invoice[i].status = "open"
    BY <1>6, <1>t DEF Pay, InvoiceInv
  <2>2. /\ Others(i) /\ invoice'[i].status = "paid" /\ invoice'[i].key = invoice[i].key
        /\ invoice'[i].fresh = invoice[i].fresh /\ Len(invoice') = Len(invoice)
    BY <1>6, <1>t, <2>1, StatusRecord DEF Pay, Paid
  <2>3. Calm
    BY <1>c, <2>1, <2>2
  <2>4. proc'[p].pc = "credit" /\ \A q \in Procs \ {p} : proc'[q] = proc[q]
    BY <1>6, <1>t, GotoRecord DEF Pay, PC
  <2> QED  BY <1>f, <2>3, <2>4
<1>7. ASSUME NEW p \in Procs, Release(p) \/ Crash(p) PROVE Goal'
  <2>1. proc'[p].pc = "idle" /\ \A q \in Procs \ {p} : proc'[q] = proc[q]
    BY <1>7, <1>t DEF TypeOK, Release, Crash, Idle
  <2>2. UNCHANGED invoice
    BY <1>7 DEF Release, Crash
  <2> QED  BY <1>a, <1>f, <2>1, <2>2
<1>8. ASSUME NEW i \in Ids, Collect(i) PROVE Goal'
  <2>1. /\ i \in Known /\ invoice[i].status = "open"
    BY <1>8 DEF Collect
  <2>2. /\ Others(i) /\ invoice'[i].status = "paid" /\ invoice'[i].key = invoice[i].key
        /\ invoice'[i].fresh = invoice[i].fresh /\ Len(invoice') = Len(invoice)
    BY <1>8, <1>t, <2>1, StatusRecord DEF Collect, Paid
  <2>3. Calm
    BY <1>c, <2>1, <2>2
  <2> QED  BY <1>8, <1>g, <2>3 DEF Collect
<1>9. ASSUME NEW i \in Ids, Age(i) PROVE Goal'
  <2>1. Calm
    BY <1>9, <1>d
  <2> QED  BY <1>9, <1>g, <2>1 DEF Age
<1>10. ASSUME UNCHANGED <<proc, invoice>> PROVE Goal'
  BY <1>10, <1>a, <1>g
<1>11. ASSUME NEW p \in Procs, NEW amount \in Topups, BuyAddon(p, amount) PROVE Goal'
  <2>1. proc'[p].key = "addon" /\ \A q \in Procs \ {p} : proc'[q] = proc[q]
    BY <1>11, <1>t DEF BuyAddon, TypeOK
  <2> QED  BY <1>11, <1>a, <1>f, <2>1 DEF BuyAddon
<1>12. ASSUME NEW amount \in Topups, Renew(amount) PROVE Goal'
  <2>1. /\ Len(invoice') = Len(invoice) + 1
        /\ invoice'[Len(invoice')].key = "renewal"
        /\ \A j \in Known : invoice'[j] = invoice[j]
    BY <1>12, <1>t, AddRecord DEF Renew
  <2>2. Calm
    BY <1>b, <2>1
  <2> QED  BY <1>12, <1>g, <2>2 DEF Renew
<1> QED
  BY <1>1, <1>2, <1>3, <1>4, <1>5, <1>6, <1>7, <1>8, <1>9, <1>10, <1>11, <1>12
  DEF Next, Step, Webhook, ChangeSetting, Spend, LockExpires, vars

-----------------------------------------------------------------------------
\* The inductive invariant holds in every state.
THEOREM RechargeCorrect == Spec => []RechargeInv
<1>1. RechargeInv /\ [Next]_vars => RechargeInv'
  <2> SUFFICES ASSUME RechargeInv, [Next]_vars PROVE RechargeInv'
    OBVIOUS
  <2>1. TypeOK' /\ LockInv' /\ InvoiceInv'
    BY TypeStep, LockStep, InvoiceStep DEF RechargeInv
  <2>2. CreateInv' /\ FinalizeInv' /\ Apart'
    BY DueStep
  <2>3. Apart' => (OneOpenInvoice /\ OneInvoicePerCooldown)'
    BY DEF OneOpenInvoice, OneInvoicePerCooldown, Apart, Due, Open, Chargeable, IsRecharge
  <2> QED  BY <2>1, <2>2, <2>3 DEF RechargeInv
<1> QED
  BY <1>1, InitInv, PTL DEF Spec

\* Every state is well typed.
THEOREM TypeCorrect == Spec => []TypeOK
<1>1. RechargeInv => TypeOK
  BY DEF RechargeInv
<1> QED  BY <1>1, RechargeCorrect, PTL

\* Never a recharge invoice that is charged or chargeable with an older unpaid one on
\* the page of the list where it was put.
THEOREM NeverTwoOpen == Spec => []OneOpenInvoice
<1>1. RechargeInv => OneOpenInvoice
  BY DEF RechargeInv
<1> QED  BY <1>1, RechargeCorrect, PTL

\* ... nor with an older one that was charged within a cooldown.
THEOREM NeverTwoPerCooldown == Spec => []OneInvoicePerCooldown
<1>1. RechargeInv => OneInvoicePerCooldown
  BY DEF RechargeInv
<1> QED  BY <1>1, RechargeCorrect, PTL

\* Never two processes inside the lock's block.
THEOREM NeverTwoInside == Spec => []OneInside
<1>1. RechargeInv => OneInside
  BY OwnerIsOne DEF RechargeInv
<1> QED  BY <1>1, RechargeCorrect, PTL
=============================================================================
