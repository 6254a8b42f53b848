----------------------------- MODULE UsageProofs -----------------------------
(* Proofs about what surrounds a run.  Admission (RunAdmission): overlapping   *)
(* requests exceed a limit by no more than their number.  Credits              *)
(* (RunCredits): an account is overdrawn by no more than the runs that are     *)
(* under way and those that no check came before.  Calls (CallCost): however   *)
(* many callbacks there are, a charged run shows the price that was deducted,  *)
(* and no call is paid for twice.  Conversations (Conversation, Analysis): an  *)
(* answer is analysed with no question older than its own, and an analysis is  *)
(* skipped for a later one only.  Texts (Summary): chunks and histories fit    *)
(* the context window, and nothing of a document is left out of its summary.   *)
EXTENDS MCUsage,
        FiniteSetTheorems, SequenceTheorems, WellFoundedInduction, TLAPS

-----------------------------------------------------------------------------
(* Admission: the limits *)

\* A request that is being admitted already has its place among the rows: the one that
\* Create gives it changes neither count.
Admitting  == (Running \cap Checked) \cup Admitted
Requesting == (Requests \cap Checked) \cup Counted

PlaceInv ==
    /\ Cardinality(Counted) <= Clients
    /\ Cardinality(Admitting) <= MaxConcurrency - 1 + Clients
    /\ Cardinality(Requesting) <= MaxRequests - 1 + Clients

LimitInv == TypeOK /\ PlaceInv

-----------------------------------------------------------------------------
LEMMA GotoRecord ==
    ASSUME TypeOK, NEW r \in Runs,
           NEW pc \in {"idle", "counted", "admitted", "rejected", "open", "closed", "lost"},
           Goto(r, pc)
    PROVE  /\ run' \in [Runs -> Run]
           /\ run'[r].pc = pc /\ run'[r].age = run[r].age /\ run'[r].checked = run[r].checked
           /\ \A q \in Runs \ {r} : run'[q] = run[q]
  BY DEF TypeOK, Goto, Run

\* Part of a finite set of runs.
LEMMA Part ==
    ASSUME IsFiniteSet(Runs), NEW A \in SUBSET Runs, NEW B \in SUBSET A
    PROVE  /\ IsFiniteSet(A) /\ Cardinality(A) \in Nat
           /\ Cardinality(B) \in Nat /\ Cardinality(B) <= Cardinality(A)
<1>1. IsFiniteSet(A)
  BY FS_Subset
<1> QED  BY <1>1, FS_Subset, FS_CardinalityType

LEMMA Both ==
    ASSUME IsFiniteSet(Runs), NEW A \in SUBSET Runs, NEW B \in SUBSET Runs
    PROVE  Cardinality(A \cup B) <= Cardinality(A) + Cardinality(B)
<1>1. /\ IsFiniteSet(A) /\ IsFiniteSet(B)
      /\ Cardinality(A \cap B) \in Nat /\ Cardinality(A) \in Nat /\ Cardinality(B) \in Nat
  BY Part
<1>2. Cardinality(A \cup B) = Cardinality(A) + Cardinality(B) - Cardinality(A \cap B)
  BY <1>1, FS_Union
<1> QED  BY <1>1, <1>2

LEMMA Subsets ==
    /\ Running \in SUBSET Runs /\ Requests \in SUBSET Runs /\ Checked \in SUBSET Runs
    /\ Counted \in SUBSET Runs /\ Admitted \in SUBSET Counted
    /\ Admitting \in SUBSET Runs /\ Requesting \in SUBSET Runs
  BY DEF Running, Requests, Checked, Counted, Admitted, Admitting, Requesting

\* A step that brings nobody to a place keeps the limits.
LEMMA FewerStep ==
    ASSUME IsFiniteSet(Runs), LimitInv, TypeOK', Counted' \subseteq Counted,
           Admitting' \subseteq Admitting, Requesting' \subseteq Requesting
    PROVE  LimitInv'
<1>1. /\ Cardinality(Counted') <= Cardinality(Counted)
      /\ Cardinality(Admitting') <= Cardinality(Admitting)
      /\ Cardinality(Requesting') <= Cardinality(Requesting)
      /\ Cardinality(Counted') \in Nat /\ Cardinality(Counted) \in Nat
      /\ Cardinality(Admitting') \in Nat /\ Cardinality(Admitting) \in Nat
      /\ Cardinality(Requesting') \in Nat /\ Cardinality(Requesting) \in Nat
  BY Subsets, Part
<1> QED  BY <1>1, AdmissionAssumption DEF LimitInv, PlaceInv

\* A count below its limit leaves room for all requests that are between count and row.
LEMMA Room ==
    ASSUME IsFiniteSet(Runs), NEW A \in SUBSET Runs, NEW C \in SUBSET Runs, NEW B \in SUBSET Runs,
           NEW max \in Nat, Cardinality(A) < max, Cardinality(C) <= Clients,
           B \subseteq A \cup C
    PROVE  Cardinality(B) <= max - 1 + Clients
<1>1. Cardinality(A \cup C) <= Cardinality(A) + Cardinality(C)
  BY Both
<1>2. /\ Cardinality(B) <= Cardinality(A \cup C)
      /\ Cardinality(B) \in Nat /\ Cardinality(A \cup C) \in Nat
      /\ Cardinality(A) \in Nat /\ Cardinality(C) \in Nat
  BY Part
<1> QED  BY <1>1, <1>2, AdmissionAssumption

LEMMA CountRequestsStep ==
    ASSUME IsFiniteSet(Runs), LimitInv, NEW r \in Runs, CountRequests(r)
    PROVE  LimitInv'
<1> USE DEF LimitInv
<1>1. run[r].pc = "idle" /\ Cardinality(Counted) < Clients
  BY DEF CountRequests
<1>2. CASE Goto(r, "rejected")
  <2>1. TypeOK'
    BY <1>1, <1>2, GotoRecord DEF TypeOK, HasRow
  <2>2. Counted' \subseteq Counted /\ Admitting' \subseteq Admitting /\ Requesting' \subseteq Requesting
    BY <1>1, <1>2, GotoRecord DEF Counted, Admitting, Admitted, Requesting, Running, Requests,
       Checked, HasRow, StatusSet
  <2> QED  BY <2>1, <2>2, FewerStep
<1>3. CASE Goto(r, "counted") /\ Cardinality(Requests) < MaxRequests
  <2>1. TypeOK'
    BY <1>1, <1>3, GotoRecord DEF TypeOK, HasRow
  <2>2. /\ Counted' \in SUBSET (Counted \cup {r}) /\ Admitting' \in SUBSET Admitting
        /\ Requests' = Requests
    BY <1>1, <1>3, GotoRecord DEF Counted, Admitting, Admitted, Running, Requests,
       Checked, HasRow, StatusSet
  <2>3. Cardinality(Counted') <= Clients
    <3>1. Cardinality(Counted') <= Cardinality(Counted \cup {r})
      BY <2>2, Subsets, Part
    <3>2. Cardinality(Counted \cup {r}) <= Cardinality(Counted) + 1
      BY Subsets, Part, FS_AddElement
    <3>3. /\ Cardinality(Counted') \in Nat /\ Cardinality(Counted) \in Nat
          /\ Cardinality(Counted \cup {r}) \in Nat
      BY <2>2, Subsets, Part
    <3> QED  BY <1>1, <3>1, <3>2, <3>3, AdmissionAssumption
  <2>4. Cardinality(Admitting') <= MaxConcurrency - 1 + Clients
    <3>1. /\ Cardinality(Admitting') <= Cardinality(Admitting)
          /\ Cardinality(Admitting') \in Nat /\ Cardinality(Admitting) \in Nat
      BY <2>2, Subsets, Part
    <3> QED  BY <3>1, AdmissionAssumption DEF PlaceInv
  <2>5. Cardinality(Requesting') <= MaxRequests - 1 + Clients
    <3>1. Requesting' \subseteq Requests \cup Counted' /\ Counted' \in SUBSET Runs
      BY <2>2, Subsets DEF Requesting
    <3> QED  BY <1>3, <2>3, <3>1, Room, Subsets, AdmissionAssumption
  <2> QED  BY <2>1, <2>3, <2>4, <2>5 DEF PlaceInv
<1>4. Cardinality(Requests) \in Nat
  BY Subsets, Part
<1> QED  BY <1>2, <1>3, <1>4, AdmissionAssumption DEF CountRequests

LEMMA CountRunningStep ==
    ASSUME IsFiniteSet(Runs), LimitInv, NEW r \in Runs, CountRunning(r)
    PROVE  LimitInv'
<1> USE DEF LimitInv
<1>1. run[r].pc = "counted"
  BY DEF CountRunning
<1>2. CASE Goto(r, "rejected")
  <2>1. TypeOK'
    BY <1>1, <1>2, GotoRecord DEF TypeOK, HasRow
  <2>2. Counted' \subseteq Counted /\ Admitting' \subseteq Admitting /\ Requesting' \subseteq Requesting
    BY <1>1, <1>2, GotoRecord DEF Counted, Admitting, Admitted, Requesting, Running, Requests,
       Checked, HasRow, StatusSet
  <2> QED  BY <2>1, <2>2, FewerStep
<1>3. CASE Goto(r, "admitted") /\ Cardinality(Running) < MaxConcurrency
  <2>1. TypeOK'
    BY <1>1, <1>3, GotoRecord DEF TypeOK, HasRow
  <2>2. Counted' = Counted /\ Requesting' = Requesting /\ Admitting' \subseteq Running \cup Counted
    BY <1>1, <1>3, GotoRecord DEF Counted, Admitting, Admitted, Requesting, Running, Requests,
       Checked, HasRow, StatusSet
  <2>3. Cardinality(Admitting') <= MaxConcurrency - 1 + Clients
    <3>1. Admitting' \in SUBSET Runs
      BY <2>2, Subsets
    <3> QED  BY <1>3, <2>2, <3>1, Room, Subsets, AdmissionAssumption DEF PlaceInv
  <2> QED  BY <2>1, <2>2, <2>3 DEF PlaceInv
<1>4. Cardinality(Running) \in Nat
  BY Subsets, Part
<1> QED  BY <1>2, <1>3, <1>4, AdmissionAssumption DEF CountRunning

\* Every other step: a row takes its request's place, or is lost, closed or older; a row
\* that was not checked takes nobody's; a user tries again.
LEMMA OtherStep ==
    ASSUME IsFiniteSet(Runs), LimitInv, NEW r \in Runs,
           Create(r) \/ CreateUnchecked(r) \/ TryAgain(r) \/ Lose(r) \/ Close(r) \/ Age(r)
    PROVE  LimitInv'
<1> USE DEF LimitInv
<1> DEFINE Fewer == /\ TypeOK' /\ Counted' \subseteq Counted
                    /\ Admitting' \subseteq Admitting /\ Requesting' \subseteq Requesting
<1>1. CASE TryAgain(r) \/ Lose(r) \/ Close(r)
  <2>1. PICK pc \in {"idle", "lost", "closed"} :
            /\ Goto(r, pc)
            /\ pc = "idle" => run[r].pc = "rejected"
            /\ pc # "idle" => run[r].pc = "open"
    BY <1>1 DEF TryAgain, Lose, Close
  <2>2. TypeOK'
    BY <2>1, GotoRecord DEF TypeOK, HasRow
  <2>3. Counted' \subseteq Counted /\ Admitting' \subseteq Admitting /\ Requesting' \subseteq Requesting
    BY <2>1, GotoRecord DEF Counted, Admitting, Admitted, Requesting, Running, Requests,
       Checked, HasRow, StatusSet
  <2> QED  BY <2>2, <2>3, FewerStep
<1>2. CASE Create(r) \/ CreateUnchecked(r)
  <2> DEFINE made(c) == [pc |-> "open", age |-> "new", checked |-> c]
  <2>1. PICK c \in BOOLEAN : run' = [run EXCEPT ![r] = made(c)] /\ (c => run[r].pc = "admitted")
    <3>1. CASE Create(r)
      BY <3>1 DEF Create
    <3>2. CASE CreateUnchecked(r)
      BY <3>2 DEF CreateUnchecked
    <3> QED  BY <1>2, <3>1, <3>2
  <2>2. /\ run' \in [Runs -> Run] /\ \A q \in Runs \ {r} : run'[q] = run[q]
        /\ run'[r].pc = "open" /\ run'[r].age = "new" /\ run'[r].checked = c
    BY <2>1 DEF TypeOK, Run
  <2>3. TypeOK'
    BY <2>1, <2>2 DEF TypeOK, HasRow
  <2>4. Counted' \subseteq Counted /\ Admitting' \subseteq Admitting /\ Requesting' \subseteq Requesting
    BY <2>1, <2>2 DEF Counted, Admitting, Admitted, Requesting, Running, Requests,
       Checked, HasRow, StatusSet
  <2> QED  BY <2>3, <2>4, FewerStep
<1>3. CASE Age(r)
  <2>1. PICK age \in {"minute", "old"} : run' = [run EXCEPT ![r].age = age]
    BY <1>3 DEF Age, TypeOK, Run
  <2>2. /\ run' \in [Runs -> Run] /\ run'[r] = [run[r] EXCEPT !.age = age]
        /\ run'[r].pc = run[r].pc /\ run'[r].checked = run[r].checked /\ run'[r].age = age
        /\ \A q \in Runs \ {r} : run'[q] = run[q]
    BY <2>1 DEF TypeOK, Run
  <2>3. HasRow(r) /\ run[r].age # "old"
    BY <1>3 DEF Age
  <2>4. TypeOK'
    BY <2>2, <2>3 DEF TypeOK, HasRow
  <2>5. Counted' \subseteq Counted /\ Admitting' \subseteq Admitting /\ Requesting' \subseteq Requesting
    BY <2>2, <2>3 DEF Counted, Admitting, Admitted, Requesting, Running, Requests,
       Checked, HasRow, StatusSet
  <2> QED  BY <2>4, <2>5, FewerStep
<1> QED  BY <1>1, <1>2, <1>3

LEMMA InitLimits == IsFiniteSet(Runs) /\ Init => LimitInv
<1> SUFFICES ASSUME IsFiniteSet(Runs), Init PROVE LimitInv
  OBVIOUS
<1>1. TypeOK
  BY DEF Init, TypeOK, Run, HasRow
<1>2. Counted = {} /\ Admitting = {} /\ Requesting = {}
  BY DEF Init, Counted, Admitting, Admitted, Requesting, Running, Requests, Checked
<1> QED  BY <1>1, <1>2, FS_EmptySet, AdmissionAssumption DEF LimitInv, PlaceInv

LEMMA NextLimits == IsFiniteSet(Runs) /\ LimitInv /\ [Next]_run => LimitInv'
<1> SUFFICES ASSUME IsFiniteSet(Runs), LimitInv, [Next]_run PROVE LimitInv'
  OBVIOUS
<1>1. CASE UNCHANGED run
  BY <1>1 DEF LimitInv, TypeOK, PlaceInv, Counted, Admitting, Admitted, Requesting, Running,
     Requests, Checked, HasRow, StatusSet
<1>2. CASE Next
  BY <1>2, CountRequestsStep, CountRunningStep, OtherStep DEF Next
<1> QED  BY <1>1, <1>2

-----------------------------------------------------------------------------
\* The inductive invariant of admission, for any number of requests at once.
THEOREM LimitsCorrect ==
    ASSUME IsFiniteSet(Runs)
    PROVE  Spec => []LimitInv
  BY InitLimits, NextLimits, PTL DEF Spec

\* "Limit: {max_concurrency} concurrent runs" and "Limit: {max_requests} requests"
\* (daras_ai_v2/ratelimits.py): between the counts and its row a request is not seen by
\* the others, and rows that are created without a check are not limited; still a user's
\* checked runs exceed a limit by fewer than the requests that are served at once.
THEOREM LimitsHold ==
    ASSUME IsFiniteSet(Runs)
    PROVE  Spec => []WithinLimits
<1>1. LimitInv => WithinLimits
  <2> SUFFICES ASSUME LimitInv PROVE WithinLimits
    OBVIOUS
  <2>1. /\ Cardinality(Running \cap Checked) <= Cardinality(Admitting)
        /\ Cardinality(Requests \cap Checked) <= Cardinality(Requesting)
        /\ Cardinality(Running \cap Checked) \in Nat /\ Cardinality(Admitting) \in Nat
        /\ Cardinality(Requests \cap Checked) \in Nat /\ Cardinality(Requesting) \in Nat
    <3>1. /\ Running \cap Checked \in SUBSET Admitting
          /\ Requests \cap Checked \in SUBSET Requesting
      BY DEF Admitting, Requesting
    <3> QED  BY <3>1, Subsets, Part
  <2> QED  BY <2>1, AdmissionAssumption
           DEF LimitInv, PlaceInv, WithinLimits, ConcurrencyLimit, RequestLimit
<1> QED  BY <1>1, LimitsCorrect, PTL

-----------------------------------------------------------------------------
(* Credits: how far an account is overdrawn *)

\* Runs that are under way and had the price in a.
OpenFor(a) == {j \in Jobs : job[j].pc = "open" /\ job[j].checked = a}

\* A page is new until its worker or call takes it, and not charged until it is.
PageInv ==
    /\ \A j \in Jobs : job[j].pc = "idle" => job[j].checked = "none"
    /\ \A j \in Jobs : job[j].pc \in {"idle", "recharging", "open"} => job[j].cost = 0
    /\ Cardinality(Busy) <= Workers

\* What the balances will be at worst when all of them have been charged.
DebtInv ==
    \A a \in Accounts :
        MaxPrice * Cardinality(OpenFor(a)) <= money[a] + MaxPrice * Workers + MaxPrice * blind[a]

CreditInv == CreditTypes /\ PageInv /\ DebtInv

LEMMA Multiples ==
    /\ MaxPrice \in Nat
    /\ \A k \in Nat : MaxPrice * k \in Nat /\ MaxPrice * (k + 1) = MaxPrice * k + MaxPrice
    /\ \A k, n \in Nat : k <= n => MaxPrice * k <= MaxPrice * n
<1>1. MaxPrice \in Nat
  BY CreditAssumption
<1>2. ASSUME NEW k \in Nat PROVE MaxPrice * k \in Nat /\ MaxPrice * (k + 1) = MaxPrice * k + MaxPrice
  BY <1>1
<1>3. ASSUME NEW k \in Nat, NEW n \in Nat, k <= n PROVE MaxPrice * k <= MaxPrice * n
  BY <1>1, <1>3
<1> QED  BY <1>1, <1>2, <1>3

LEMMA Pages ==
    /\ \A pc \in {"idle", "recharging", "open", "closed"} : Page(pc) \in Job
    /\ \A pc : /\ Page(pc).pc = pc /\ Page(pc).checked = "none" /\ Page(pc).cost = 0
    /\ \A a \in Accounts, c \in BOOLEAN :
          /\ Opened(a, c) \in Job
          /\ Opened(a, c).pc = "open" /\ Opened(a, c).checked = a /\ Opened(a, c).cost = 0
<1>1. ASSUME NEW pc PROVE Page(pc).pc = pc /\ Page(pc).checked = "none" /\ Page(pc).cost = 0
  BY DEF Page
<1>2. ASSUME NEW pc \in {"idle", "recharging", "open", "closed"} PROVE Page(pc) \in Job
  BY CreditAssumption DEF Page, Job
<1>3. ASSUME NEW a \in Accounts, NEW c \in BOOLEAN
      PROVE  /\ Opened(a, c) \in Job
             /\ Opened(a, c).pc = "open" /\ Opened(a, c).checked = a /\ Opened(a, c).cost = 0
  <2>1. Page("open") \in Job /\ Page("open").pc = "open" /\ Page("open").cost = 0
    BY <1>1, <1>2
  <2> QED  BY <2>1 DEF Opened, Job
<1> QED  BY <1>1, <1>2, <1>3

LEMMA JobCounts ==
    ASSUME NEW A \in SUBSET Jobs, NEW B \in SUBSET A
    PROVE  /\ IsFiniteSet(A) /\ Cardinality(A) \in Nat
           /\ Cardinality(B) \in Nat /\ Cardinality(B) <= Cardinality(A)
<1>1. IsFiniteSet(A)
  BY CreditAssumption, FS_Subset
<1> QED  BY <1>1, FS_Subset, FS_CardinalityType

LEMMA JobSets ==
    /\ Busy \in SUBSET Jobs
    /\ \A a \in Accounts : OpenFor(a) \in SUBSET Busy
  BY DEF Busy, OpenFor

\* A step that opens no page.
LEMMA NoneOpened ==
    ASSUME CreditInv, CreditTypes', NEW a \in Accounts,
           OpenFor(a)' \subseteq OpenFor(a), money'[a] >= money[a], blind'[a] = blind[a]
    PROVE  MaxPrice * Cardinality(OpenFor(a)') <= money'[a] + MaxPrice * Workers + MaxPrice * blind'[a]
<1>1. /\ Cardinality(OpenFor(a)') \in Nat /\ Cardinality(OpenFor(a)) \in Nat
      /\ Cardinality(OpenFor(a)') <= Cardinality(OpenFor(a))
  BY JobSets, JobCounts
<1>2. /\ MaxPrice * Cardinality(OpenFor(a)') <= MaxPrice * Cardinality(OpenFor(a))
      /\ MaxPrice * Cardinality(OpenFor(a)') \in Nat /\ MaxPrice * Cardinality(OpenFor(a)) \in Nat
  BY <1>1, Multiples
<1>3. /\ money[a] \in Int /\ money'[a] \in Int /\ blind[a] \in Nat /\ Workers \in Nat
  BY CreditAssumption DEF CreditInv, CreditTypes
<1>4. MaxPrice * Workers \in Nat /\ MaxPrice * blind[a] \in Nat
  BY <1>3, Multiples
<1> QED  BY <1>2, <1>3, <1>4 DEF CreditInv, DebtInv

\* An account that is not overdrawn can pay for as many runs as there are workers.
LEMMA NoDebt ==
    ASSUME CreditInv, CreditTypes', NEW a \in Accounts, Cardinality(Busy') <= Workers,
           money'[a] >= 0
    PROVE  MaxPrice * Cardinality(OpenFor(a)') <= money'[a] + MaxPrice * Workers + MaxPrice * blind'[a]
<1>1. OpenFor(a)' \in SUBSET Busy' /\ Busy' \in SUBSET Jobs
  BY DEF OpenFor, Busy
<1>2. /\ Cardinality(OpenFor(a)') \in Nat /\ Cardinality(Busy') \in Nat
      /\ Cardinality(OpenFor(a)') <= Cardinality(Busy')
  BY <1>1, JobCounts
<1>3. /\ money'[a] \in Int /\ blind'[a] \in Nat /\ Workers \in Nat
  BY CreditAssumption DEF CreditTypes
<1>4. /\ MaxPrice * Cardinality(OpenFor(a)') <= MaxPrice * Workers
      /\ MaxPrice * Cardinality(OpenFor(a)') \in Nat /\ MaxPrice * Workers \in Nat
      /\ MaxPrice * blind'[a] \in Nat
  BY <1>2, <1>3, Multiples
<1> QED  BY <1>3, <1>4

\* A worker takes a page.
LEMMA TakeStep ==
    ASSUME CreditInv, NEW j \in Jobs, job[j].pc = "idle", Cardinality(Busy) < Workers,
           NEW new \in Job, job' = [job EXCEPT ![j] = new],
           new.pc \in {"recharging", "open", "closed"}, new.cost = 0,
           new.pc = "open" => new.checked \in Accounts /\ money[new.checked] >= 0,
           UNCHANGED <<money, blind, plan, joined>>
    PROVE  CreditInv'
<1>1. CreditTypes' /\ job'[j] = new /\ \A k \in Jobs \ {j} : job'[k] = job[k]
  BY DEF CreditInv, CreditTypes
<1>2. Cardinality(Busy') <= Workers
  <2>1. Busy' \in SUBSET (Busy \cup {j}) /\ Busy \cup {j} \in SUBSET Jobs
    BY <1>1 DEF Busy
  <2>2. Cardinality(Busy \cup {j}) <= Cardinality(Busy) + 1
    BY JobSets, JobCounts, FS_AddElement
  <2> QED  BY <2>1, <2>2, JobSets, JobCounts, CreditAssumption
<1>3. PageInv'
  BY <1>1, <1>2 DEF CreditInv, PageInv
<1>4. ASSUME NEW a \in Accounts
      PROVE  MaxPrice * Cardinality(OpenFor(a)') <= money'[a] + MaxPrice * Workers + MaxPrice * blind'[a]
  <2>1. CASE new.pc = "open" /\ new.checked = a
    BY <1>1, <1>2, <2>1, NoDebt
  <2>2. CASE ~(new.pc = "open" /\ new.checked = a)
    <3>1. OpenFor(a)' \subseteq OpenFor(a)
      BY <1>1, <2>2 DEF OpenFor
    <3>2. money'[a] = money[a] /\ money[a] \in Int /\ blind'[a] = blind[a]
      BY DEF CreditInv, CreditTypes
    <3> QED  BY <1>1, <3>1, <3>2, NoneOpened
  <2> QED  BY <2>1, <2>2
<1> QED  BY <1>1, <1>3, <1>4 DEF CreditInv, DebtInv

\* A page in a worker goes on without a charge.
LEMMA MoveStep ==
    ASSUME CreditInv, NEW j \in Jobs, job[j].pc \in {"recharging", "open", "charged"},
           NEW new \in Job, job' = [job EXCEPT ![j] = new],
           new.pc \in {"open", "closed"}, new.cost = 0,
           new.pc = "open" => new.checked \in Accounts /\ money[new.checked] >= 0,
           UNCHANGED <<money, blind, plan, joined>>
    PROVE  CreditInv'
<1>1. CreditTypes' /\ job'[j] = new /\ \A k \in Jobs \ {j} : job'[k] = job[k]
  BY DEF CreditInv, CreditTypes
<1>2. Cardinality(Busy') <= Workers
  <2>1. Busy' \in SUBSET Busy
    BY <1>1 DEF Busy
  <2> QED  BY <2>1, JobSets, JobCounts, CreditAssumption DEF CreditInv, PageInv
<1>3. PageInv'
  BY <1>1, <1>2 DEF CreditInv, PageInv
<1>4. ASSUME NEW a \in Accounts
      PROVE  MaxPrice * Cardinality(OpenFor(a)') <= money'[a] + MaxPrice * Workers + MaxPrice * blind'[a]
  <2>1. CASE new.pc = "open" /\ new.checked = a
    BY <1>1, <1>2, <2>1, NoDebt
  <2>2. CASE ~(new.pc = "open" /\ new.checked = a)
    <3>1. OpenFor(a)' \subseteq OpenFor(a)
      BY <1>1, <2>2 DEF OpenFor
    <3>2. money'[a] = money[a] /\ money[a] \in Int /\ blind'[a] = blind[a]
      BY DEF CreditInv, CreditTypes
    <3> QED  BY <1>1, <3>1, <3>2, NoneOpened
  <2> QED  BY <2>1, <2>2
<1> QED  BY <1>1, <1>3, <1>4 DEF CreditInv, DebtInv

LEMMA OpenedStep ==
    ASSUME CreditInv, NEW j \in Jobs, UNCHANGED <<money, blind, plan, joined>>,
           (job[j].pc = "idle" /\ Cardinality(Busy) < Workers) \/ job[j].pc = "recharging",
           NEW a \in Accounts, NEW c \in BOOLEAN, money[a] >= 0,
           job' = [job EXCEPT ![j] = Opened(a, c)]
    PROVE  CreditInv'
<1> DEFINE new == Opened(a, c)
<1>1. new \in Job /\ new.pc = "open" /\ new.checked = a /\ new.cost = 0
  BY Pages
<1>2. job' = [job EXCEPT ![j] = new]
  OBVIOUS
<1> HIDE DEF new
<1>3. CASE job[j].pc = "idle" /\ Cardinality(Busy) < Workers
  BY <1>1, <1>2, <1>3, TakeStep
<1>4. CASE job[j].pc = "recharging"
  BY <1>1, <1>2, <1>4, MoveStep
<1> QED  BY <1>3, <1>4

LEMMA ClosedStep ==
    ASSUME CreditInv, NEW j \in Jobs, UNCHANGED <<money, blind, plan, joined>>,
           \/ job[j].pc = "idle" /\ Cardinality(Busy) < Workers
           \/ job[j].pc \in {"recharging", "open", "charged"},
           job' = [job EXCEPT ![j] = Page("closed")]
    PROVE  CreditInv'
<1> DEFINE new == Page("closed")
<1>1. new \in Job /\ new.pc = "closed" /\ new.cost = 0
  BY Pages
<1>2. job' = [job EXCEPT ![j] = new]
  OBVIOUS
<1> HIDE DEF new
<1>3. CASE job[j].pc = "idle" /\ Cardinality(Busy) < Workers
  BY <1>1, <1>2, <1>3, TakeStep
<1>4. CASE job[j].pc \in {"recharging", "open", "charged"}
  BY <1>1, <1>2, <1>4, MoveStep
<1> QED  BY <1>3, <1>4

\* A run that is charged to the account it was checked for is no longer under way;
\* another charge is one that no check came before.
LEMMA ChargeStep ==
    ASSUME CreditInv, NEW j \in Jobs, NEW p \in Prices, NEW pc \in {"charged", "closed"},
           job[j].pc = IF pc = "charged" THEN "open" ELSE "idle", Charge(j, p, pc)
    PROVE  CreditInv'
<1> DEFINE b == Account(j)
<1>1. /\ job \in [Jobs -> Job] /\ job[j] \in Job /\ p \in 1 .. MaxPrice /\ MaxPrice \in Nat
      /\ money \in [Accounts -> Int] /\ blind \in [Accounts -> Nat]
      /\ job[j].cost = 0 /\ Workers \in Nat
  BY CreditAssumption DEF CreditInv, CreditTypes, PageInv, Prices
<1>2. b \in Accounts
  BY <1>1 DEF Account, Accounts, Job
<1>3. /\ money' = [money EXCEPT ![b] = @ - p]
      /\ blind' = [blind EXCEPT ![b] = IF job[j].checked = b THEN @ ELSE @ + 1]
      /\ job' = [job EXCEPT ![j].pc = pc, ![j].cost = @ + p]
      /\ UNCHANGED <<plan, joined>>
  BY DEF Charge
<1> HIDE DEF b
<1>4. /\ job'[j] \in Job /\ job'[j].pc = pc /\ job'[j].checked = job[j].checked
      /\ \A k \in Jobs \ {j} : job'[k] = job[k]
      /\ job' \in [Jobs -> Job]
  <2>1. job'[j] = [pc |-> pc, quote |-> job[j].quote, checked |-> job[j].checked,
                   reread |-> job[j].reread, cost |-> p]
    BY <1>1, <1>3 DEF Job
  <2>2. job'[j] \in Job
    BY <1>1, <2>1 DEF Job
  <2> QED  BY <1>1, <1>3, <2>1, <2>2
<1>5. /\ money' \in [Accounts -> Int] /\ blind' \in [Accounts -> Nat]
      /\ \A a \in Accounts \ {b} : money'[a] = money[a] /\ blind'[a] = blind[a]
      /\ money'[b] = money[b] - p
      /\ blind'[b] = IF job[j].checked = b THEN blind[b] ELSE blind[b] + 1
  BY <1>1, <1>2, <1>3
<1>6. CreditTypes'
  BY <1>3, <1>4, <1>5 DEF CreditInv, CreditTypes
<1>7. PageInv'
  <2>1. Busy' \in SUBSET Busy
    BY <1>4 DEF Busy
  <2>2. Cardinality(Busy') <= Workers
    BY <2>1, JobSets, JobCounts, CreditAssumption DEF CreditInv, PageInv
  <2> QED  BY <1>4, <2>2 DEF CreditInv, PageInv
<1>8. \A a \in Accounts : OpenFor(a)' \subseteq OpenFor(a) \ {j}
  BY <1>4 DEF OpenFor
<1>9. ASSUME NEW a \in Accounts
      PROVE  MaxPrice * Cardinality(OpenFor(a)') <= money'[a] + MaxPrice * Workers + MaxPrice * blind'[a]
  <2>1. CASE a # b
    <3>1. money'[a] >= money[a] /\ blind'[a] = blind[a]
      BY <1>1, <1>5, <2>1
    <3> QED  BY <1>6, <1>8, <3>1, NoneOpened
  <2>2. /\ OpenFor(a) \in SUBSET Jobs /\ OpenFor(a)' \in SUBSET OpenFor(a)
        /\ Cardinality(OpenFor(a)) \in Nat /\ Cardinality(OpenFor(a)') \in Nat
        /\ Cardinality(OpenFor(a)') <= Cardinality(OpenFor(a))
        /\ IsFiniteSet(OpenFor(a))
    BY <1>8, JobSets, JobCounts
  <2>3. /\ MaxPrice * Cardinality(OpenFor(a)) <= money[a] + MaxPrice * Workers + MaxPrice * blind[a]
        /\ MaxPrice * Workers \in Nat /\ MaxPrice * blind[a] \in Nat /\ money[a] \in Int
        /\ blind[a] \in Nat
    BY <1>1, Multiples DEF CreditInv, DebtInv
  <2>4. CASE a = b /\ job[j].checked # b
    <3>1. money'[a] = money[a] - p /\ MaxPrice * blind'[a] = MaxPrice * blind[a] + MaxPrice
      BY <1>5, <2>3, <2>4, Multiples
    <3>2. MaxPrice * Cardinality(OpenFor(a)') <= MaxPrice * Cardinality(OpenFor(a))
      BY <2>2, Multiples
    <3>3. MaxPrice * Cardinality(OpenFor(a)') \in Nat /\ MaxPrice * Cardinality(OpenFor(a)) \in Nat
      BY <2>2, Multiples
    <3> QED  BY <1>1, <2>3, <3>1, <3>2, <3>3
  <2>5. CASE a = b /\ job[j].checked = b
    <3>1. job[j].pc = "open"
      BY <1>2, <2>5 DEF CreditInv, PageInv, Accounts
    <3>2. j \in OpenFor(a)
      BY <2>5, <3>1 DEF OpenFor
    <3>3. Cardinality(OpenFor(a) \ {j}) = Cardinality(OpenFor(a)) - 1
      BY <2>2, <3>2, FS_RemoveElement
    <3>4. /\ Cardinality(OpenFor(a)') <= Cardinality(OpenFor(a) \ {j})
          /\ Cardinality(OpenFor(a) \ {j}) \in Nat
      <4>1. OpenFor(a) \ {j} \in SUBSET Jobs /\ OpenFor(a)' \in SUBSET (OpenFor(a) \ {j})
        BY <1>8, <2>2
      <4> QED  BY <4>1, JobCounts
    <3> DEFINE n == Cardinality(OpenFor(a) \ {j})
    <3>5. MaxPrice * Cardinality(OpenFor(a)) = MaxPrice * n + MaxPrice
      <4>1. Cardinality(OpenFor(a)) = n + 1
        BY <2>2, <3>3, <3>4
      <4> QED  BY <3>4, <4>1, Multiples
    <3>6. /\ MaxPrice * Cardinality(OpenFor(a)') <= MaxPrice * n
          /\ MaxPrice * Cardinality(OpenFor(a)') \in Nat /\ MaxPrice * n \in Nat
      BY <2>2, <3>4, Multiples
    <3>7. money'[a] = money[a] - p /\ blind'[a] = blind[a]
      BY <1>5, <2>5
    <3> QED  BY <1>1, <2>3, <3>5, <3>6, <3>7
  <2> QED  BY <2>1, <2>4, <2>5
<1> QED  BY <1>6, <1>7, <1>9 DEF CreditInv, DebtInv

LEMMA RefillStep ==
    ASSUME CreditInv, UNCHANGED <<blind, job>>, money' \in [Accounts -> Int],
           \A a \in Accounts : money'[a] >= money[a] \/ money'[a] >= 0,
           plan' \in {"team", "other"}, joined' \in BOOLEAN
    PROVE  CreditInv'
<1>1. CreditTypes'
  BY DEF CreditInv, CreditTypes
<1>2. Busy' = Busy /\ \A a \in Accounts : OpenFor(a)' = OpenFor(a)
  BY DEF Busy, OpenFor
<1>3. PageInv'
  BY <1>2 DEF CreditInv, PageInv
<1>4. ASSUME NEW a \in Accounts
      PROVE  MaxPrice * Cardinality(OpenFor(a)') <= money'[a] + MaxPrice * Workers + MaxPrice * blind'[a]
  <2>1. CASE money'[a] >= money[a]
    BY <1>1, <1>2, <2>1, NoneOpened
  <2>2. CASE money'[a] >= 0
    BY <1>1, <1>3, <2>2, NoDebt DEF PageInv
  <2> QED  BY <2>1, <2>2
<1> QED  BY <1>1, <1>3, <1>4 DEF CreditInv, DebtInv

LEMMA InitCredits == CreditInit => CreditInv
<1> SUFFICES ASSUME CreditInit PROVE CreditInv
  OBVIOUS
<1>1. CreditTypes
  BY Pages DEF CreditInit, CreditTypes
<1>2. Busy = {} /\ \A a \in Accounts : OpenFor(a) = {}
  BY Pages DEF CreditInit, Busy, OpenFor
<1>3. PageInv
  BY <1>2, Pages, FS_EmptySet, CreditAssumption DEF CreditInit, PageInv
<1>4. ASSUME NEW a \in Accounts
      PROVE  MaxPrice * Cardinality(OpenFor(a)) <= money[a] + MaxPrice * Workers + MaxPrice * blind[a]
  <2>1. Cardinality(OpenFor(a)) = 0 /\ money[a] = 0 /\ blind[a] = 0
    BY <1>2, FS_EmptySet DEF CreditInit
  <2>2. MaxPrice * 0 = 0 /\ MaxPrice * Workers \in Nat
    BY CreditAssumption, Multiples
  <2> QED  BY <2>1, <2>2
<1> QED  BY <1>1, <1>3, <1>4 DEF CreditInv, DebtInv

LEMMA NextCredits == CreditInv /\ [CreditNext]_credit => CreditInv'
<1> SUFFICES ASSUME CreditInv, [CreditNext]_credit PROVE CreditInv'
  OBVIOUS
<1>1. /\ money \in [Accounts -> Int] /\ job \in [Jobs -> Job] /\ plan \in {"team", "other"}
      /\ joined \in BOOLEAN /\ \A a \in Accounts : money[a] >= money[a]
      /\ "workspace" \in Accounts /\ "member" \in Accounts
  BY DEF CreditInv, CreditTypes, Accounts
<1>2. ASSUME NEW j \in Jobs, NEW q \in Prices,
             EnsureMember(j, q) \/ EnsureWorkspace(j, q) \/ Recharge(j, q) \/ Refuse(j, q)
      PROVE  CreditInv'
  <2>1. /\ job[j].pc = "idle" /\ Cardinality(Busy) < Workers
        /\ UNCHANGED <<money, blind, plan, joined>>
    BY <1>2 DEF EnsureMember, EnsureWorkspace, Recharge, Refuse, Take
  <2>6. q \in 0 .. MaxPrice /\ q \in Nat
    BY CreditAssumption DEF Prices
  <2>2. CASE EnsureMember(j, q)
    <3>1. job' = [job EXCEPT ![j] = Opened("member", FALSE)] /\ money["member"] >= 0
      BY <1>1, <2>2, <2>6 DEF EnsureMember
    <3> QED  BY <1>1, <2>1, <3>1, OpenedStep
  <2>3. CASE EnsureWorkspace(j, q)
    <3>1. job' = [job EXCEPT ![j] = Opened("workspace", FALSE)] /\ money["workspace"] >= 0
      BY <1>1, <2>3, <2>6 DEF EnsureWorkspace
    <3> QED  BY <1>1, <2>1, <3>1, OpenedStep
  <2>4. CASE Recharge(j, q)
    <3> DEFINE new == [Page("recharging") EXCEPT !.quote = q]
    <3>1. new \in Job /\ new.pc = "recharging" /\ new.cost = 0
      <4>1. Page("recharging") \in Job /\ Page("recharging").pc = "recharging" /\ Page("recharging").cost = 0
        BY Pages
      <4> QED  BY <2>6, <4>1 DEF Job
    <3>2. job' = [job EXCEPT ![j] = new]
      BY <2>4 DEF Recharge
    <3> HIDE DEF new
    <3> QED  BY <2>1, <3>1, <3>2, TakeStep
  <2>5. CASE Refuse(j, q)
    <3>1. job' = [job EXCEPT ![j] = Page("closed")]
      BY <2>5 DEF Refuse
    <3> QED  BY <2>1, <3>1, ClosedStep
  <2> QED  BY <1>2, <2>2, <2>3, <2>4, <2>5
<1>3. ASSUME NEW j \in Jobs, Recharged(j) PROVE CreditInv'
  <2>1. job[j].pc = "recharging" /\ job[j].quote \in 0 .. MaxPrice
        /\ UNCHANGED <<money, blind, plan, joined>>
    BY <1>1, <1>3 DEF Recharged, Job
  <2>2. CASE money["workspace"] >= job[j].quote
    <3>1. job' = [job EXCEPT ![j] = Opened("workspace", TRUE)]
      BY <1>3, <2>2 DEF Recharged
    <3>2. money["workspace"] >= 0
      BY <1>1, <2>1, <2>2, CreditAssumption
    <3> QED  BY <1>1, <2>1, <3>1, <3>2, OpenedStep
  <2>3. CASE ~(money["workspace"] >= job[j].quote)
    <3>1. job' = [job EXCEPT ![j] = Page("closed")]
      BY <1>3, <2>3 DEF Recharged
    <3> QED  BY <2>1, <3>1, ClosedStep
  <2> QED  BY <2>2, <2>3
<1>4. ASSUME NEW j \in Jobs, Finish(j) PROVE CreditInv'
  <2>1. /\ job[j].pc \in {"recharging", "open", "charged"}
        /\ job' = [job EXCEPT ![j] = Page("closed")] /\ UNCHANGED <<money, blind, plan, joined>>
    BY <1>4 DEF Finish
  <2> QED  BY <2>1, ClosedStep
<1>5. ASSUME NEW j \in Jobs, NEW q \in Prices, Deduct(j, q) \/ Call(j, q) PROVE CreditInv'
  BY <1>5, ChargeStep DEF Deduct, Call
<1>6. CASE ChangePlan
  <2>1. plan' \in {"team", "other"} /\ UNCHANGED <<money, blind, joined, job>>
    BY <1>6 DEF ChangePlan
  <2> QED  BY <1>1, <2>1, RefillStep
<1>7. CASE JoinOrLeave
  <2>1. joined' \in BOOLEAN /\ UNCHANGED <<money, blind, plan, job>>
    BY <1>7 DEF JoinOrLeave
  <2> QED  BY <1>1, <2>1, RefillStep
<1>8. ASSUME NEW n \in 1 .. MaxCredits, Refill(n) PROVE CreditInv'
  <2>1. /\ money' \in [Accounts -> Int] /\ \A a \in Accounts : money'[a] >= money[a]
        /\ UNCHANGED <<blind, plan, joined, job>>
    BY <1>1, <1>8, CreditAssumption DEF Refill
  <2> QED  BY <1>1, <2>1, RefillStep
<1>9. ASSUME NEW n \in 0 .. MaxCredits, Seat(n) PROVE CreditInv'
  <2>1. /\ money' \in [Accounts -> Int]
        /\ \A a \in Accounts : money'[a] >= money[a] \/ money'[a] >= 0
        /\ UNCHANGED <<blind, plan, joined, job>>
    BY <1>1, <1>9, CreditAssumption DEF Seat
  <2> QED  BY <1>1, <2>1, RefillStep
<1>10. CASE UNCHANGED credit
  BY <1>1, <1>10, RefillStep DEF credit
<1> QED  BY <1>2, <1>3, <1>4, <1>5, <1>6, <1>7, <1>8, <1>9, <1>10 DEF CreditNext

LEMMA CreditCorrect == CreditSpec => []CreditInv
  BY InitCredits, NextCredits, PTL DEF CreditSpec

\* A run is charged once, one price, whatever is recharged, deducted or changed around it
\* (daras_ai_v2/base.py, deduct_credits).
THEOREM ChargedOncePerRun == CreditSpec => []CreditTypes
<1>1. CreditInv => CreditTypes
  BY DEF CreditInv
<1> QED  BY <1>1, CreditCorrect, PTL

\* ensure_credits_and_auto_recharge and deduct_credits (daras_ai_v2/base.py): for any
\* prices, plans, memberships, recharges and calls, an account is overdrawn by at most one
\* price for each worker and for each charge that no check of that account came before.
THEOREM OverdraftIsBounded == CreditSpec => []OverdraftBounded
<1>1. CreditInv => OverdraftBounded
  <2> SUFFICES ASSUME CreditInv, NEW a \in Accounts
               PROVE  money[a] >= -(MaxPrice * (Workers + blind[a]))
    BY DEF OverdraftBounded
  <2>1. /\ Cardinality(OpenFor(a)) \in Nat /\ money[a] \in Int /\ blind[a] \in Nat
        /\ Workers \in Nat /\ MaxPrice \in Nat
    BY JobSets, JobCounts, CreditAssumption DEF CreditInv, CreditTypes
  <2>2. /\ MaxPrice * Cardinality(OpenFor(a)) \in Nat
        /\ MaxPrice * Workers \in Nat /\ MaxPrice * blind[a] \in Nat
    BY <2>1, Multiples
  <2>3. MaxPrice * (Workers + blind[a]) = MaxPrice * Workers + MaxPrice * blind[a]
    BY <2>1
  <2>4. 0 <= money[a] + MaxPrice * Workers + MaxPrice * blind[a]
    BY <2>1, <2>2 DEF CreditInv, DebtInv
  <2> QED  BY <2>1, <2>2, <2>3, <2>4
<1> QED  BY <1>1, CreditCorrect, PTL

-----------------------------------------------------------------------------
(* The price of a call *)

\* What is deducted at each point of a run, and who may deduct more: only a callback
\* that has read the transaction of the run, whose row is then there to be raised.
PriceInv ==
    \A r \in CallRuns :
        /\ callRun[r].pc \in {"main", "priced"} => charged[r] = 0
        /\ callRun[r].pc \in {"priced", "charged"} => callRun[r].due <= 1 + costs[r]
        /\ callRun[r].pc = "charged" => charged[r] = callRun[r].due
        /\ row[r].txn => callRun[r].pc = "over" /\ row[r].price = charged[r]
        /\ charged[r] <= 1 + costs[r]

HookInv == \A h \in Callbacks :
    hook[h].pc = "read" /\ hook[h].txn => row[hook[h].run].txn

CallInv == CallTypes /\ PriceInv /\ HookInv

\* Records of the model, and what an update leaves alone.
LEMMA CallRecords ==
    ASSUME CallTypes
    PROVE  /\ \A r \in CallRuns : /\ callRun[r].due \in Nat /\ row[r].price \in Nat
                              /\ costs[r] \in Nat /\ charged[r] \in Nat
                              /\ row[r].txn \in BOOLEAN
           /\ \A h \in Callbacks : hook[h].run \in CallRuns /\ hook[h].txn \in BOOLEAN
  BY DEF CallTypes

LEMMA InitCall == CallInit => CallInv
<1> SUFFICES ASSUME CallInit PROVE CallInv
  OBVIOUS
<1>1. (CHOOSE r \in CallRuns : TRUE) \in CallRuns
  BY CallAssumption DEF CallAssumption
<1>2. CallTypes
  BY <1>1 DEF CallInit, CallTypes
<1>6. \A r \in CallRuns : /\ callRun[r].pc = "main" /\ row[r].txn = FALSE
                       /\ charged[r] = 0 /\ costs[r] = 0
  BY DEF CallInit
<1>3. PriceInv
  <2> SUFFICES ASSUME NEW r \in CallRuns
               PROVE  /\ charged[r] = 0
                      /\ ~(callRun[r].pc \in {"priced", "charged"})
                      /\ ~row[r].txn
                      /\ charged[r] <= 1 + costs[r]
    BY Zenon DEF PriceInv
  <2>1. charged[r] <= 1 + costs[r]
    BY <1>6
  <2> QED  BY <1>6, <2>1
<1>4. \A h \in Callbacks : hook[h].pc = "none"
  BY DEF CallInit
<1>5. HookInv
  BY <1>4 DEF HookInv
<1> QED  BY <1>2, <1>3, <1>5 DEF CallInv

\* The price is computed from the costs that are there; later costs only raise the bound.
LEMMA PriceStep ==
    ASSUME CallInv, NEW r \in CallRuns, RawPrice(r)
    PROVE  CallInv'
<1> USE DEF CallInv
<1>1. 1 + costs[r] \in Nat
  BY CallRecords
<1>2. CallTypes'
  BY <1>1 DEF CallTypes, RawPrice
<1>3. /\ callRun'[r] = [pc |-> "priced", due |-> 1 + costs[r]]
      /\ \A q \in CallRuns \ {r} : callRun'[q] = callRun[q]
  BY DEF RawPrice, CallTypes
<1>4. PriceInv'
  BY <1>1, <1>3 DEF PriceInv, RawPrice
<1>5. HookInv'
  BY DEF HookInv, RawPrice
<1> QED  BY <1>2, <1>4, <1>5

LEMMA FailStep ==
    ASSUME CallInv, NEW r \in CallRuns, Fail(r)
    PROVE  CallInv'
<1> USE DEF CallInv
<1>1. CallTypes'
  BY DEF CallTypes, Fail
<1>2. /\ callRun'[r].pc = "over"
      /\ \A q \in CallRuns \ {r} : callRun'[q] = callRun[q]
  BY DEF Fail, CallTypes
<1>3. PriceInv'
  BY <1>2 DEF PriceInv, Fail
<1>4. HookInv'
  BY DEF HookInv, Fail
<1> QED  BY <1>1, <1>3, <1>4

LEMMA DeductStep ==
    ASSUME CallInv, NEW r \in CallRuns, DeductDue(r)
    PROVE  CallInv'
<1> USE DEF CallInv
<1>1. charged[r] + callRun[r].due \in Nat
  BY CallRecords
<1>2. CallTypes'
  BY <1>1 DEF CallTypes, DeductDue
<1>3. /\ callRun'[r].pc = "charged" /\ callRun'[r].due = callRun[r].due
      /\ charged'[r] = charged[r] + callRun[r].due
      /\ \A q \in CallRuns \ {r} : callRun'[q] = callRun[q] /\ charged'[q] = charged[q]
  BY DEF DeductDue, CallTypes
<1>4. charged[r] = 0 /\ callRun[r].due <= 1 + costs[r] /\ ~row[r].txn
  BY DEF PriceInv, DeductDue
<1>5. charged'[r] = callRun'[r].due
  BY <1>3, <1>4, CallRecords
<1>6. PriceInv'
  BY <1>3, <1>4, <1>5 DEF PriceInv, DeductDue
<1>7. HookInv'
  BY DEF HookInv, DeductDue
<1> QED  BY <1>2, <1>6, <1>7

LEMMA SaveRowStep ==
    ASSUME CallInv, NEW r \in CallRuns, SaveRow(r)
    PROVE  CallInv'
<1> USE DEF CallInv
<1>1. CallTypes'
  BY CallRecords DEF CallTypes, SaveRow
<1>2. /\ callRun'[r].pc = "over"
      /\ row'[r].txn /\ row'[r].price = callRun[r].due
      /\ \A q \in CallRuns \ {r} : callRun'[q] = callRun[q] /\ row'[q] = row[q]
  BY DEF SaveRow, CallTypes
<1>3. PriceInv'
  BY <1>2 DEF PriceInv, SaveRow
<1>4. HookInv'
  <2> SUFFICES ASSUME NEW h \in Callbacks, hook[h].pc = "read", hook[h].txn
               PROVE  row'[hook[h].run].txn
    BY DEF HookInv, SaveRow
  <2>1. hook[h].run \in CallRuns /\ row[hook[h].run].txn
    BY CallRecords DEF HookInv
  <2> QED  BY <1>2, <2>1
<1> QED  BY <1>1, <1>3, <1>4

LEMMA LookStep ==
    ASSUME CallInv, NEW h \in Callbacks, NEW r \in CallRuns, Look(h, r)
    PROVE  CallInv'
<1> USE DEF CallInv
<1>1. CallTypes'
  BY CallRecords DEF CallTypes, Look
<1>2. PriceInv'
  BY DEF PriceInv, Look
<1>3. /\ hook'[h].run = r /\ hook'[h].txn = row[r].txn
      /\ \A k \in Callbacks \ {h} : hook'[k] = hook[k]
  BY DEF Look, CallTypes
<1>4. HookInv'
  BY <1>3 DEF HookInv, Look
<1> QED  BY <1>1, <1>2, <1>4

\* A cost raises the bound; with the transaction it raises price and charge alike.
LEMMA RecordCostStep ==
    ASSUME CallInv, NEW h \in Callbacks, RecordCost(h)
    PROVE  CallInv'
<1> DEFINE r == hook[h].run
<1> USE DEF CallInv
<1>1. r \in CallRuns
  BY CallRecords
<1>2. /\ costs[r] + 1 \in Nat /\ charged[r] + 1 \in Nat /\ row[r].price + 1 \in Nat
  BY <1>1, CallRecords
<1>3. /\ hook[h].pc = "read"
      /\ costs' = [costs EXCEPT ![r] = @ + 1]
      /\ hook' = [hook EXCEPT ![h].pc = "done"]
      /\ callRun' = callRun
  BY DEF RecordCost
<1>4. /\ hook'[h].pc = "done"
      /\ \A k \in Callbacks \ {h} : hook'[k] = hook[k]
      /\ costs'[r] = costs[r] + 1 /\ \A q \in CallRuns \ {r} : costs'[q] = costs[q]
  BY <1>1, <1>3 DEF CallTypes
<1>5. CASE hook[h].txn
  <2>1. /\ charged' = [charged EXCEPT ![r] = @ + 1]
        /\ row' = [row EXCEPT ![r].price = @ + 1]
    BY <1>5 DEF RecordCost
  <2>2. CallTypes'
    <3>1. row' \in [CallRuns -> [txn : BOOLEAN, price : Nat]]
      <4>1. row \in [CallRuns -> [txn : BOOLEAN, price : Nat]]
        BY DEF CallTypes
      <4> HIDE DEF r, CallInv
      <4> QED  BY <1>1, <1>2, <2>1, <4>1
    <3>2. costs' \in [CallRuns -> Nat] /\ charged' \in [CallRuns -> Nat]
      BY <1>1, <1>2, <1>3, <2>1 DEF CallTypes
    <3>3. hook' \in [Callbacks -> [pc : {"none", "read", "done"}, run : CallRuns,
                                   txn : BOOLEAN, price : Nat]]
      BY <1>3 DEF CallTypes
    <3> QED  BY <1>3, <3>1, <3>2, <3>3 DEF CallTypes
  <2>3. /\ charged'[r] = charged[r] + 1
        /\ row'[r].price = row[r].price + 1 /\ row'[r].txn = row[r].txn
        /\ \A q \in CallRuns \ {r} : charged'[q] = charged[q] /\ row'[q] = row[q]
    BY <1>1, <2>1 DEF CallTypes
  <2>4. row[r].txn
    BY <1>3, <1>5 DEF HookInv
  <2>5. callRun[r].pc = "over" /\ row[r].price = charged[r] /\ charged[r] <= 1 + costs[r]
    BY <1>1, <2>4 DEF PriceInv
  <2>6. row'[r].price = charged'[r] /\ charged'[r] <= 1 + costs'[r]
    BY <1>1, <1>4, <2>3, <2>5, CallRecords
  <2>7. PriceInv'
    BY <1>1, <1>3, <1>4, <2>3, <2>5, <2>6 DEF PriceInv
  <2>8. \A q \in CallRuns : row[q].txn => row'[q].txn
    BY <2>3
  <2>9. HookInv'
    BY <1>4, <2>8, CallRecords DEF HookInv
  <2> QED  BY <2>2, <2>7, <2>9
<1>6. CASE ~hook[h].txn
  <2>1. charged' = charged /\ row' = row
    BY <1>6 DEF RecordCost
  <2>2. CallTypes'
    BY <1>1, <1>2, <1>3, <2>1 DEF CallTypes
  <2>3. \A q \in CallRuns : costs'[q] \in Nat /\ costs[q] <= costs'[q]
    BY <1>1, <1>4, CallRecords
  <2>4. \A q \in CallRuns, n \in Nat : n <= 1 + costs[q] => n <= 1 + costs'[q]
    BY <2>3, CallRecords
  <2>5. PriceInv'
    BY <1>3, <2>1, <2>4, CallRecords DEF PriceInv
  <2>6. HookInv'
    BY <1>4, <2>1 DEF HookInv
  <2> QED  BY <2>2, <2>5, <2>6
<1> QED  BY <1>5, <1>6

LEMMA NextCall == CallInv /\ [CallNext]_call => CallInv'
<1> SUFFICES ASSUME CallInv, [CallNext]_call PROVE CallInv'
  OBVIOUS
<1>1. CASE UNCHANGED call
  BY <1>1 DEF call, CallInv, CallTypes, PriceInv, HookInv
<1>2. ASSUME NEW r \in CallRuns, RawPrice(r) \/ Fail(r) \/ DeductDue(r) \/ SaveRow(r) PROVE CallInv'
  BY <1>2, PriceStep, FailStep, DeductStep, SaveRowStep
<1>3. ASSUME NEW h \in Callbacks, NEW r \in CallRuns, Look(h, r) PROVE CallInv'
  BY <1>3, LookStep
<1>4. ASSUME NEW h \in Callbacks, RecordCost(h) PROVE CallInv'
  BY <1>4, RecordCostStep
<1> QED  BY <1>1, <1>2, <1>3, <1>4 DEF CallNext

\* The inductive invariant holds in every state.
THEOREM CallCorrect == CallSpec => []CallInv
<1>1. CallInit => CallInv
  BY InitCall
<1> QED  BY <1>1, NextCall, PTL DEF CallSpec

\* The price that a charged run shows is what was deducted for it, however the end of
\* the run and any number of callbacks interleave.
THEOREM PriceCorrect == CallSpec => []PriceIsDeducted
<1>1. CallInv => PriceIsDeducted
  BY DEF CallInv, PriceInv, PriceIsDeducted
<1> QED  BY <1>1, CallCorrect, PTL

\* No call is paid for twice, once by the run that answers it and once by its callback.
THEOREM NeverPaidTwice == CallSpec => []CallPaidOnce
<1>1. CallInv => CallPaidOnce
  BY DEF CallInv, PriceInv, CallPaidOnce
<1> QED  BY <1>1, CallCorrect, PTL

-----------------------------------------------------------------------------
(* Conversations: the question that an answer is analysed with *)

TurnPCs == {"running", "dropped", "user", "both", "saved", "asked"}
Message == [turn : Turns, role : {"user", "assistant"}]
User(t) == [turn |-> t, role |-> "user"]
Answer(t) == [turn |-> t, role |-> "assistant"]

\* The messages of a turn, each saved once, the question before the answer, as far as it is.
LogInv ==
    /\ \A i, j \in DOMAIN log : log[i] = log[j] => i = j
    /\ \A t \in Turns, i \in DOMAIN log : log[i] = Answer(t) => \E k \in 1 .. i - 1 : log[k] = User(t)
    /\ \A t \in Turns : turn[t] \notin {"running", "dropped"} => \E k \in DOMAIN log : log[k] = User(t)
    /\ \A t \in Turns : turn[t] = "both" \/ Committed(t) => \E i \in DOMAIN log : log[i] = Answer(t)
    /\ \A t \in Turns, i \in DOMAIN log :
          /\ turn[t] = "running" => log[i] # User(t)
          /\ turn[t] \in {"running", "user"} => log[i] # Answer(t)

\* NearQuestion, by the places of the messages.
NearInv ==
    \A t \in Turns : question[t] \notin {NoTurn, t} =>
        \E k, i, a \in DOMAIN log : /\ k < i /\ i < a /\ log[i].turn = question[t]
                                     /\ log[k] = User(t) /\ log[a] = Answer(t)

ConvoInv == ConvoTypes /\ LogInv /\ NearInv

LEMMA Messages ==
    ConvoTypes => /\ log \in Seq(Message) /\ Len(log) \in Nat /\ DOMAIN log = 1 .. Len(log)
                  /\ \A i \in DOMAIN log : log[i] \in Message
                  /\ turn \in [Turns -> TurnPCs] /\ question \in [Turns -> Turns \cup {NoTurn}]
<1> SUFFICES ASSUME ConvoTypes
             PROVE  /\ log \in Seq(Message) /\ Len(log) \in Nat /\ DOMAIN log = 1 .. Len(log)
                    /\ \A i \in DOMAIN log : log[i] \in Message
                    /\ turn \in [Turns -> TurnPCs] /\ question \in [Turns -> Turns \cup {NoTurn}]
  OBVIOUS
<1>1. log \in Seq(Message)
  BY DEF ConvoTypes, Message
<1> QED  BY <1>1 DEF ConvoTypes, TurnPCs

\* A message is added to the log.
LEMMA LogStep ==
    ASSUME ConvoTypes, NEW m \in Message, log' = Append(log, m)
    PROVE  /\ log' \in Seq(Message) /\ DOMAIN log' = 1 .. Len(log) + 1
           /\ log'[Len(log) + 1] = m /\ \A i \in 1 .. Len(log) : log'[i] = log[i]
  BY Messages

\* Every set of natural numbers has a least element, and a bounded one a greatest.
Less == {ss \in Nat \X Nat : ss[1] < ss[2]}

LEMMA Least == \A S \in SUBSET Nat : S # {} => \E m \in S : \A k \in S : m <= k
<1> SUFFICES ASSUME NEW S \in SUBSET Nat, S # {}
             PROVE  \E m \in S : \A k \in S : m <= k
  OBVIOUS
<1>1. IsWellFoundedOn(Less, Nat)
  BY NatLessThanWellFounded DEF OpToRel, Less
<1>2. \E m \in S : \A k \in S : ~ (<<k, m>> \in Less)
  BY <1>1, WFMin
<1>3. PICK m \in S : \A k \in S : ~ (<<k, m>> \in Less)
  BY <1>2
<1>4. \A k \in S : ~ (k < m)
  BY <1>3 DEF Less
<1> QED  BY <1>4

LEMMA Greatest ==
    ASSUME NEW n \in Nat, NEW S \in SUBSET (1 .. n), S # {}
    PROVE  \E m \in S : \A k \in S : k <= m
<1> DEFINE Gaps == {n - k : k \in S}
<1>1. Gaps \in SUBSET Nat /\ Gaps # {}
  <2>1. \A k \in S : k \in Int /\ n - k \in Nat
    OBVIOUS
  <2>2. Gaps \in SUBSET Nat
    BY <2>1
  <2>3. Gaps # {}
    OBVIOUS
  <2> QED  BY <2>2, <2>3
<1>2. PICK g \in Gaps : \A h \in Gaps : g <= h
  BY <1>1, Least
<1>3. PICK m \in S : g = n - m
  OBVIOUS
<1>4. \A k \in S : n - m <= n - k
  BY <1>2, <1>3
<1>5. \A k \in S : k <= m
  BY <1>4
<1> QED  BY <1>5

\* A step that leaves the log, and takes no turn back.
LEMMA TurnStep ==
    ASSUME ConvoInv, NEW t \in Turns, NEW from \in TurnPCs, NEW to \in TurnPCs, Go(t, from, to),
           UNCHANGED <<log, question>>,
           \/ to = "dropped"
           \/ from = "both" /\ to = "saved"
    PROVE  ConvoInv'
<1>1. /\ turn[t] = from /\ turn'[t] = to /\ \A u \in Turns \ {t} : turn'[u] = turn[u]
      /\ turn' \in [Turns -> TurnPCs]
  BY Messages DEF Go, ConvoInv
<1>2. ConvoTypes'
  BY <1>1 DEF ConvoInv, ConvoTypes, TurnPCs
<1>3. ASSUME NEW u \in Turns
      PROVE  /\ turn'[u] \notin {"running", "dropped"} => turn[u] \notin {"running", "dropped"}
             /\ turn'[u] = "both" \/ Committed(u)' => turn[u] = "both" \/ Committed(u)
             /\ turn'[u] = "running" => turn[u] = "running"
             /\ turn'[u] \in {"running", "user"} => turn[u] \in {"running", "user"}
  BY <1>1 DEF Committed
<1>4. LogInv'
  BY <1>3 DEF ConvoInv, LogInv
<1>5. NearInv'
  BY DEF ConvoInv, NearInv
<1> QED  BY <1>2, <1>4, <1>5 DEF ConvoInv

\* A step that adds a message of t.
LEMMA AppendStep ==
    ASSUME ConvoInv, NEW t \in Turns, NEW m, NEW from \in TurnPCs, NEW to \in TurnPCs,
           \/ m = User(t) /\ from = "running" /\ to = "user"
           \/ m = Answer(t) /\ from = "user" /\ to = "both",
           Go(t, from, to), log' = Append(log, m), UNCHANGED question
    PROVE  ConvoInv'
<1> DEFINE n == Len(log)
<1>1. /\ turn[t] = from /\ turn'[t] = to /\ \A u \in Turns \ {t} : turn'[u] = turn[u]
      /\ turn' \in [Turns -> TurnPCs] /\ n \in Nat /\ DOMAIN log = 1 .. n
  BY Messages DEF Go, ConvoInv
<1>2. m \in Message /\ m.turn = t
  BY DEF Message, User, Answer
<1>3. /\ log' \in Seq(Message) /\ DOMAIN log' = 1 .. n + 1
      /\ log'[n + 1] = m /\ \A i \in 1 .. n : log'[i] = log[i]
  BY <1>2, LogStep DEF ConvoInv
<1> HIDE DEF n
<1>4. ConvoTypes'
  BY <1>1, <1>3 DEF ConvoInv, ConvoTypes, TurnPCs, Message
<1>5. \A i \in 1 .. n : log[i] # m
  BY <1>1 DEF ConvoInv, LogInv
<1>6. \A i, j \in 1 .. n + 1 : log'[i] = log'[j] => i = j
  <2>1. \A i, j \in 1 .. n : log[i] = log[j] => i = j
    BY <1>1 DEF ConvoInv, LogInv
  <2> QED  BY <1>1, <1>3, <1>5, <2>1
<1>7. \A u \in Turns : User(u) # Answer(t) /\ (User(u) = User(t) => u = t)
                       /\ Answer(u) # User(t) /\ (Answer(u) = Answer(t) => u = t)
  BY DEF User, Answer
<1>8. ASSUME NEW u \in Turns, NEW i \in 1 .. n + 1, log'[i] = Answer(u)
      PROVE  \E k \in 1 .. i - 1 : log'[k] = User(u)
  <2>1. CASE i = n + 1
    <3>1. u = t /\ turn[t] = "user"
      BY <1>1, <1>3, <1>7, <1>8, <2>1
    <3>2. PICK k \in 1 .. n : log[k] = User(t)
      BY <1>1, <3>1 DEF ConvoInv, LogInv
    <3> QED  BY <1>1, <1>3, <2>1, <3>1, <3>2
  <2>2. CASE i # n + 1
    <3>1. i \in 1 .. n /\ log[i] = Answer(u)
      BY <1>1, <1>3, <1>8, <2>2
    <3>2. PICK k \in 1 .. i - 1 : log[k] = User(u)
      BY <1>1, <3>1 DEF ConvoInv, LogInv
    <3> QED  BY <1>1, <1>3, <3>1, <3>2
  <2> QED  BY <2>1, <2>2
<1>9. ASSUME NEW u \in Turns, turn'[u] \notin {"running", "dropped"}
      PROVE  \E k \in 1 .. n + 1 : log'[k] = User(u)
  <2>1. CASE u = t /\ m = User(t)
    BY <1>1, <1>3, <2>1
  <2>2. CASE ~(u = t /\ m = User(t))
    <3>1. turn[u] \notin {"running", "dropped"}
      BY <1>1, <1>9, <2>2
    <3>2. PICK k \in 1 .. n : log[k] = User(u)
      BY <1>1, <3>1 DEF ConvoInv, LogInv
    <3> QED  BY <1>1, <1>3, <3>2
  <2> QED  BY <2>1, <2>2
<1>10. ASSUME NEW u \in Turns, turn'[u] = "both" \/ Committed(u)'
       PROVE  \E k \in 1 .. n + 1 : log'[k] = Answer(u)
  <2>1. CASE u = t
    <3>1. m = Answer(t)
      BY <1>1, <1>10, <2>1 DEF Committed
    <3> QED  BY <1>1, <1>3, <2>1, <3>1
  <2>2. CASE u # t
    <3>1. turn[u] = "both" \/ Committed(u)
      BY <1>1, <1>10, <2>2 DEF Committed
    <3>2. PICK k \in 1 .. n : log[k] = Answer(u)
      BY <1>1, <3>1 DEF ConvoInv, LogInv
    <3> QED  BY <1>1, <1>3, <3>2
  <2> QED  BY <2>1, <2>2
<1>11. ASSUME NEW u \in Turns, NEW i \in 1 .. n + 1
       PROVE  /\ turn'[u] = "running" => log'[i] # User(u)
              /\ turn'[u] \in {"running", "user"} => log'[i] # Answer(u)
  <2>1. CASE u = t
    <3>1. turn'[t] \in {"running", "user"} => m = User(t) /\ turn[t] = "running"
      BY <1>1
    <3>2. turn'[t] # "running"
      BY <1>1
    <3>3. turn[t] = "running" => \A k \in 1 .. n : log[k] # Answer(t)
      BY <1>1 DEF ConvoInv, LogInv
    <3>4. turn'[t] \in {"running", "user"} => log'[i] # Answer(t)
      <4>1. CASE i = n + 1
        BY <1>3, <1>7, <3>1, <4>1
      <4>2. CASE i # n + 1
        <5>1. i \in 1 .. n
          BY <1>1, <4>2
        <5> QED  BY <1>3, <3>1, <3>3, <5>1
      <4> QED  BY <4>1, <4>2
    <3> QED  BY <2>1, <3>2, <3>4
  <2>2. CASE u # t
    <3>1. turn'[u] = turn[u] /\ m # User(u) /\ m # Answer(u)
      BY <1>1, <1>7, <2>2
    <3>2. \A k \in 1 .. n : /\ turn[u] = "running" => log[k] # User(u)
                            /\ turn[u] \in {"running", "user"} => log[k] # Answer(u)
      BY <1>1 DEF ConvoInv, LogInv
    <3>3. i = n + 1 \/ i \in 1 .. n
      BY <1>1
    <3> QED  BY <1>3, <3>1, <3>2, <3>3
  <2> QED  BY <2>1, <2>2
<1>12. LogInv'
  BY <1>3, <1>6, <1>8, <1>9, <1>10, <1>11 DEF LogInv
<1>13. NearInv'
  <2> SUFFICES ASSUME NEW u \in Turns, question'[u] \notin {NoTurn, u}
               PROVE  \E k, i, a \in DOMAIN log' :
                          /\ k < i /\ i < a /\ log'[i].turn = question'[u]
                          /\ log'[k] = User(u) /\ log'[a] = Answer(u)
    BY DEF NearInv, User, Answer
  <2>1. PICK k, i, a \in 1 .. n : /\ k < i /\ i < a /\ log[i].turn = question[u]
                                  /\ log[k] = User(u) /\ log[a] = Answer(u)
    BY <1>1 DEF ConvoInv, NearInv
  <2>2. k \in DOMAIN log' /\ i \in DOMAIN log' /\ a \in DOMAIN log'
    BY <1>1, <1>3
  <2>3. log'[k] = log[k] /\ log'[i] = log[i] /\ log'[a] = log[a]
    BY <1>3
  <2> QED  BY <2>1, <2>2, <2>3
<1> QED  BY <1>4, <1>12, <1>13 DEF ConvoInv

\* What Previous finds: the question itself, or a message between it and the answer.
LEMMA PreviousIs ==
    ASSUME ConvoInv, NEW t \in Turns, Committed(t)
    PROVE  \E k, m, a \in DOMAIN log :
               /\ k <= m /\ m < a /\ Previous(t) = log[m]
               /\ log[k] = User(t) /\ log[a] = Answer(t)
<1> DEFINE at == At(t, "assistant")
           before == {i \in 1 .. at - 1 : Committed(log[i].turn)}
           m == CHOOSE i \in before : \A j \in before : j <= i
<1>1. at \in DOMAIN log /\ log[at] = Answer(t)
  <2>1. \E i \in DOMAIN log : log[i] = [turn |-> t, role |-> "assistant"]
    BY DEF ConvoInv, LogInv, Answer
  <2> QED  BY <2>1 DEF At, Answer
<1>2. DOMAIN log = 1 .. Len(log) /\ Len(log) \in Nat
  BY Messages DEF ConvoInv
<1>3. Previous(t) = log[m]
  BY DEF Previous
<1> HIDE DEF at
<1>4. PICK k \in 1 .. at - 1 : log[k] = User(t)
  BY <1>1 DEF ConvoInv, LogInv
<1>5. before \in SUBSET (1 .. at) /\ at \in Nat /\ k \in before
  BY <1>1, <1>2, <1>4 DEF User
<1>6. \E i \in before : \A j \in before : j <= i
  BY <1>5, Greatest
<1>7. m \in before /\ \A j \in before : j <= m
  BY <1>6
<1>8. m \in 1 .. at - 1 /\ k <= m
  BY <1>5, <1>7
<1> HIDE DEF m, before
<1>9. k \in DOMAIN log /\ m \in DOMAIN log /\ m < at
  BY <1>1, <1>2, <1>4, <1>8
<1> QED  BY <1>1, <1>3, <1>4, <1>8, <1>9

LEMMA AskStep ==
    ASSUME ConvoInv, NEW t \in Turns, Ask(t)
    PROVE  ConvoInv'
<1> DEFINE q == Previous(t).turn
<1>1. /\ turn[t] = "saved" /\ turn' = [turn EXCEPT ![t] = "asked"]
      /\ question' = [question EXCEPT ![t] = q] /\ log' = log
  BY DEF Ask, Go
<1>2. PICK k, m, a \in DOMAIN log : /\ k <= m /\ m < a /\ Previous(t) = log[m]
                                     /\ log[k] = User(t) /\ log[a] = Answer(t)
  BY <1>1, PreviousIs DEF Committed
<1>3. q = log[m].turn /\ q \in Turns
  BY <1>2, Messages DEF ConvoInv, Message
<1> HIDE DEF q
<1>4. /\ turn' \in [Turns -> TurnPCs] /\ turn'[t] = "asked"
      /\ \A u \in Turns \ {t} : turn'[u] = turn[u] /\ question'[u] = question[u]
      /\ question'[t] = q /\ question' \in [Turns -> Turns \cup {NoTurn}]
  BY <1>1, <1>3, Messages DEF ConvoInv, TurnPCs
<1>5. ConvoTypes'
  BY <1>1, <1>4 DEF ConvoInv, ConvoTypes, TurnPCs
<1>6. ASSUME NEW u \in Turns
      PROVE  /\ turn'[u] \notin {"running", "dropped"} => turn[u] \notin {"running", "dropped"}
             /\ turn'[u] = "both" \/ Committed(u)' => turn[u] = "both" \/ Committed(u)
             /\ turn'[u] = "running" => turn[u] = "running"
             /\ turn'[u] \in {"running", "user"} => turn[u] \in {"running", "user"}
  BY <1>1, <1>4 DEF Committed
<1>7. LogInv'
  BY <1>1, <1>6 DEF ConvoInv, LogInv
<1>8. NearInv'
  <2> SUFFICES ASSUME NEW u \in Turns, question'[u] \notin {NoTurn, u}
               PROVE  \E kk, i, aa \in DOMAIN log :
                          /\ kk < i /\ i < aa /\ log[i].turn = question'[u]
                          /\ log[kk] = User(u) /\ log[aa] = Answer(u)
    BY <1>1 DEF NearInv
  <2>1. CASE u # t
    BY <1>4, <2>1 DEF ConvoInv, NearInv
  <2>2. CASE u = t
    <3>1. m # k
      BY <1>2, <1>3, <1>4, <2>2 DEF User
    <3>2. k < m
      BY <1>2, <3>1, Messages DEF ConvoInv
    <3> QED  BY <1>2, <1>3, <1>4, <2>2, <3>2
  <2> QED  BY <2>1, <2>2
<1> QED  BY <1>5, <1>7, <1>8 DEF ConvoInv

LEMMA InitConvo == ConvoInit => ConvoInv
  BY DEF ConvoInit, ConvoInv, ConvoTypes, LogInv, NearInv, Committed

LEMMA NextConvo == ConvoInv /\ [ConvoNext]_convo => ConvoInv'
<1> SUFFICES ASSUME ConvoInv, [ConvoNext]_convo PROVE ConvoInv'
  OBVIOUS
<1>1. CASE UNCHANGED convo
  BY <1>1 DEF convo, ConvoInv, ConvoTypes, LogInv, NearInv, Committed
<1>2. ASSUME NEW t \in Turns, GiveUp(t) \/ Commit(t) PROVE ConvoInv'
  BY <1>2, TurnStep DEF GiveUp, Commit, TurnPCs
<1>3. ASSUME NEW t \in Turns, RollBack(t) PROVE ConvoInv'
  BY <1>3, TurnStep DEF RollBack, Go, TurnPCs
<1>4. ASSUME NEW t \in Turns, SaveUser(t) \/ SaveAssistant(t) PROVE ConvoInv'
  BY <1>4, AppendStep DEF SaveUser, SaveAssistant, TurnPCs, User, Answer
<1>5. ASSUME NEW t \in Turns, Ask(t) PROVE ConvoInv'
  BY <1>5, AskStep
<1> QED  BY <1>1, <1>2, <1>3, <1>4, <1>5 DEF ConvoNext

\* The inductive invariant of conversations whose turns overlap in every way.
THEOREM ConversationCorrect == ConvoSpec => []ConvoInv
  BY InitConvo, NextConvo, PTL DEF ConvoSpec

\* save_msg_pair_to_db (daras_ai_v2/bots.py) and msg_analysis (bots/tasks.py): an answer
\* is analysed with its own question, or with a message that was saved between the two;
\* never with an older one, whatever other turns save and whenever they commit.
THEOREM QuestionIsNear == ConvoSpec => []NearQuestion
<1>1. ConvoInv => NearQuestion
  <2> SUFFICES ASSUME ConvoInv, NEW t \in Turns, question[t] \notin {NoTurn, t}
               PROVE  \E i \in DOMAIN log : /\ log[i].turn = question[t]
                                             /\ At(t, "user") < i /\ i < At(t, "assistant")
    BY DEF NearQuestion
  <2>1. PICK k, i, a \in DOMAIN log : /\ k < i /\ i < a /\ log[i].turn = question[t]
                                      /\ log[k] = User(t) /\ log[a] = Answer(t)
    BY DEF ConvoInv, NearInv
  <2>2. At(t, "user") \in DOMAIN log /\ log[At(t, "user")] = log[k]
    BY <2>1 DEF At, User
  <2>3. At(t, "assistant") \in DOMAIN log /\ log[At(t, "assistant")] = log[a]
    BY <2>1 DEF At, Answer
  <2>4. At(t, "user") = k /\ At(t, "assistant") = a
    BY <2>1, <2>2, <2>3 DEF ConvoInv, LogInv
  <2> QED  BY <2>1, <2>4
<1> QED  BY <1>1, ConversationCorrect, PTL

-----------------------------------------------------------------------------
(* Analyses: a task that gives way *)

RequestType == [pc : {"none", "read", "queued", "done"},
                copy : Answers \cup {NoAnswer}, wait : 0 .. Cooldown]
TaskType == [pc : {"none", "queued", "begun", "skipped"}, due : Nat,
             delayed : BOOLEAN, n : Nat, early : BOOLEAN]
AnalType == [ran : BOOLEAN, last : 0 .. now, scheduled : Answers \cup {NoAnswer}]

\* Requests that have saved their schedule, numbered in that order.
Savers == {k \in Answers : task[k].n > 0}

NumberInv ==
    /\ \A m \in Answers : task[m].n > 0 <=> request[m].pc = "done"
    /\ \A m \in Answers : task[m].n <= Cardinality(Savers)
    /\ \A k, m \in Answers : task[k].n = task[m].n /\ task[m].n > 0 => k = m
    /\ \A m \in Answers : task[m].n > 0 => \E k \in Answers : task[k].n = Cardinality(Savers)
    /\ \A m \in Answers : request[m].pc \in {"none", "read"} => task[m].pc = "none"

\* Skipped, and not because the task was looked at before its request had saved.
GaveWay(m) == task[m].pc = "skipped" /\ ~task[m].early

\* A task gives way only once its request has saved, and never that of the last to save:
\* if it waits, the row names it.
LastInv ==
    \A m \in Answers :
        /\ GaveWay(m) => task[m].n > 0
        /\ task[m].n > 0 /\ task[m].n = Cardinality(Savers) =>
              ~GaveWay(m) /\ (task[m].delayed => anal.scheduled = m)

LaterInv == \A m \in Answers : GaveWay(m) => \E k \in Answers : task[k].n > task[m].n /\ ~GaveWay(k)

AnalInv == AnalTypes /\ NumberInv /\ LastInv /\ LaterInv

LEMMA AnalRecords ==
    AnalTypes <=> /\ request \in [Answers -> RequestType] /\ task \in [Answers -> TaskType]
                  /\ anal \in AnalType /\ now \in Nat
  BY DEF AnalTypes, RequestType, TaskType, AnalType

LEMMA SaversFinite ==
    /\ Savers \in SUBSET Answers /\ IsFiniteSet(Savers) /\ Cardinality(Savers) \in Nat
<1>1. Savers \in SUBSET Answers
  BY DEF Savers
<1> QED  BY <1>1, AnalysisAssumption, FS_Subset, FS_CardinalityType

\* A step that numbers nobody, and changes the task of one answer at most.
LEMMA SameNumbers ==
    ASSUME AnalInv, AnalTypes', UNCHANGED anal.scheduled, NEW m \in Answers,
           \A k \in Answers \ {m} : task'[k] = task[k] /\ (request'[k].pc = request[k].pc),
           task'[m].n = task[m].n,
           request'[m].pc = "done" <=> request[m].pc = "done",
           request'[m].pc \in {"none", "read"} => task'[m].pc = "none",
           task[m].n > 0 => task'[m].delayed = task[m].delayed,
           \/ ~GaveWay(m)'
           \/ GaveWay(m)
           \/ /\ task[m].n > 0 /\ task[m].delayed /\ anal.scheduled # m
    PROVE  AnalInv'
<1>1. \A k \in Answers : task'[k].n = task[k].n
  OBVIOUS
<1>2. Savers' = Savers
  BY <1>1 DEF Savers
<1>3. NumberInv'
  BY <1>1, <1>2 DEF AnalInv, NumberInv
<1>4. \A k \in Answers \ {m} : GaveWay(k)' <=> GaveWay(k)
  BY DEF GaveWay
<1>5. \A k \in Answers : task[k].n \in Nat
  BY AnalRecords DEF AnalInv, TaskType
<1>6. GaveWay(m)' /\ ~GaveWay(m) => task[m].n # Cardinality(Savers)
  BY DEF AnalInv, LastInv
<1>7. LastInv'
  <2>1. ASSUME NEW k \in Answers PROVE GaveWay(k)' => task'[k].n > 0
    BY <1>1, <1>4 DEF AnalInv, LastInv
  <2>2. ASSUME NEW k \in Answers, task'[k].n > 0, task'[k].n = Cardinality(Savers)
        PROVE  ~GaveWay(k)' /\ (task'[k].delayed => anal'.scheduled = k)
    <3>1. ~GaveWay(k) /\ (task[k].delayed => anal.scheduled = k)
      BY <1>1, <2>2 DEF AnalInv, LastInv
    <3> QED  BY <1>1, <1>4, <1>6, <2>2, <3>1
  <2> QED  BY <1>2, <2>1, <2>2 DEF LastInv
<1>8. LaterInv'
  <2> SUFFICES ASSUME NEW u \in Answers, GaveWay(u)'
               PROVE  \E k \in Answers : task'[k].n > task'[u].n /\ ~GaveWay(k)'
    BY DEF LaterInv
  <2>1. CASE GaveWay(m)' /\ ~GaveWay(m)
    <3>1. task[m].n > 0
      BY <1>1, <1>7, <2>1 DEF LastInv
    <3>2. PICK v \in Answers : task[v].n = Cardinality(Savers)
      BY <3>1 DEF AnalInv, NumberInv
    <3>3. task[v].n >= task[m].n /\ task[v].n >= task[u].n
      BY <3>2, SaversFinite, <1>5 DEF AnalInv, NumberInv
    <3>4. ~GaveWay(v)'
      BY <1>1, <1>2, <1>5, <1>7, <3>1, <3>2, <3>3 DEF LastInv
    <3>5. task[u].n > 0
      BY <1>1, <1>7 DEF LastInv
    <3>6. task[v].n # task[u].n
      BY <1>5, <3>4, <3>5 DEF AnalInv, NumberInv
    <3> QED  BY <1>1, <1>5, <3>3, <3>4, <3>6
  <2>2. CASE ~(GaveWay(m)' /\ ~GaveWay(m))
    <3>1. GaveWay(u)
      BY <1>4, <2>2
    <3>2. PICK k \in Answers : task[k].n > task[u].n /\ ~GaveWay(k)
      BY <3>1 DEF AnalInv, LaterInv
    <3> QED  BY <1>1, <1>4, <2>2, <3>2
  <2> QED  BY <2>1, <2>2
<1> QED  BY <1>3, <1>7, <1>8 DEF AnalInv

LEMMA ReadScheduleStep ==
    ASSUME AnalInv, NEW m \in Answers, ReadSchedule(m)
    PROVE  AnalInv'
<1> DEFINE wait == IF anal.ran /\ anal.last + Cooldown > now THEN anal.last + Cooldown - now ELSE 0
           new == [pc |-> "read", copy |-> anal.scheduled, wait |-> wait]
<1>1. /\ request[m].pc = "none" /\ request' = [request EXCEPT ![m] = new]
      /\ UNCHANGED <<anal, task, now>>
  BY DEF ReadSchedule
<1>2. /\ request \in [Answers -> RequestType] /\ task \in [Answers -> TaskType]
      /\ anal \in AnalType /\ now \in Nat
  BY AnalRecords DEF AnalInv
<1>3. wait \in 0 .. Cooldown
  <2>1. anal.last \in 0 .. now /\ Cooldown \in Nat
    BY <1>2, AnalysisAssumption DEF AnalType
  <2> QED  BY <1>2, <2>1
<1> HIDE DEF wait
<1>4. new \in RequestType
  BY <1>2, <1>3 DEF RequestType, AnalType
<1>5. request' \in [Answers -> RequestType] /\ AnalType' = AnalType
  BY <1>1, <1>2, <1>4 DEF AnalType
<1>6. AnalTypes'
  BY <1>1, <1>2, <1>5 DEF AnalTypes, RequestType, TaskType, AnalType
<1>7. /\ request'[m].pc = "read" /\ \A k \in Answers \ {m} : request'[k] = request[k]
      /\ task[m].pc = "none"
  BY <1>1, <1>2 DEF AnalInv, NumberInv
<1> QED  BY <1>1, <1>6, <1>7, SameNumbers DEF GaveWay

LEMMA EnqueueStep ==
    ASSUME AnalInv, NEW m \in Answers, Enqueue(m)
    PROVE  AnalInv'
<1>1. /\ request[m].pc = "read" /\ UNCHANGED <<anal, now>>
      /\ request' = [request EXCEPT ![m].pc = "queued", ![m].wait = 0]
      /\ task' = [task EXCEPT ![m].pc = "queued", ![m].due = now + request[m].wait,
                              ![m].delayed = request[m].wait > 0]
  BY DEF Enqueue
<1>2. /\ request \in [Answers -> RequestType] /\ task \in [Answers -> TaskType]
      /\ anal \in AnalType /\ now \in Nat
  BY AnalRecords DEF AnalInv
<1>3. request[m].wait \in Nat /\ 0 \in 0 .. Cooldown
  BY <1>2, AnalysisAssumption DEF RequestType
<1>4. /\ request' \in [Answers -> RequestType] /\ request'[m].pc = "queued"
      /\ \A k \in Answers \ {m} : request'[k] = request[k]
  BY <1>1, <1>2, <1>3 DEF RequestType
<1>5. /\ task' \in [Answers -> TaskType] /\ task'[m].pc = "queued" /\ task'[m].n = task[m].n
      /\ \A k \in Answers \ {m} : task'[k] = task[k]
  <2> DEFINE due == now + request[m].wait
             late == request[m].wait > 0
  <2>1. due \in Nat /\ late \in BOOLEAN
    BY <1>2, <1>3
  <2>2. task' = [task EXCEPT ![m].pc = "queued", ![m].due = due, ![m].delayed = late]
    BY <1>1
  <2> HIDE DEF due, late
  <2> QED  BY <1>2, <2>1, <2>2 DEF TaskType
<1>6. AnalTypes'
  BY <1>1, <1>2, <1>4, <1>5 DEF AnalTypes, RequestType, TaskType, AnalType
<1>7. ~(task[m].n > 0)
  BY <1>1 DEF AnalInv, NumberInv
<1> QED  BY <1>1, <1>4, <1>5, <1>6, <1>7, SameNumbers DEF GaveWay

LEMMA LookStepAnal ==
    ASSUME AnalInv, NEW m \in Answers, Skip(m) \/ Begin(m)
    PROVE  AnalInv'
<1>1. PICK pc \in {"begun", "skipped"} :
          /\ Looked(m, pc) /\ UNCHANGED <<request, now>> /\ anal'.scheduled = anal.scheduled
          /\ anal' \in AnalType
          /\ pc = "skipped" => task[m].delayed /\ anal.scheduled # m
  <2>1. anal \in AnalType /\ now \in Nat
    BY AnalRecords DEF AnalInv
  <2>2. CASE Skip(m)
    BY <2>1, <2>2 DEF Skip, Superseded
  <2>3. CASE Begin(m)
    <3>1. /\ Looked(m, "begun") /\ UNCHANGED <<request, now>>
          /\ anal' = [anal EXCEPT !.ran = TRUE, !.last = now]
      BY <2>3 DEF Begin
    <3>2. now \in 0 .. now
      BY <2>1
    <3>3. anal' \in AnalType /\ anal'.scheduled = anal.scheduled
      BY <2>1, <3>1, <3>2 DEF AnalType
    <3> QED  BY <3>1, <3>3
  <2> QED  BY <2>2, <2>3
<1>2. /\ request \in [Answers -> RequestType] /\ task \in [Answers -> TaskType] /\ now \in Nat
  BY AnalRecords DEF AnalInv
<1>3. /\ task' \in [Answers -> TaskType] /\ task'[m].pc = pc /\ task'[m].n = task[m].n
      /\ task'[m].delayed = task[m].delayed /\ task'[m].early = (request[m].pc # "done")
      /\ \A k \in Answers \ {m} : task'[k] = task[k]
  BY <1>1, <1>2 DEF Looked, TaskType
<1>4. AnalTypes'
  BY <1>1, <1>2, <1>3 DEF AnalTypes, RequestType, TaskType, AnalType
<1>5. task[m].pc = "queued"
  BY DEF Skip, Begin, MayBegin
<1>6. request[m].pc \notin {"none", "read"}
  BY <1>5 DEF AnalInv, NumberInv
<1>7. GaveWay(m)' => task[m].n > 0 /\ task[m].delayed /\ anal.scheduled # m
  BY <1>1, <1>3 DEF GaveWay, AnalInv, NumberInv
<1> QED  BY <1>1, <1>3, <1>4, <1>6, <1>7, SameNumbers

\* The next number is the highest.
LEMMA SaveScheduleStep ==
    ASSUME AnalInv, NEW m \in Answers, SaveSchedule(m)
    PROVE  AnalInv'
<1> DEFINE n == Cardinality(Savers) + 1
<1>1. /\ request[m].pc = "queued" /\ UNCHANGED now
      /\ request' = [request EXCEPT ![m].pc = "done", ![m].copy = NoAnswer]
      /\ task' = [task EXCEPT ![m].n = n]
      /\ anal' = [anal EXCEPT !.scheduled = IF task[m].delayed THEN m ELSE request[m].copy]
  BY DEF SaveSchedule, Saved, Savers
<1>2. /\ request \in [Answers -> RequestType] /\ task \in [Answers -> TaskType]
      /\ anal \in AnalType /\ now \in Nat
  BY AnalRecords DEF AnalInv
<1>3. n \in Nat /\ n > 0
  BY SaversFinite
<1> HIDE DEF n
<1>4. /\ request' \in [Answers -> RequestType] /\ request'[m].pc = "done"
      /\ \A k \in Answers \ {m} : request'[k] = request[k]
  BY <1>1, <1>2 DEF RequestType
<1>5. /\ task' \in [Answers -> TaskType] /\ task'[m].n = n /\ task'[m].pc = task[m].pc
      /\ task'[m].early = task[m].early /\ task'[m].delayed = task[m].delayed
      /\ \A k \in Answers \ {m} : task'[k] = task[k]
  BY <1>1, <1>2, <1>3 DEF TaskType
<1>6. anal' \in AnalType /\ (task[m].delayed => anal'.scheduled = m)
  BY <1>1, <1>2 DEF AnalType, RequestType
<1>7. AnalTypes'
  BY <1>1, <1>2, <1>4, <1>5, <1>6 DEF AnalTypes, RequestType, TaskType, AnalType
<1>8. \A k \in Answers : task[k].n \in Nat
  BY <1>2 DEF TaskType
<1>9. ~(task[m].n > 0) /\ m \notin Savers
  BY <1>1 DEF AnalInv, NumberInv, Savers
<1>10. Savers' = Savers \cup {m}
  BY <1>3, <1>5 DEF Savers
<1>11. Cardinality(Savers') = n
  BY <1>9, <1>10, SaversFinite, FS_AddElement DEF n
<1>12. \A k \in Answers : task[k].n < n
  BY <1>8, SaversFinite DEF AnalInv, NumberInv, n
<1>13. NumberInv'
  <2>1. \A k \in Answers : task'[k].n <= n
    BY <1>3, <1>5, <1>8, <1>12
  <2>2. \A k, u \in Answers : task'[k].n = task'[u].n /\ task'[u].n > 0 => k = u
    BY <1>3, <1>5, <1>8, <1>12 DEF AnalInv, NumberInv
  <2>3. \A k \in Answers : task'[k].n > 0 <=> request'[k].pc = "done"
    BY <1>3, <1>4, <1>5 DEF AnalInv, NumberInv
  <2>4. \A k \in Answers : request'[k].pc \in {"none", "read"} => task'[k].pc = "none"
    BY <1>4, <1>5 DEF AnalInv, NumberInv
  <2> QED  BY <1>5, <1>11, <2>1, <2>2, <2>3, <2>4 DEF NumberInv
<1>14. \A k \in Answers : GaveWay(k)' <=> GaveWay(k)
  BY <1>5 DEF GaveWay
<1>15. ~GaveWay(m)
  BY <1>9 DEF AnalInv, LastInv
<1>16. LastInv'
  <2>1. ASSUME NEW k \in Answers PROVE GaveWay(k)' => task'[k].n > 0
    BY <1>5, <1>14, <1>15 DEF AnalInv, LastInv
  <2>2. ASSUME NEW k \in Answers, task'[k].n = n
        PROVE  ~GaveWay(k)' /\ (task'[k].delayed => anal'.scheduled = k)
    <3>1. k = m
      BY <1>5, <1>8, <1>12, <2>2
    <3> QED  BY <1>5, <1>6, <1>14, <1>15, <3>1
  <2> QED  BY <1>11, <2>1, <2>2 DEF LastInv
<1>17. LaterInv'
  <2> SUFFICES ASSUME NEW u \in Answers, GaveWay(u)'
               PROVE  \E k \in Answers : task'[k].n > task'[u].n /\ ~GaveWay(k)'
    BY DEF LaterInv
  <2>1. u # m /\ task'[u].n = task[u].n
    BY <1>5, <1>14, <1>15
  <2> QED  BY <1>3, <1>5, <1>8, <1>12, <1>14, <1>15, <2>1
<1> QED  BY <1>7, <1>13, <1>16, <1>17 DEF AnalInv

LEMMA InitAnal == AnalInit => AnalInv
<1> SUFFICES ASSUME AnalInit PROVE AnalInv
  OBVIOUS
<1>1. AnalTypes
  BY AnalysisAssumption DEF AnalInit, AnalTypes
<1>2. Savers = {} /\ Cardinality(Savers) = 0
  <2>1. Savers = {}
    BY DEF AnalInit, Savers
  <2> QED  BY <2>1, FS_EmptySet
<1>3. NumberInv
  BY <1>2 DEF AnalInit, NumberInv
<1> QED  BY <1>1, <1>3 DEF AnalInit, AnalInv, LastInv, LaterInv, GaveWay

LEMMA NextAnal == AnalInv /\ [AnalNext]_analysis => AnalInv'
<1> SUFFICES ASSUME AnalInv, [AnalNext]_analysis PROVE AnalInv'
  OBVIOUS
<1>1. CASE Tick \/ UNCHANGED analysis
  <2>1. UNCHANGED <<request, anal, task>> /\ now' \in {now, now + 1}
    BY <1>1 DEF Tick, analysis
  <2>2. now \in Nat /\ anal \in AnalType
    BY AnalRecords DEF AnalInv
  <2>3. anal \in AnalType' /\ now' \in Nat
    BY <2>1, <2>2 DEF AnalType
  <2>4. AnalTypes'
    BY <2>1, <2>3 DEF AnalInv, AnalTypes, AnalType
  <2>5. Savers' = Savers /\ \A m \in Answers : GaveWay(m)' <=> GaveWay(m)
    BY <2>1 DEF Savers, GaveWay
  <2> QED  BY <2>1, <2>4, <2>5 DEF AnalInv, NumberInv, LastInv, LaterInv
<1>2. ASSUME NEW m \in Answers,
             ReadSchedule(m) \/ Enqueue(m) \/ SaveSchedule(m) \/ Skip(m) \/ Begin(m)
      PROVE  AnalInv'
  BY <1>2, ReadScheduleStep, EnqueueStep, SaveScheduleStep, LookStepAnal
<1> QED  BY <1>1, <1>2 DEF AnalNext

LEMMA AnalCorrect == AnalSpec => []AnalInv
  BY InitAnal, NextAnal, PTL DEF AnalSpec

\* run_after_message_save (bots/signals.py) and msg_analysis (bots/tasks.py), however
\* requests overlap between reading, queueing and saving: a task that gives way does so
\* for a request that saved its schedule later, and did not give way itself.
THEOREM SkipIsForLater == AnalSpec => []SkippedForLater
<1>1. AnalInv => SkippedForLater
  BY DEF AnalInv, LaterInv, GaveWay, SkippedForLater
<1> QED  BY <1>1, AnalCorrect, PTL

-----------------------------------------------------------------------------
(* Texts: what a recursive function over the fragments computes, by its least   *)
(* counterexample *)

UptoIs(f, n) == f[0] = 0 /\ \A i \in 1 .. n : f[i] = f[i - 1] + text[i]

LEMMA UptoExists ==
  ASSUME text \in Seq(Nat)
  PROVE  \E f \in [0 .. Len(text) -> Nat] : UptoIs(f, Len(text))
<1> DEFINE n == Len(text)
           Has(k) == \E f \in [0 .. k -> Nat] : UptoIs(f, k)
           Without == {k \in 0 .. n : ~Has(k)}
<1>1. n \in Nat /\ \A i \in 1 .. n : text[i] \in Nat
  BY LenProperties, ElementOfSeq
<1> HIDE DEF n
<1>2. Without = {}
  <2> SUFFICES ASSUME Without # {} PROVE FALSE
    OBVIOUS
  <2>1. PICK m \in Without : \A k \in Without : m <= k
    <3>1. Without \in SUBSET Nat
      BY <1>1
    <3> QED  BY <3>1, Least
  <2>2. m # 0
    <3>1. [i \in 0 .. 0 |-> 0] \in [0 .. 0 -> Nat] /\ UptoIs([i \in 0 .. 0 |-> 0], 0)
      BY DEF UptoIs
    <3> QED  BY <2>1, <3>1
  <2>3. m \in 1 .. n /\ m - 1 \in 0 .. n /\ m - 1 < m
    BY <1>1, <2>1, <2>2
  <2>4. PICK f \in [0 .. m - 1 -> Nat] : UptoIs(f, m - 1)
    <3> HIDE DEF Without, Has
    <3>1. m - 1 \notin Without
      BY <1>1, <2>1, <2>3
    <3>2. Has(m - 1)
      BY <2>3, <3>1 DEF Without
    <3> QED  BY <3>2 DEF Has
  <2> DEFINE g == [i \in 0 .. m |-> IF i = m THEN f[m - 1] + text[m] ELSE f[i]]
  <2>5. g \in [0 .. m -> Nat]
    <3>1. \A i \in 0 .. m : i # m => i \in 0 .. m - 1
      BY <1>1, <2>3
    <3>2. m - 1 \in 0 .. m - 1 /\ f[m - 1] + text[m] \in Nat
      BY <1>1, <2>3
    <3> QED  BY <3>1, <3>2
  <2>6. UptoIs(g, m)
    <3>1. g[0] = 0
      BY <1>1, <2>3, <2>4 DEF UptoIs
    <3>2. ASSUME NEW i \in 1 .. m PROVE g[i] = g[i - 1] + text[i]
      <4>1. i - 1 \in 0 .. m /\ i - 1 # m /\ i \in 0 .. m
        BY <1>1, <2>3
      <4>2. CASE i = m
        BY <4>1, <4>2
      <4>3. CASE i # m
        <5>1. i \in 1 .. m - 1
          BY <1>1, <2>3, <4>3
        <5> QED  BY <2>4, <4>1, <4>3, <5>1 DEF UptoIs
      <4> QED  BY <4>2, <4>3
    <3> QED  BY <3>1, <3>2 DEF UptoIs
  <2> QED  BY <2>1, <2>5, <2>6
<1>3. n \in 0 .. n
  BY <1>1
<1> QED  BY <1>2, <1>3 DEF n

LEMMA UptoProperties ==
  ASSUME text \in Seq(Nat)
  PROVE  UptoIs(Upto, Len(text)) /\ \A i \in 0 .. Len(text) : Upto[i] \in Nat
<1> DEFINE n == Len(text)
           IsIt(f) == f = [i \in 0 .. Len(text) |-> IF i = 0 THEN 0 ELSE f[i - 1] + text[i]]
<1>1. n \in Nat /\ \A i \in 1 .. n : text[i] \in Nat
  BY LenProperties, ElementOfSeq
<1>2. PICK f \in [0 .. n -> Nat] : UptoIs(f, n)
  BY UptoExists
<1>3. IsIt(f)
  <2>1. \A i \in 0 .. n : f[i] = IF i = 0 THEN 0 ELSE f[i - 1] + text[i]
    BY <1>1, <1>2 DEF UptoIs
  <2> QED  BY <2>1
<1>4. Upto = CHOOSE g : IsIt(g)
  BY Zenon DEF Upto
<1>5. IsIt(Upto)
  BY <1>3, <1>4
<1>6. UptoIs(Upto, n)
  <2>1. \A i \in 0 .. n : Upto[i] = IF i = 0 THEN 0 ELSE Upto[i - 1] + text[i]
    BY <1>5
  <2> HIDE DEF IsIt
  <2>2. 0 \in 0 .. n /\ \A i \in 1 .. n : i \in 0 .. n /\ i # 0
    BY <1>1
  <2> QED  BY <2>1, <2>2 DEF UptoIs
<1> HIDE DEF n, IsIt
<1> DEFINE Wrong == {i \in 0 .. n : Upto[i] \notin Nat}
<1>7. Wrong = {}
  <2> SUFFICES ASSUME Wrong # {} PROVE FALSE
    OBVIOUS
  <2>1. PICK m \in Wrong : \A k \in Wrong : m <= k
    <3>1. Wrong \in SUBSET Nat
      BY <1>1
    <3> QED  BY <3>1, Least
  <2>2. m # 0
    BY <1>6, <2>1 DEF UptoIs
  <2>3. m \in 1 .. n /\ m - 1 \in 0 .. n /\ m - 1 < m
    BY <1>1, <2>1, <2>2
  <2>4. Upto[m - 1] \in Nat
    BY <2>1, <2>3
  <2>5. Upto[m] = Upto[m - 1] + text[m] /\ text[m] \in Nat
    BY <1>1, <1>6, <2>3 DEF UptoIs
  <2>6. Upto[m] \in Nat
    BY <2>4, <2>5
  <2> QED  BY <2>1, <2>6
<1> QED  BY <1>6, <1>7 DEF n

\* The length of one fragment, and that lengths are numbers.
LEMMA LengthProperties ==
  ASSUME text \in Seq(Nat)
  PROVE  /\ \A lo \in 1 .. Len(text) + 1, hi \in 0 .. Len(text) : Length(lo, hi) \in Int
         /\ \A i \in 1 .. Len(text) : Length(i, i) = text[i]
         /\ \A lo, hi \in Nat : hi < lo => Length(lo, hi) = 0
<1>1. Len(text) \in Nat /\ \A i \in 1 .. Len(text) : text[i] \in Nat
  BY LenProperties, ElementOfSeq
<1>2. UptoIs(Upto, Len(text)) /\ \A i \in 0 .. Len(text) : Upto[i] \in Nat
  BY UptoProperties
<1>3. \A i \in 1 .. Len(text) + 1 : i - 1 \in 0 .. Len(text)
  BY <1>1
<1>4. \A i \in 1 .. Len(text) : i \in 0 .. Len(text) /\ i - 1 \in 0 .. Len(text) /\ ~(i < i)
  BY <1>1
<1>5. \A i \in 1 .. Len(text) : Upto[i] = Upto[i - 1] + text[i]
  BY <1>2 DEF UptoIs
<1>6. \A i \in 1 .. Len(text) : Length(i, i) = text[i]
  BY <1>1, <1>2, <1>4, <1>5 DEF Length
<1>7. ASSUME NEW lo \in 1 .. Len(text) + 1, NEW hi \in 0 .. Len(text)
      PROVE  Length(lo, hi) \in Int
  <2>1. Upto[hi] \in Nat /\ Upto[lo - 1] \in Nat
    BY <1>2, <1>3
  <2> QED  BY <2>1 DEF Length
<1>8. \A lo, hi \in Nat : hi < lo => Length(lo, hi) = 0
  BY DEF Length
<1> QED  BY <1>6, <1>7, <1>8

\* A window of fragments fits, and a chunk goes on after the one before.
Fine(c) == c.lo \in 1 .. c.hi /\ c.hi \in 1 .. Len(text) /\ Length(c.lo, c.hi) <= ChunkSize

Follows(c, d) ==
    /\ c.lo < d.lo /\ d.lo <= c.hi + 1 /\ c.hi < d.hi
    /\ Length(d.lo, c.hi) <= Overlap

ChunksInv ==
    /\ \A i \in DOMAIN chunks : Fine(chunks[i])
    /\ chunks # <<>> => chunks[1].lo = 1
    /\ \A i \in 1 .. Len(chunks) - 1 : Follows(chunks[i], chunks[i + 1])

\* The window that grows reaches to the fragment before next, and continues the chunks.
WindowInv ==
    /\ window.hi = next - 1
    /\ IF next = 1 THEN chunks = <<>> /\ window.lo = 1 ELSE Fine(window)
    /\ IF chunks = <<>> THEN window.lo = 1 ELSE Follows(chunks[Len(chunks)], window)

TextInv ==
    /\ text \in Seq(1 .. ChunkSize)
    /\ next \in 1 .. Len(text) + 1
    /\ phase \in {"join", "merge", "done"}
    /\ chunks \in Seq([lo : Nat, hi : Nat]) /\ window \in [lo : Nat, hi : Nat]
    /\ ChunksInv
    /\ phase = "join" => WindowInv
    /\ phase # "join" /\ text # <<>> => chunks # <<>> /\ chunks[Len(chunks)].hi = Len(text)

LEMMA StartText == text \in Texts /\ TextInit => TextInv
<1> SUFFICES ASSUME text \in Texts, TextInit PROVE TextInv
  OBVIOUS
<1>1. text \in Seq(1 .. ChunkSize) /\ Len(text) \in Nat
  BY SummaryAssumption, LenProperties
<1> QED  BY <1>1 DEF TextInit, TextInv, ChunksInv, WindowInv, Span

\* Appending the window to the chunks.
LEMMA YieldWindow ==
  ASSUME TextInv, WindowInv, next # 1, chunks' = Append(chunks, window), text' = text
  PROVE  /\ chunks' \in Seq([lo : Nat, hi : Nat]) /\ chunks' # <<>>
         /\ chunks'[Len(chunks')] = window
         /\ ChunksInv'
<1> DEFINE n == Len(chunks)
<1>1. n \in Nat /\ DOMAIN chunks = 1 .. n /\ chunks \in Seq([lo : Nat, hi : Nat])
  BY LenProperties DEF TextInv
<1>2. /\ chunks' \in Seq([lo : Nat, hi : Nat]) /\ Len(chunks') = n + 1
      /\ DOMAIN chunks' = 1 .. n + 1
      /\ \A i \in 1 .. n + 1 : chunks'[i] = IF i = n + 1 THEN window ELSE chunks[i]
  BY <1>1, AppendProperties, LenProperties DEF TextInv
<1> HIDE DEF n
<1>3. n = 0 <=> chunks = <<>>
  BY <1>1, EmptySeq DEF n
<1>4. \A i \in 1 .. n : i \in 1 .. n + 1 /\ i # n + 1
  BY <1>1
<1>5. n + 1 \in 1 .. n + 1
  BY <1>1
<1>6. \A lo, hi : Length(lo, hi)' = Length(lo, hi)
  BY DEF Length, Upto
<1>7. ASSUME NEW i \in 1 .. n + 1 PROVE Fine(chunks[i])'
  <2>1. Fine(chunks'[i])
    <3>1. CASE i = n + 1
      BY <1>2, <1>5, <3>1 DEF WindowInv
    <3>2. CASE i # n + 1
      <4>1. i \in 1 .. n
        BY <1>1, <1>7, <3>2
      <4> QED  BY <1>1, <1>2, <1>4, <4>1 DEF TextInv, ChunksInv
    <3> QED  BY <3>1, <3>2
  <2> QED  BY <1>6, <2>1 DEF Fine
<1>8. chunks'[1].lo = 1
  <2>1. CASE n = 0
    BY <1>2, <1>3, <1>5, <2>1 DEF WindowInv
  <2>2. CASE n # 0
    <3>1. 1 \in 1 .. n
      BY <1>1, <2>2
    <3> QED  BY <1>2, <1>3, <1>4, <2>2, <3>1 DEF TextInv, ChunksInv
  <2> QED  BY <2>1, <2>2
<1>9. ASSUME NEW i \in 1 .. n PROVE Follows(chunks[i], chunks[i + 1])'
  <2>1. chunks'[i] = chunks[i]
    BY <1>2, <1>4
  <2>2. CASE i = n
    <3>1. chunks'[i + 1] = window /\ chunks # <<>>
      BY <1>2, <1>3, <1>5, <1>1, <2>2
    <3>2. Follows(chunks[i], window)
      BY <2>2, <3>1 DEF WindowInv, n
    <3> QED  BY <1>6, <2>1, <3>1, <3>2 DEF Follows
  <2>3. CASE i # n
    <3>1. i + 1 \in 1 .. n /\ i \in 1 .. n - 1
      BY <1>1, <2>3
    <3>2. chunks'[i + 1] = chunks[i + 1]
      BY <1>2, <1>4, <3>1
    <3>3. Follows(chunks[i], chunks[i + 1])
      BY <3>1 DEF TextInv, ChunksInv, n
    <3> QED  BY <1>6, <2>1, <3>2, <3>3 DEF Follows
  <2> QED  BY <2>2, <2>3
<1>10. Len(chunks') - 1 = n
  BY <1>1, <1>2
<1>11. chunks' # <<>>
  BY <1>1, <1>2
<1>12. ChunksInv'
  BY <1>2, <1>7, <1>8, <1>9, <1>10 DEF ChunksInv
<1> QED  BY <1>2, <1>5, <1>11, <1>12


\* Every step of the splitter and of the rounds keeps the invariant.
LEMMA TextStep ==
  ASSUME TextInv, [TextNext]_summary
  PROVE  TextInv'
<1>1. /\ text \in Seq(Nat) /\ Len(text) \in Nat /\ next \in Nat
      /\ \A i \in 1 .. Len(text) : text[i] \in 1 .. ChunkSize
  <2>1. text \in Seq(1 .. ChunkSize)
    BY DEF TextInv
  <2>2. \A i \in 1 .. Len(text) : text[i] \in 1 .. ChunkSize
    BY <2>1, ElementOfSeq
  <2>3. Len(text) \in Nat /\ next \in Nat
    BY <2>1, LenProperties DEF TextInv
  <2>4. 1 .. ChunkSize \subseteq Nat
    OBVIOUS
  <2> QED  BY <2>1, <2>2, <2>3, <2>4, SeqMonotonic DEF TextInv
<1>2. /\ \A lo \in 1 .. Len(text) + 1, hi \in 0 .. Len(text) : Length(lo, hi) \in Int
      /\ \A i \in 1 .. Len(text) : Length(i, i) = text[i]
      /\ \A lo, hi \in Nat : hi < lo => Length(lo, hi) = 0
  BY <1>1, LengthProperties
<1>3. text' = text
  BY DEF TextNext, summary, Grow, Yield, Joined, Merge, Summarized
<1>4. \A lo, hi : Length(lo, hi)' = Length(lo, hi)
  BY <1>3 DEF Length, Upto
<1>5. ASSUME UNCHANGED chunks PROVE ChunksInv'
  BY <1>3, <1>4, <1>5 DEF TextInv, ChunksInv, Fine, Follows
<1>6. CASE UNCHANGED summary
  BY <1>3, <1>4, <1>5, <1>6 DEF TextInv, summary, WindowInv, Fine, Follows
<1>7. CASE Grow
  <2>1. /\ phase = "join" /\ next \in 1 .. Len(text) /\ Length(window.lo, next) <= ChunkSize
        /\ window' = [window EXCEPT !.hi = next] /\ next' = next + 1
        /\ UNCHANGED <<chunks, phase>>
        /\ window \in [lo : Nat, hi : Nat] /\ WindowInv
    BY <1>1, <1>7 DEF Grow, Fits, TextInv
  <2>2. window' \in [lo : Nat, hi : Nat] /\ window'.lo = window.lo /\ window'.hi = next
    BY <1>1, <2>1
  <2>3. Fine(window)'
    <3>1. window.lo \in 1 .. next
      BY <1>1, <2>1 DEF WindowInv, Fine
    <3> QED  BY <1>3, <1>4, <2>1, <2>2, <3>1 DEF Fine
  <2>4. chunks # <<>> => Follows(chunks[Len(chunks)], window')
    <3> SUFFICES ASSUME chunks # <<>> PROVE Follows(chunks[Len(chunks)], window')
      OBVIOUS
    <3>1. Len(chunks) \in DOMAIN chunks /\ chunks[Len(chunks)] \in [lo : Nat, hi : Nat]
      <4>1. chunks \in Seq([lo : Nat, hi : Nat])
        BY DEF TextInv
      <4>2. Len(chunks) \in 1 .. Len(chunks)
        BY <4>1, EmptySeq, LenProperties
      <4> QED  BY <4>1, <4>2, ElementOfSeq, LenProperties
    <3>2. Follows(chunks[Len(chunks)], window)
      BY <2>1 DEF WindowInv
    <3> QED  BY <1>1, <2>1, <2>2, <3>1, <3>2 DEF Follows, WindowInv
  <2>5. WindowInv'
    BY <1>1, <1>4, <2>1, <2>2, <2>3, <2>4 DEF WindowInv, Follows
  <2> QED  BY <1>1, <1>3, <1>5, <2>1, <2>2, <2>5 DEF TextInv
<1>8. CASE Yield
  <2>1. /\ phase = "join" /\ next \in 1 .. Len(text) /\ ~(Length(window.lo, next) <= ChunkSize)
        /\ chunks' = Append(chunks, window) /\ next' = next + 1 /\ phase' = phase
        /\ window \in [lo : Nat, hi : Nat] /\ WindowInv
    BY <1>1, <1>8 DEF Yield, Fits, TextInv
  <2>2. next # 1
    <3> SUFFICES ASSUME next = 1 PROVE FALSE
      OBVIOUS
    <3>1. window.lo = 1
      BY <2>1 DEF WindowInv
    <3>2. Length(1, 1) = text[1] /\ text[1] <= ChunkSize
      BY <1>1, <1>2, <2>1
    <3> QED  BY <2>1, <3>1, <3>2
  <2>3. /\ window.hi = next - 1 /\ window.lo \in 1 .. next - 1
    BY <2>1, <2>2 DEF WindowInv, Fine
  <2>4. PICK lo \in window.lo .. next :
          /\ \A i \in window.lo .. next :
                i >= lo <=> Length(i, next - 1) <= Overlap /\ Length(i, next) <= ChunkSize
          /\ window' = Span(lo, next)
    BY <1>8 DEF Yield, Fits
  <2>5. window.lo < lo /\ Length(lo, next - 1) <= Overlap /\ Length(lo, next) <= ChunkSize
    <3>1. window.lo \in window.lo .. next /\ lo \in window.lo .. next
      BY <1>1, <2>3, <2>4
    <3>2. ~(window.lo >= lo)
      BY <2>1, <2>4, <3>1
    <3>3. lo >= lo
      BY <1>1, <2>3, <3>1
    <3> QED  BY <1>1, <2>3, <2>4, <3>1, <3>2, <3>3
  <2>6. /\ chunks' \in Seq([lo : Nat, hi : Nat]) /\ chunks' # <<>>
        /\ chunks'[Len(chunks')] = window
        /\ ChunksInv'
    BY <1>3, <2>1, <2>2, YieldWindow
  <2>7. window' \in [lo : Nat, hi : Nat] /\ window'.lo = lo /\ window'.hi = next
    BY <1>1, <2>3, <2>4 DEF Span
  <2>8. Fine(window)'
    BY <1>1, <1>3, <1>4, <2>1, <2>3, <2>4, <2>5, <2>7 DEF Fine
  <2>9. Follows(window, window')
    BY <1>1, <2>3, <2>4, <2>5, <2>7 DEF Follows
  <2>10. WindowInv'
    <3>1. window'.hi = next' - 1 /\ next' # 1
      BY <1>1, <2>1, <2>2, <2>7
    <3>2. Follows(chunks[Len(chunks)], window)'
      BY <1>4, <2>6, <2>9 DEF Follows
    <3> QED  BY <2>6, <2>8, <3>1, <3>2 DEF WindowInv
  <2> QED  BY <1>1, <1>3, <2>1, <2>6, <2>7, <2>10 DEF TextInv
<1>9. CASE Joined
  <2>1. /\ phase = "join" /\ next = Len(text) + 1 /\ phase' = "merge" /\ UNCHANGED <<next, window>>
        /\ chunks' = IF window.hi < window.lo THEN chunks ELSE Append(chunks, window)
        /\ window \in [lo : Nat, hi : Nat] /\ WindowInv
    BY <1>1, <1>9 DEF Joined, TextInv
  <2>2. CASE next = 1
    <3>1. text = <<>> /\ chunks' = chunks
      BY <1>1, <2>1, <2>2, EmptySeq DEF WindowInv
    <3> QED  BY <1>3, <1>5, <2>1, <3>1 DEF TextInv
  <2>3. CASE next # 1
    <3>1. chunks' = Append(chunks, window)
      BY <2>1, <2>3 DEF WindowInv, Fine
    <3>2. /\ chunks' \in Seq([lo : Nat, hi : Nat]) /\ chunks' # <<>>
          /\ chunks'[Len(chunks')] = window
          /\ ChunksInv'
      BY <1>3, <2>1, <2>3, <3>1, YieldWindow
    <3>3. window.hi = Len(text)
      BY <1>1, <2>1 DEF WindowInv
    <3> QED  BY <1>3, <2>1, <3>2, <3>3 DEF TextInv
  <2> QED  BY <2>2, <2>3
<1>10. CASE Merge \/ Summarized
  <2>1. phase # "join" /\ phase' \in {"merge", "done"} /\ UNCHANGED <<next, window, chunks>>
    BY <1>10 DEF Merge, Summarized
  <2> QED  BY <1>3, <1>5, <2>1 DEF TextInv
<1> QED  BY <1>6, <1>7, <1>8, <1>9, <1>10 DEF TextNext


LEMMA TextCorrect == TextSpec => []TextInv
<1>1. TextInit => TextInv
  BY StartText DEF TextInit
<1>2. TextInv /\ [TextNext]_summary => TextInv'
  BY TextStep
<1> QED  BY <1>1, <1>2, PTL DEF TextSpec

LEMMA TextChunks == TextInv => ChunksFit
<1> SUFFICES ASSUME TextInv PROVE ChunksFit
  OBVIOUS
<1>1. /\ text \in Seq(Nat) /\ Len(text) \in Nat
      /\ chunks \in Seq([lo : Nat, hi : Nat]) /\ DOMAIN chunks = 1 .. Len(chunks)
  <2>1. text \in Seq(1 .. ChunkSize) /\ chunks \in Seq([lo : Nat, hi : Nat])
    BY DEF TextInv
  <2>2. 1 .. ChunkSize \subseteq Nat
    OBVIOUS
  <2> QED  BY <2>1, <2>2, SeqMonotonic, LenProperties
<1>2. \A lo \in 1 .. Len(text) + 1, hi \in 0 .. Len(text) : Length(lo, hi) \in Int
  BY <1>1, LengthProperties
<1>3. ASSUME NEW i \in DOMAIN chunks
      PROVE  /\ chunks[i].lo <= chunks[i].hi
             /\ Instructions + Length(chunks[i].lo, chunks[i].hi) + MaxTokens <= Context
             /\ chunks[i].lo = 1 \/ i > 1
  <2>1. Fine(chunks[i])
    BY DEF TextInv, ChunksInv
  <2>2. /\ chunks[i].lo <= chunks[i].hi
        /\ chunks[i].lo \in 1 .. Len(text) + 1 /\ chunks[i].hi \in 0 .. Len(text)
        /\ Length(chunks[i].lo, chunks[i].hi) <= ChunkSize
    BY <1>1, <2>1 DEF Fine
  <2>3. Length(chunks[i].lo, chunks[i].hi) \in Int
    BY <1>2, <2>2
  <2>4. Instructions + Length(chunks[i].lo, chunks[i].hi) + MaxTokens <= Context
    BY <2>2, <2>3, SummaryAssumption DEF ChunkSize
  <2>5. i = 1 \/ i > 1
    BY <1>1
  <2>6. chunks # <<>> /\ (i = 1 => chunks[i].lo = 1)
    <3>1. chunks # <<>>
      BY <1>1, EmptySeq
    <3> QED  BY <3>1 DEF TextInv, ChunksInv
  <2> QED  BY <2>2, <2>4, <2>5, <2>6
<1>4. \A i \in 1 .. Len(chunks) - 1 : Follows(chunks[i], chunks[i + 1])
  BY DEF TextInv, ChunksInv
<1>5. phase # "join" /\ text # <<>> => chunks # <<>> /\ chunks[Len(chunks)].hi = Len(text)
  BY DEF TextInv
<1> QED  BY <1>3, <1>4, <1>5 DEF ChunksFit, Follows

\* Clip cuts right after the last suffix that is too long, found by steps of two from the
\* newest pair of messages.
LEMMA ClipFits ==
  ASSUME text \in Seq(Nat), NEW n \in 1 .. Len(text), n % 2 = 0, NEW max \in Nat
  PROVE  /\ Length(Clip(n, max), n) <= max
         /\ Clip(n, max) > 2 => Length(Clip(n, max) - 2, n) > max
<1> DEFINE tooLong == {i \in 1 .. n - 1 : (n - 1 - i) % 2 = 0 /\ Length(i, n) > max}
<1>1. /\ Len(text) \in Nat /\ n \in Nat
      /\ \A lo \in 1 .. Len(text) + 1, hi \in 0 .. Len(text) : Length(lo, hi) \in Int
      /\ \A lo, hi \in Nat : hi < lo => Length(lo, hi) = 0
  BY LengthProperties, LenProperties
<1>2. \A i \in 1 .. n - 1 : Length(i, n) \in Int
  <2>1. n \in 0 .. Len(text) /\ \A i \in 1 .. n - 1 : i \in 1 .. Len(text) + 1
    BY <1>1
  <2> QED  BY <1>1, <2>1
<1>3. \A i \in 1 .. n - 1 : (n - 1 - i) % 2 = 0 /\ i \notin tooLong => Length(i, n) <= max
  BY <1>2
<1>4. CASE tooLong = {}
  <2>1. Clip(n, max) = 1
    BY <1>4 DEF Clip
  <2>2. 1 \in 1 .. n - 1 /\ (n - 1 - 1) % 2 = 0
    BY <1>1
  <2>3. Length(1, n) <= max
    BY <1>3, <1>4, <2>2
  <2> QED  BY <2>1, <2>3
<1>5. CASE tooLong # {}
  <2> DEFINE last == CHOOSE i \in tooLong : \A k \in tooLong : k <= i
  <2>1. Clip(n, max) = last + 2
    BY <1>5 DEF Clip
  <2>2. last \in tooLong /\ \A k \in tooLong : k <= last
    <3>1. n - 1 \in Nat /\ tooLong \in SUBSET (1 .. n - 1)
      BY <1>1
    <3> HIDE DEF tooLong
    <3>2. \E m \in tooLong : \A k \in tooLong : k <= m
      BY <1>5, <3>1, Greatest
    <3> QED  BY <3>2
  <2> HIDE DEF last
  <2>3. last \in 1 .. n - 1 /\ (n - 1 - last) % 2 = 0 /\ Length(last, n) > max
    BY <2>2
  <2>4. Length(last + 2, n) <= max
    <3>1. CASE last = n - 1
      <4>1. last + 2 \in Nat /\ n < last + 2
        BY <1>1, <2>3, <3>1
      <4>2. Length(last + 2, n) = 0
        BY <1>1, <4>1
      <4> QED  BY <4>2
    <3>2. CASE last # n - 1
      <4>1. last + 2 \in 1 .. n - 1 /\ (n - 1 - (last + 2)) % 2 = 0 /\ ~(last + 2 <= last)
        <5> DEFINE d == n - 1 - last
        <5>1. d \in Nat /\ d # 0 /\ d % 2 = 0 /\ n - 1 - (last + 2) = d - 2 /\ last \in Nat
          BY <1>1, <2>3, <3>2
        <5> HIDE DEF d
        <5>2. d # 1 /\ d - 2 \in Nat /\ (d - 2) % 2 = 0
          BY <5>1
        <5>3. last + 2 \in 1 .. n - 1 /\ ~(last + 2 <= last)
          BY <1>1, <5>1, <5>2
        <5> QED  BY <5>1, <5>2, <5>3
      <4>2. last + 2 \notin tooLong
        <5> HIDE DEF tooLong
        <5> QED  BY <2>2, <4>1
      <4> QED  BY <1>3, <4>1, <4>2
    <3> QED  BY <3>1, <3>2
  <2>5. last + 2 - 2 = last
    BY <2>3
  <2> QED  BY <2>1, <2>3, <2>4, <2>5
<1> QED  BY <1>4, <1>5

\* Whatever the fragments of a document, the chunks that are made of it fit the context
\* window with the prompt and the answer, overlap by no more than they may and leave
\* nothing out; and a clipped history fits, with nothing cut that would have fit
\* (text_splitter.py _join, VideoBots.py convo_window_clipper).
THEOREM TextsFit == TextSpec => []FitsWindow
<1>1. TextInv => HistoryFits
  <2> SUFFICES ASSUME TextInv, NEW n \in DOMAIN text, NEW max \in 0 .. Context, n % 2 = 0
               PROVE  /\ Length(Clip(n, max), n) <= max
                      /\ Clip(n, max) > 2 => Length(Clip(n, max) - 2, n) > max
    BY DEF HistoryFits
  <2>1. text \in Seq(Nat) /\ n \in 1 .. Len(text)
    <3>1. text \in Seq(1 .. ChunkSize) /\ 1 .. ChunkSize \subseteq Nat
      BY DEF TextInv
    <3> QED  BY <3>1, SeqMonotonic, LenProperties
  <2>2. max \in Nat
    BY SummaryAssumption
  <2> QED  BY <2>1, <2>2, ClipFits
<1>2. TextInv => FitsWindow
  BY <1>1, TextChunks DEF FitsWindow
<1> QED  BY <1>2, TextCorrect, PTL


\* The documents of a round are summaries of intervals of chunks, each going on where the
\* one before ends, from the first chunk to the last.
Tile(ds, n) ==
    /\ ds \in Seq([lo : Nat, hi : Nat])
    /\ IF n = 0 THEN ds = <<>>
       ELSE /\ ds # <<>> /\ ds[1].lo = 1 /\ ds[Len(ds)].hi = n
            /\ \A i \in 1 .. Len(ds) - 1 : ds[i + 1].lo = ds[i].hi + 1

DocsInv ==
    /\ phase # "join" => Tile(docs, Len(chunks))
    /\ phase = "done" => Len(docs) < 2

\* A round keeps the order: pairs are merged, and a document that is left over comes last.
LEMMA MergeTiles ==
  ASSUME NEW ds \in Seq([lo : Nat, hi : Nat]), NEW n \in Nat, Tile(ds, n), Len(ds) >= 2
  PROVE  Tile([i \in Pairs(Len(ds)) |-> Span(ds[2 * i - 1].lo, ds[2 * i].hi)] \o Leftover(ds), n)
<1> DEFINE k == Len(ds)
           h == k \div 2
           pairs == [i \in Pairs(k) |-> Span(ds[2 * i - 1].lo, ds[2 * i].hi)]
           merged == pairs \o Leftover(ds)
<1>1. k \in Nat /\ k >= 2 /\ DOMAIN ds = 1 .. k /\ \A i \in 1 .. k : ds[i] \in [lo : Nat, hi : Nat]
  BY LenProperties, ElementOfSeq
<1>2. n # 0 /\ ds[1].lo = 1 /\ ds[k].hi = n /\ \A i \in 1 .. k - 1 : ds[i + 1].lo = ds[i].hi + 1
  <2>1. ds # <<>>
    BY <1>1, EmptySeq
  <2> QED  BY <2>1 DEF Tile
<1>3. /\ h \in Nat /\ h >= 1
      /\ k = 2 * h \/ k = 2 * h + 1
      /\ k % 2 = 1 <=> k = 2 * h + 1
  <2> HIDE DEF k
  <2> QED  BY <1>1
<1>4. \A i \in 1 .. h : 2 * i - 1 \in 1 .. k /\ 2 * i \in 1 .. k
  <2> HIDE DEF k, h
  <2> QED  BY <1>1, <1>3
<1>5. pairs \in Seq([lo : Nat, hi : Nat]) /\ Len(pairs) = h
  <2>1. \A i \in 1 .. h : Span(ds[2 * i - 1].lo, ds[2 * i].hi) \in [lo : Nat, hi : Nat]
    BY <1>1, <1>4 DEF Span
  <2>2. pairs \in [1 .. h -> [lo : Nat, hi : Nat]]
    BY <2>1 DEF Pairs
  <2> HIDE DEF pairs, h
  <2>3. pairs \in Seq([lo : Nat, hi : Nat])
    BY <1>3, <2>2, SeqDef
  <2> QED  BY <1>3, <2>2, <2>3, LenProperties
<1>6. \A i \in 1 .. h : pairs[i].lo = ds[2 * i - 1].lo /\ pairs[i].hi = ds[2 * i].hi
  BY DEF Pairs, Span
<1>7. ASSUME NEW i \in 1 .. h - 1 PROVE pairs[i + 1].lo = pairs[i].hi + 1
  <2>1. i \in 1 .. h /\ i + 1 \in 1 .. h /\ 2 * (i + 1) - 1 = 2 * i + 1 /\ 2 * i \in 1 .. k - 1
    <3> HIDE DEF k, h
    <3> QED  BY <1>1, <1>3
  <2> HIDE DEF pairs, k, h
  <2>2. pairs[i + 1].lo = ds[2 * i + 1].lo /\ pairs[i].hi = ds[2 * i].hi
    BY <1>6, <2>1
  <2> QED  BY <1>2, <2>1, <2>2
<1>8. 1 \in 1 .. h /\ h \in 1 .. h /\ 2 * 1 - 1 = 1
  <2> HIDE DEF h
  <2> QED  BY <1>3
<1>9. pairs[1].lo = 1
  <2> HIDE DEF pairs, h
  <2> QED  BY <1>2, <1>6, <1>8
<1>10. pairs[h].hi = ds[2 * h].hi
  <2> HIDE DEF pairs, h
  <2> QED  BY <1>6, <1>8
<1>11. CASE k = 2 * h
  <2>1. Leftover(ds) = <<>>
    <3>1. k % 2 # 1
      <4> HIDE DEF k, h
      <4> QED  BY <1>1, <1>3, <1>11
    <3> QED  BY <3>1 DEF Leftover
  <2>2. merged = pairs
    <3> HIDE DEF pairs
    <3> QED  BY <1>5, <2>1
  <2>3. pairs # <<>>
    <3> HIDE DEF pairs, h
    <3> QED  BY <1>3, <1>5
  <2>4. Tile(pairs, n)
    <3> HIDE DEF pairs, k, h
    <3> QED  BY <1>2, <1>5, <1>7, <1>9, <1>10, <1>11, <2>3 DEF Tile
  <2> QED  BY <2>2, <2>4
<1>12. CASE k = 2 * h + 1
  <2>1. Leftover(ds) = <<ds[k]>>
    <3>1. k % 2 = 1
      BY <1>3, <1>12
    <3> QED  BY <3>1 DEF Leftover
  <2>2. ds[k] \in [lo : Nat, hi : Nat] /\ ds[k].hi = n /\ ds[k].lo = ds[2 * h].hi + 1
    <3>1. k \in 1 .. k /\ 2 * h \in 1 .. k - 1 /\ 2 * h + 1 = k
      <4> HIDE DEF k, h
      <4> QED  BY <1>1, <1>3, <1>12
    <3> HIDE DEF k, h
    <3> QED  BY <1>1, <1>2, <3>1
  <2>3. merged = Append(pairs, ds[k])
    <3> HIDE DEF pairs, k
    <3> QED  BY <1>5, <2>1, <2>2
  <2> HIDE DEF pairs, k, h, merged
  <2>4. /\ merged \in Seq([lo : Nat, hi : Nat]) /\ Len(merged) = h + 1
        /\ \A i \in 1 .. h : merged[i] = pairs[i]
        /\ merged[h + 1] = ds[k]
    <3>1. /\ Append(pairs, ds[k]) \in Seq([lo : Nat, hi : Nat])
          /\ Len(Append(pairs, ds[k])) = Len(pairs) + 1
          /\ \A i \in 1 .. Len(pairs) : Append(pairs, ds[k])[i] = pairs[i]
          /\ Append(pairs, ds[k])[Len(pairs) + 1] = ds[k]
      <4> DEFINE S == [lo : Nat, hi : Nat]
                 last == ds[k]
      <4>1. pairs \in Seq(S) /\ last \in S
        BY <1>5, <2>2
      <4> HIDE DEF S, last
      <4>2. /\ Append(pairs, last) \in Seq(S)
            /\ Len(Append(pairs, last)) = Len(pairs) + 1
            /\ \A i \in 1 .. Len(pairs) : Append(pairs, last)[i] = pairs[i]
            /\ Append(pairs, last)[Len(pairs) + 1] = last
        BY <4>1, AppendProperties
      <4> QED  BY <4>2 DEF S, last
    <3> QED  BY <1>5, <2>3, <3>1
  <2>5. merged # <<>> /\ merged[1].lo = 1 /\ merged[Len(merged)].hi = n
    <3>1. merged # <<>>
      BY <1>3, <2>4, EmptySeq
    <3> QED  BY <1>8, <1>9, <2>2, <2>4, <3>1
  <2>6. ASSUME NEW i \in 1 .. Len(merged) - 1 PROVE merged[i + 1].lo = merged[i].hi + 1
    <3>1. CASE i = h
      BY <1>8, <1>10, <2>2, <2>4, <3>1
    <3>2. CASE i # h
      <4>1. i \in 1 .. h - 1 /\ i \in 1 .. h /\ i + 1 \in 1 .. h
        BY <1>3, <2>4, <3>2
      <4> QED  BY <1>7, <2>4, <4>1
    <3> QED  BY <3>1, <3>2
  <2>7. Tile(merged, n)
    BY <1>2, <2>4, <2>5, <2>6 DEF Tile
  <2> QED  BY <2>7 DEF merged, pairs, k
<1> QED  BY <1>3, <1>11, <1>12


LEMMA DocsStep ==
  ASSUME TextInv, TextInv', DocsInv, [TextNext]_summary
  PROVE  DocsInv'
<1>1. Len(chunks) \in Nat /\ Len(chunks') \in Nat
  BY LenProperties DEF TextInv
<1>2. CASE UNCHANGED summary
  BY <1>2 DEF DocsInv, summary, Tile
<1>3. CASE Grow \/ Yield
  BY <1>3 DEF Grow, Yield, DocsInv
<1>4. CASE Joined
  <2> DEFINE n == Len(chunks')
             ds == [i \in 1 .. n |-> Span(i, i)]
  <2>1. docs' = ds /\ phase' = "merge"
    BY <1>4 DEF Joined
  <2> HIDE DEF n
  <2>2. n \in Nat
    BY <1>1 DEF n
  <2>3. ds \in [1 .. n -> [lo : Nat, hi : Nat]] /\ \A i \in 1 .. n : ds[i].lo = i /\ ds[i].hi = i
    <3>1. \A i \in 1 .. n : /\ Span(i, i) \in [lo : Nat, hi : Nat]
                             /\ Span(i, i).lo = i /\ Span(i, i).hi = i
      BY <2>2 DEF Span
    <3> QED  BY <3>1
  <2> HIDE DEF ds
  <2>4. ds \in Seq([lo : Nat, hi : Nat]) /\ Len(ds) = n
    <3>1. ds \in Seq([lo : Nat, hi : Nat])
      BY <2>2, <2>3, SeqDef
    <3> QED  BY <2>2, <2>3, <3>1, LenProperties
  <2>5. n = 0 => ds = <<>>
    BY <2>4, EmptySeq
  <2>6. n # 0 => ds # <<>> /\ 1 \in 1 .. n /\ n \in 1 .. n
    BY <2>2, <2>4, EmptySeq
  <2>7. Tile(ds, n)
    BY <2>2, <2>3, <2>4, <2>5, <2>6 DEF Tile
  <2> QED  BY <2>1, <2>7 DEF DocsInv, n
<1>5. CASE Merge
  <2>1. /\ phase = "merge" /\ phase' = phase /\ chunks' = chunks /\ Len(docs) >= 2
        /\ docs' = [i \in Pairs(Len(docs)) |-> Span(docs[2 * i - 1].lo, docs[2 * i].hi)]
                   \o Leftover(docs)
    BY <1>5 DEF Merge, Carry
  <2>2. Tile(docs, Len(chunks)) /\ docs \in Seq([lo : Nat, hi : Nat])
    BY <2>1 DEF DocsInv, Tile
  <2>3. Tile(docs', Len(chunks))
    BY <1>1, <2>1, <2>2, MergeTiles
  <2> QED  BY <2>1, <2>3 DEF DocsInv
<1>6. CASE Summarized
  BY <1>6 DEF Summarized, DocsInv, Tile
<1> QED  BY <1>2, <1>3, <1>4, <1>5, <1>6 DEF TextNext

\* Rounds that end leave one summary, of every chunk of the document, once and in order,
\* however many documents each round had (DocSummary.py _map_reduce); that they end is
\* WholeIsSummarized of the run.
THEOREM NothingLeftOut == TextSpec => [](phase = "done" => Whole)
<1>1. TextInit => DocsInv
  BY DEF TextInit, DocsInv
<1>2. TextInv /\ TextInv' /\ DocsInv /\ [TextNext]_summary => DocsInv'
  BY DocsStep
<1>3. TextInv /\ DocsInv => (phase = "done" => Whole)
  <2> SUFFICES ASSUME TextInv, DocsInv, phase = "done" PROVE Whole
    OBVIOUS
  <2>1. Tile(docs, Len(chunks)) /\ Len(docs) < 2 /\ Len(chunks) \in Nat
    BY LenProperties DEF DocsInv, TextInv
  <2>2. CASE chunks = <<>>
    <3>1. Len(chunks) = 0
      BY <2>2, EmptySeq
    <3> QED  BY <2>1, <2>2, <3>1 DEF Tile, Whole
  <2>3. CASE chunks # <<>>
    <3>1. Len(chunks) # 0
      <4>1. chunks \in Seq([lo : Nat, hi : Nat])
        BY DEF TextInv
      <4>2. Len(chunks) \in Nat \ {0}
        BY <2>3, <4>1, EmptySeq
      <4> QED  BY <4>2
    <3>2. docs \in Seq([lo : Nat, hi : Nat]) /\ docs # <<>>
      BY <2>1, <3>1 DEF Tile
    <3>3. Len(docs) = 1
      <4>1. Len(docs) \in Nat \ {0}
        BY <3>2, EmptySeq
      <4>2. \A m \in Nat \ {0} : m < 2 => m = 1
        OBVIOUS
      <4> QED  BY <2>1, <4>1, <4>2
    <3>4. docs[1].lo = 1 /\ docs[1].hi = Len(chunks)
      BY <2>1, <3>1, <3>3 DEF Tile
    <3>5. docs = <<docs[1]>> /\ docs[1] \in [lo : Nat, hi : Nat]
      <4>1. 1 \in 1 .. Len(docs)
        BY <3>3
      <4>2. docs[1] \in [lo : Nat, hi : Nat]
        BY <3>2, <4>1, ElementOfSeq
      <4>3. docs \in [1 .. 1 -> [lo : Nat, hi : Nat]]
        BY <3>2, <3>3, LenProperties
      <4>4. docs = [i \in 1 .. 1 |-> docs[1]]
        BY <4>3
      <4> QED  BY <4>2, <4>4
    <3>6. docs[1] = Span(1, Len(chunks))
      BY <3>4, <3>5 DEF Span
    <3> QED  BY <2>3, <3>5, <3>6 DEF Whole
  <2> QED  BY <2>2, <2>3
<1> QED  BY <1>1, <1>2, <1>3, TextCorrect, PTL DEF TextSpec

-----------------------------------------------------------------------------
(* The parts together *)

LEMMA TextTyped == TextSpec => []TextTypes
<1>1. TextInit => text \in Texts
  BY DEF TextInit
<1>2. text \in Texts /\ [TextNext]_summary => (text \in Texts)'
  BY DEF TextNext, Grow, Yield, Joined, Merge, Summarized, summary
<1>3. TextInv /\ text \in Texts => TextTypes
  <2> SUFFICES ASSUME TextInv, text \in Texts, NEW i \in DOMAIN chunks
               PROVE  chunks[i].lo \in DOMAIN text /\ chunks[i].hi \in DOMAIN text
    BY DEF TextInv, TextTypes
  <2>1. text \in Seq(1 .. ChunkSize) /\ DOMAIN text = 1 .. Len(text) /\ Len(text) \in Nat
    BY LenProperties DEF TextInv
  <2>2. Fine(chunks[i]) /\ chunks[i] \in [lo : Nat, hi : Nat]
    BY ElementOfSeq, LenProperties DEF TextInv, ChunksInv
  <2> QED  BY <2>1, <2>2 DEF Fine
<1> QED  BY <1>1, <1>2, <1>3, TextCorrect, PTL DEF TextSpec

\* A behaviour of the instance is a behaviour of each part, so that what was proved of
\* the parts holds of it.
LEMMA PartsOfUsage ==
    UsageSpec => Spec /\ CreditSpec /\ CallSpec /\ ConvoSpec /\ AnalSpec /\ TextSpec
<1>1. UsageInit => Init /\ CreditInit /\ CallInit /\ ConvoInit /\ AnalInit /\ TextInit
  BY DEF UsageInit
<1>2. [UsageNext]_usage =>
         /\ [Next]_run /\ [CreditNext]_credit /\ [CallNext]_call
         /\ [ConvoNext]_convo /\ [AnalNext]_analysis /\ [TextNext]_summary
  BY DEF UsageNext, Summarizes, usage
<1> QED  BY <1>1, <1>2, PTL
         DEF UsageSpec, Spec, CreditSpec, CallSpec, ConvoSpec, AnalSpec, TextSpec

\* The rows of runs, workspaces, calls, messages and analyses keep their types, chunks lie
\* within their text, and a run or call is charged what it had to be and once
\* (daras_ai_v2/base.py, usage_costs/twilio_usage_cost.py, bots/models/convo_msg.py,
\* bots/tasks.py, recipes/DocSummary.py).
THEOREM UsageTyped == ASSUME IsFiniteSet(Runs) PROVE UsageSpec => []UsageTypes
<1>1. /\ LimitInv => TypeOK
      /\ CallInv => CallTypes
      /\ ConvoInv => ConvoTypes
      /\ AnalInv => AnalTypes
  BY DEF LimitInv, CallInv, ConvoInv, AnalInv
<1> QED  BY <1>1, PartsOfUsage, LimitsCorrect, ChargedOncePerRun, CallCorrect,
            ConversationCorrect, AnalCorrect, TextTyped, PTL DEF UsageTypes
=============================================================================
