---------------------------- MODULE RunAdmission ----------------------------
(* How many runs one user of a workspace gets: the rate limits that a request  *)
(* checks before it creates a row (daras_ai_v2/ratelimits.py).  The two counts *)
(* and the row are steps of their own, and other requests are served meanwhile. *)
(* Many rows are created without any check, and they count too.                *)
EXTENDS Integers, FiniteSets

CONSTANTS
    Runs,            \* requests, each for a run of its own
    Clients,         \* checked requests of the user that are served at once
    MaxRequests,     \* settings.MAX_RPM_*
    MaxConcurrency   \* settings.MAX_CONCURRENCY_*

ASSUME AdmissionAssumption ==
    Clients \in Nat \ {0} /\ MaxRequests \in Nat \ {0} /\ MaxConcurrency \in Nat \ {0}

VARIABLE run  \* run[r]: the request and its SavedRun row

\* "counted" has passed the first limit and "admitted" both; neither has a row yet.
Run == [pc      : {"idle", "counted", "admitted", "rejected", "open", "closed", "lost"},
        age     : {"new", "minute", "old"},  \* since the row was created
        checked : BOOLEAN]

Init == run = [r \in Runs |-> [pc |-> "idle", age |-> "new", checked |-> FALSE]]

HasRow(r) == run[r].pc \in {"open", "closed", "lost"}
StatusSet(r) == run[r].pc \in {"open", "lost"}   \* run_status is not ""

\* The two counts of ensure_rate_limits, of rows with and without a check.
Requests == {r \in Runs : HasRow(r) /\ run[r].age = "new"}

\* Mutant of Running: the count is not limited to the last 30 minutes.
RunningEver == {r \in Runs : StatusSet(r)}

Running == {r \in Runs : StatusSet(r) /\ run[r].age # "old"}

Checked == {r \in Runs : run[r].checked}

\* Requests that have passed the first limit, or both, and have no row.
Counted  == {r \in Runs : run[r].pc \in {"counted", "admitted"}}
Admitted == {r \in Runs : run[r].pc = "admitted"}

Goto(r, pc) == run' = [run EXCEPT ![r].pc = pc]

-----------------------------------------------------------------------------
\* ensure_rate_limits, first half: the rows of the last minute.
CountRequests(r) ==
    /\ run[r].pc = "idle"
    /\ Cardinality(Counted) < Clients
    /\ Goto(r, IF Cardinality(Requests) >= MaxRequests THEN "rejected" ELSE "counted")

\* Mutant of CountRunning: an off-by-one in the comparison.
CountRunningOneMore(r) ==
    /\ run[r].pc = "counted"
    /\ Goto(r, IF Cardinality(Running) > MaxConcurrency THEN "rejected" ELSE "admitted")

\* Second half: the runs of the last 30 minutes that are not over.
CountRunning(r) ==
    /\ run[r].pc = "counted"
    /\ Goto(r, IF Cardinality(Running) >= MaxConcurrency THEN "rejected" ELSE "admitted")

\* The rest of create_new_run: the row, and the task that will run it.
Create(r) ==
    /\ run[r].pc = "admitted"
    /\ run' = [run EXCEPT ![r] = [pc |-> "open", age |-> "new", checked |-> TRUE]]

\* create_new_run without enable_rate_limits, or of a user with disable_rate_limits.
CreateUnchecked(r) ==
    /\ run[r].pc = "idle"
    /\ run' = [run EXCEPT ![r] = [pc |-> "open", age |-> "new", checked |-> FALSE]]

\* RateLimitExceeded is shown; the user may try again.
TryAgain(r) == run[r].pc = "rejected" /\ Goto(r, "idle")

\* The web process or the worker dies, and the row says for ever that it starts or runs.
Lose(r) == run[r].pc = "open" /\ Goto(r, "lost")

\* save_on_step(done=True)
Close(r) == run[r].pc = "open" /\ Goto(r, "closed")

\* max_requests_reset_min, then max_concurrency_reset_min, have passed.
Age(r) ==
    /\ HasRow(r) /\ run[r].age # "old"
    /\ run' = [run EXCEPT ![r].age = IF @ = "new" THEN "minute" ELSE "old"]

Next == \E r \in Runs :
           \/ CountRequests(r) \/ CountRunning(r) \/ Create(r) \/ CreateUnchecked(r)
           \/ TryAgain(r) \/ Lose(r) \/ Close(r) \/ Age(r)

Spec == Init /\ [][Next]_run

\* Clocks run.
Fairness == \A r \in Runs : WF_run(Age(r))

FairSpec == Spec /\ Fairness

-----------------------------------------------------------------------------
\* Who has no row has no age and is not marked as checked.
TypeOK ==
    /\ run \in [Runs -> Run]
    /\ \A r \in Runs : ~HasRow(r) => run[r].age = "new" /\ ~run[r].checked

\* "Limit: {max_concurrency} concurrent runs in {max_concurrency_reset_min}m.": only
\* the runs that are being admitted while the last one is counted come on top.
ConcurrencyLimit ==
    Cardinality(Running \cap Checked) <= MaxConcurrency - 1 + Clients

\* "Limit: {max_requests} requests in {max_requests_reset_min}m.", likewise.
RequestLimit ==
    Cardinality(Requests \cap Checked) <= MaxRequests - 1 + Clients

\* Requests that overlap between count and row exceed a limit by no more than the
\* number of them that are served at once, whatever runs are created without a check.
WithinLimits == ConcurrencyLimit /\ RequestLimit

\* A user is not locked out for ever by runs that nobody will close.
LimitIsLifted ==
    (Cardinality(Running) >= MaxConcurrency) ~> (Cardinality(Running) < MaxConcurrency)
=============================================================================
