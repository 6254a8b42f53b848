------------------------------ MODULE CallCost ------------------------------
(* The price of a run that answers a phone call.  The run's task computes it   *)
(* from the usage costs and deducts it when the run ends (celeryapp/tasks.py,  *)
(* recipes/VideoBots.py); Twilio's callbacks add the cost of the call, and     *)
(* charge it themselves if the run had been charged when they looked           *)
(* (usage_costs/twilio_usage_cost.py).  Every amount is one credit.            *)
EXTENDS Naturals

CONSTANTS
    CallRuns,   \* SavedRuns that a call waits for
    Callbacks   \* status callbacks of Twilio, each of some call

ASSUME CallAssumption == CallRuns # {}

VARIABLES
    callRun,  \* callRun[r]: its task and the price that it works with
    row,      \* row[r]: whether transaction_id is set, and price
    costs,    \* costs[r]: UsageCost rows of the call
    charged,  \* charged[r]: what the transactions of r have deducted
    hook      \* hook[h]: the run of a callback, and the transaction_id and price it read

call == <<callRun, row, costs, charged, hook>>

CallInit ==
    /\ callRun = [r \in CallRuns |-> [pc |-> "main", due |-> 0]]
    /\ row = [r \in CallRuns |-> [txn |-> FALSE, price |-> 0]]
    /\ costs = [r \in CallRuns |-> 0]
    /\ charged = [r \in CallRuns |-> 0]
    /\ hook = [h \in Callbacks |-> [pc |-> "none", run |-> CHOOSE r \in CallRuns : TRUE,
                                    txn |-> FALSE, price |-> 0]]

-----------------------------------------------------------------------------
\* get_raw_price, of a realtime run: the run's own price and the call's costs so far.
RawPrice(r) ==
    /\ callRun[r].pc = "main"
    /\ callRun' = [callRun EXCEPT ![r] = [pc |-> "priced", due |-> 1 + costs[r]]]
    /\ UNCHANGED <<row, costs, charged, hook>>

\* The run fails, or is stopped: it is not charged.
Fail(r) ==
    /\ callRun[r].pc = "main"
    /\ callRun' = [callRun EXCEPT ![r].pc = "over"]
    /\ UNCHANGED <<row, costs, charged, hook>>

DeductDue(r) ==
    /\ callRun[r].pc = "priced"
    /\ callRun' = [callRun EXCEPT ![r].pc = "charged"]
    /\ charged' = [charged EXCEPT ![r] = @ + callRun[r].due]
    /\ UNCHANGED <<row, costs, hook>>

\* sr.save(update_fields=["updated_at", "transaction", "price"])
SaveRow(r) ==
    /\ callRun[r].pc = "charged"
    /\ callRun' = [callRun EXCEPT ![r].pc = "over"]
    /\ row' = [row EXCEPT ![r] = [txn |-> TRUE, price |-> callRun[r].due]]
    /\ UNCHANGED <<costs, charged, hook>>

\* Mutant of Look: every call is charged by its callback.
LookCharges(h, r) ==
    /\ hook[h].pc = "none"
    /\ hook' = [hook EXCEPT ![h] = [pc |-> "read", run |-> r, txn |-> TRUE, price |-> row[r].price]]
    /\ UNCHANGED <<callRun, row, costs, charged>>

\* A call is completed: the callback reads the row, then asks Twilio for the unit cost.
Look(h, r) ==
    /\ hook[h].pc = "none"
    /\ hook' = [hook EXCEPT ![h] = [pc |-> "read", run |-> r, txn |-> row[r].txn,
                                    price |-> row[r].price]]
    /\ UNCHANGED <<callRun, row, costs, charged>>

\* Mutant of RecordCost: sr.price += amount; sr.save()
RecordStale(h) ==
    LET r == hook[h].run IN
    /\ hook[h].pc = "read"
    /\ costs' = [costs EXCEPT ![r] = @ + 1]
    /\ IF hook[h].txn
       THEN /\ charged' = [charged EXCEPT ![r] = @ + 1]
            /\ row' = [row EXCEPT ![r].price = hook[h].price + 1]
       ELSE UNCHANGED <<charged, row>>
    /\ hook' = [hook EXCEPT ![h].pc = "done"]
    /\ UNCHANGED callRun

\* create_usage_cost_and_deduct_credits, one transaction
RecordCost(h) ==
    LET r == hook[h].run IN
    /\ hook[h].pc = "read"
    /\ costs' = [costs EXCEPT ![r] = @ + 1]
    /\ IF hook[h].txn
       THEN /\ charged' = [charged EXCEPT ![r] = @ + 1]
            /\ row' = [row EXCEPT ![r].price = @ + 1]
       ELSE UNCHANGED <<charged, row>>
    /\ hook' = [hook EXCEPT ![h].pc = "done"]
    /\ UNCHANGED callRun

CallNext ==
    \/ \E r \in CallRuns : RawPrice(r) \/ Fail(r) \/ DeductDue(r) \/ SaveRow(r)
    \/ \E h \in Callbacks, r \in CallRuns : Look(h, r)
    \/ \E h \in Callbacks : RecordCost(h)

CallSpec == CallInit /\ [][CallNext]_call

-----------------------------------------------------------------------------
CallTypes ==
    /\ callRun \in [CallRuns -> [pc : {"main", "priced", "charged", "over"}, due : Nat]]
    /\ row \in [CallRuns -> [txn : BOOLEAN, price : Nat]]
    /\ costs \in [CallRuns -> Nat]
    /\ charged \in [CallRuns -> Nat]
    /\ hook \in [Callbacks -> [pc : {"none", "read", "done"}, run : CallRuns, txn : BOOLEAN,
                               price : Nat]]

\* The price that a charged run shows is what its transactions have deducted, however
\* the callbacks and the run's end interleave.
PriceIsDeducted == \A r \in CallRuns : row[r].txn => row[r].price = charged[r]

\* No call is paid for twice, once with the run's price and once by its callback.
CallPaidOnce == \A r \in CallRuns : charged[r] <= 1 + costs[r]

\* "credits have not yet been deducted": what a callback leaves to the run's price is
\* deducted with it.  Not so for a callback that looks or writes between the run's
\* RawPrice and SaveRow, and for a run that fails.
CallPaid == \A r \in CallRuns :
    callRun[r].pc = "over" /\ row[r].txn /\ (\A h \in Callbacks : hook[h].pc # "read") =>
        charged[r] = 1 + costs[r]
=============================================================================
