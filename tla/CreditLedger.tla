---------------------------- MODULE CreditLedger ----------------------------
(* What the credit ledger promises, with no process, lock or transaction in    *)
(* sight: every account (a workspace, or a member of a team workspace) has a   *)
(* credit balance and a history of AppUserTransaction rows, and the only thing *)
(* that ever happens is that one row with a new invoice id is added and the    *)
(* balance moves by its amount, together.  Ledger.tla implements this.         *)
EXTENDS Integers, Sequences

CONSTANTS
    Accounts,  \* rows that have a balance: workspaces and their members
    Invoices,  \* values of AppUserTransaction.invoice_id
    Amounts,   \* credits added (positive) or deducted (negative)
    Opening    \* balance of each account when its row is created

VARIABLES
    balance,   \* balance[a]: the committed balance column of a
    hist       \* hist[a]: the committed transactions of a, oldest first

cvars == <<balance, hist>>

Row == [inv : Invoices, amt : Int, end : Int]

\* AppUserTransaction.invoice_id is unique over the whole table.
Recorded(inv) == \E a \in Accounts : \E k \in DOMAIN hist[a] : hist[a][k].inv = inv

Credit(a, amt, inv) ==
    /\ ~Recorded(inv)
    /\ balance' = [balance EXCEPT ![a] = @ + amt]
    /\ hist' = [hist EXCEPT
                  ![a] = Append(@, [inv |-> inv, amt |-> amt, end |-> balance[a] + amt])]

CreditInit ==
    /\ balance = Opening
    /\ hist = [a \in Accounts |-> << >>]

CreditNext == \E a \in Accounts, amt \in Amounts, inv \in Invoices : Credit(a, amt, inv)

CreditSpec == CreditInit /\ [][CreditNext]_cvars
=============================================================================
