------------------------------ MODULE MCLedger ------------------------------
(* Ledger with one team workspace and one member of it: a duplicate delivery,  *)
(* a concurrent run and a retry can all meet on either row.                    *)
EXTENDS Ledger, TLC

CONSTANTS team, member

MCOpening == [a \in Accounts |-> 1]
MCAmounts == {-2, 3}
MCDeduction == {-2}
MCWorkspaceOf == [a \in Accounts |-> team]
Symmetry == Permutations(Procs) \cup Permutations(Invoices)
=============================================================================
