---------------------------- MODULE WorkspaceEdit ----------------------------
(* Ledger together with the pages that edit a workspace and save the whole row *)
(* (workspaces/views.py, daras_ai_v2/profiles.py, app_users/models.py): the    *)
(* request reads the row, full_clean() and update_handle() follow, and save()  *)
(* without update_fields writes back every column it read, balance included.   *)
EXTENDS Ledger

CONSTANT Edits   \* page requests that save a workspace

VARIABLE edit    \* edit[e]: the copy of the row request e works on

evars == <<vars, edit>>

Edit == [pc : {"idle", "form", "done"}, acct : Accounts, copy : Int]

IsWorkspace(a) == WorkspaceOf[a] = a

EditInit ==
    /\ Init
    /\ \E a \in Accounts : edit = [e \in Edits |-> [pc |-> "idle", acct |-> a, copy |-> 0]]

\* workspace = copy(membership.workspace): a plain read.
OpenForm(e, a) ==
    /\ edit[e].pc = "idle"
    /\ IsWorkspace(a)
    /\ edit' = [edit EXCEPT ![e] = [pc |-> "form", acct |-> a, copy |-> balance[a]]]
    /\ UNCHANGED vars

\* workspace_copy.save(): the UPDATE waits for the row lock, then writes the copy.
SaveForm(e) ==
    /\ edit[e].pc = "form"
    /\ lock[edit[e].acct] = NoProc
    /\ balance' = [balance EXCEPT ![edit[e].acct] = edit[e].copy]
    /\ edit' = [edit EXCEPT ![e].pc = "done"]
    /\ UNCHANGED <<hist, lock, call>>

EditNext == \/ Next /\ UNCHANGED edit
            \/ \E e \in Edits : SaveForm(e) \/ \E a \in Accounts : OpenForm(e, a)

EditSpec == EditInit /\ [][EditNext]_evars

-----------------------------------------------------------------------------
\* The assertion of bots/tests.py test_add_balance, that the balance is what the
\* recorded amounts add up to, in the terms of the ledger's rows.
EditKeepsBalance == LedgerExplainsBalance
=============================================================================
