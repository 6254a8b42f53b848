-------------------------- MODULE MCWorkspaceEdit ---------------------------
(* WorkspaceEdit with one workspace, perhaps a member of it, and one edit.      *)
EXTENDS WorkspaceEdit

CONSTANT team

MCOpening == [a \in Accounts |-> 1]
MCAmounts == {-2, 3}
MCWorkspaceOf == [a \in Accounts |-> team]
=============================================================================
