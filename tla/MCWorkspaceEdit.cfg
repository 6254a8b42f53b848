\* A deduction or a payment between the read and the save of an edit is lost.
SPECIFICATION EditSpec
CONSTANTS
    Accounts = {team}
    team = team
    WorkspaceOf <- MCWorkspaceOf
    Invoices = {i1}
    Amounts <- MCAmounts
    Procs = {p1}
    Opening <- MCOpening
    NoProc = NoProc
    Edits = {e1}
INVARIANT EditKeepsBalance
