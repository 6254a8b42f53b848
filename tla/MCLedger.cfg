\* Two calls at a time on a team and on one of its members.
SPECIFICATION FairSpec
CONSTANTS
    team = team
    member = member
    Accounts = {team, member}
    WorkspaceOf <- MCWorkspaceOf
    Invoices = {i1, i2}
    Amounts <- MCDeduction
    Opening <- MCOpening
    Procs = {p1, p2}
    NoProc = NoProc
INVARIANT LedgerInv
INVARIANT BalanceIsSum
INVARIANT ReturnMeansRecorded
PROPERTY ImplementsLedger
PROPERTY CallsEnd
