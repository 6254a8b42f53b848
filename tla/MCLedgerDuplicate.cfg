SPECIFICATION Spec
CONSTANTS
  team = team
  member = member
  Accounts = {team, member}
  WorkspaceOf <- MCWorkspaceOf
  Invoices = {i1, i2}
  Amounts <- MCAmounts
  Opening <- MCOpening
  Procs = {p1, p2}
  NoProc = NoProc
INVARIANT DuplicateReturnsRow
