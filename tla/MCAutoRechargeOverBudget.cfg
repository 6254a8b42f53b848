\* The owner may also change the top-up amount: the help text of the budget does not hold.
SPECIFICATION Spec
CONSTANTS
    Procs = {p1}
    PageSize = 10
    MaxInvoices = 3
    Topups = {1, 2}
    Budgets = {1, 2}
    Threshold = 1
    Opening = 0
    Floor <- MCFloor
    MaxAttempts = 3
    MaxCrashes = 0
    Events <- MCSettings
    Free = Free
    Orphan = Orphan
PROPERTY RechargesWithinBudget
CHECK_DEADLOCK FALSE
