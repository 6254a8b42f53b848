\* Two recharges or purchases at once, every event, one death.
SPECIFICATION FairSpec
CONSTANTS
    Procs = {p1, p2}
    PageSize = 1
    MaxInvoices = 3
    Topups = {1}
    Budgets = {2}
    Threshold = 1
    Opening = 0
    Floor = 0
    MaxAttempts = 2
    MaxCrashes = 1
    Events <- MCEvents
    Free = Free
    Orphan = Orphan
INVARIANT RechargeInv
INVARIANT OneOpenInvoice
INVARIANT OneInvoicePerCooldown
PROPERTY PaidIsCredited
PROPERTY AttemptsEnd
CHECK_DEADLOCK FALSE
