\* Two billing pages: the first subscription is cancelled, and its webhook cancels the second.
SPECIFICATION PlanSpec
CONSTANTS
    Procs = {p1, p2}
    Subs = {s1, s2}
    NoSub = NoSub
    Plans = {pro}
    Starter = Starter
    Tabs = 2
    Serial = TRUE
    MaxEvents = 5
    MaxCrashes = 1
    FailBefore = {}
    MaxAddons = 0
    Happens = {}
SYMMETRY Symmetry
INVARIANT BoughtIsKept
CHECK_DEADLOCK FALSE
