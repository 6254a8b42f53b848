\* Two starts, a press of Stop, two tasks, one failure; of nested runs one that starts two,
\* two workers, one stop or failure.
SPECIFICATION RunsSpec
CONSTANTS
    Webs = {w1, w2}
    Stops = {s1}
    Tasks = {t1, t2}
    NoTask = NoTask
    Faults = {"web", "worker", "child"}
    MaxFaults = 1
    Runs = {a, c, d}
    Roots = {a}
    NoRun = NoRun
    Workers = {v1, v2}
    NoWorker = NoWorker
    Prefetch = 2
    MaxCalls = 2
    Happens = {"stop", "worker", "child"}
    MaxHappens = 1
INVARIANT RunnerInv
INVARIANT ChargedPerDelivery
INVARIANT PostedIsClosed
INVARIANT PriceIsCharged
INVARIANT UsedIsClosed
INVARIANT RowPaidPerDelivery
PROPERTY StoppedInTimeNotCharged
PROPERTY StopEnds
PROPERTY RunCloses
PROPERTY WaitsEnd
CHECK_DEADLOCK FALSE
