\* Two requests of a user between count and row at once; the parts' instances are in MCUsage.
SPECIFICATION UsageSpec
CONSTANTS
    Runs = {r1, r2, r3}
    Clients = 2
    MaxRequests = 1
    MaxConcurrency = 1
    Jobs = {j1, j2, j3}
    Workers = 2
    MaxPrice = 2
    MaxCredits = 1
    CallRuns = {a, b}
    Callbacks = {h1, h2, h3}
    Turns = {t1, t2, t3}
    NoTurn = NoTurn
    Answers = {m1, m2, m3}
    NoAnswer = NoAnswer
    Cooldown = 2
    MaxNow = 2
    Context = 7
    Instructions = 1
    MaxTokens = 2
    Overlap = 2
    Texts <- MCTexts
INVARIANT UsageTypes
PROPERTY LimitIsLifted
 
INVARIANT OverdraftBounded
INVARIANT PriceIsDeducted
INVARIANT CallPaidOnce
INVARIANT SkippedForLater
INVARIANT NearQuestion
INVARIANT FitsWindow
PROPERTY WholeIsSummarized
PROPERTY LastIsAnalysed
CHECK_DEADLOCK FALSE
