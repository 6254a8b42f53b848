\* Three searches of a document that changes once, whose lock outlives its owner's work; a
\* plan with one billing page, a failing handler and an add-on; the team is in MCWorkspace.
SPECIFICATION WorkspaceSpec
CONSTANTS
    Runs = {q1, q2, q3}
    NoFile = NoFile
    Free = Free
    Orphan = Orphan
    MaxVersion = 1
    Slow = FALSE
    Procs = {p1, p2}
    Subs = {s1, s2, s3}
    NoSub = NoSub
    Plans = {pro, max}
    Starter = Starter
    Tabs = 1
    Serial = TRUE
    MaxEvents = 6
    MaxCrashes = 1
    FailBefore = {"save", "cancel"}
    MaxAddons = 1
    Happens = {"end"}
    Users = {"o", "u"}
    Owner = "o"
    Seats <- MCSeats
    Types = {"basic", "max"}
    NoType = "none"
    Limit <- MCLimit
    Items <- MCItems
    MaxChanges = 3
    MaxJoins = 2
    OneByOne = TRUE
    MaxUses = 1
    MaxLost = 1
SYMMETRY Symmetry
INVARIANT TeamTypes
INVARIANT RowFollowsStripe
INVARIANT NoFreeRide
PROPERTY NoUnpaidPlan
INVARIANT SeatsMatchStripe
INVARIANT CreditsFollowSeats
INVARIANT NoStaleHit
 
PROPERTY CreditsHaveCause
CHECK_DEADLOCK FALSE
