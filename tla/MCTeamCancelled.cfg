SPECIFICATION TeamSpec
CONSTANTS
    Users = {"o", "u"}
    Owner = "o"
    Seats <- MCSeats
    Types = {"basic", "max"}
    NoType = "none"
    Limit <- MCLimit
    Items <- MCItems
    MaxChanges = 2
    MaxJoins = 2
    OneByOne = TRUE
    MaxUses = 0
    MaxLost = 0
INVARIANTS SeatlessIsZero
CHECK_DEADLOCK FALSE
