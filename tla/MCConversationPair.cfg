\* Turns of two conversations that overlap: an answer is analysed with another's question.
SPECIFICATION ConvoSpec
CONSTANTS
    Turns = {t1, t2}
    NoTurn = NoTurn
INVARIANT OwnQuestion
CHECK_DEADLOCK FALSE
