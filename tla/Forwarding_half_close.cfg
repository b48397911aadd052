SPECIFICATION FwdSpec
CONSTANTS
    Conns = {c1}
    MaxPieces = 1
INVARIANTS AnswerWhole
CHECK_DEADLOCK FALSE
