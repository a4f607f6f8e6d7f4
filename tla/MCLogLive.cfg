CONSTANTS
    p1 = p1
    p2 = p2
    p3 = p3
    p4 = p4
    b1 = b1
    b2 = b2
    b3 = b3
    b4 = b4
    d0 = d0
    d1 = d1
    Procs = {p1, p2, p3}
    Blocks = {b1, b2, b3, b4}
    Data = {d0}
    LOGBLOCKS = 4
    MAXOPBLOCKS = 2
    OpBlocks = 1
SPECIFICATION FairSpec
INVARIANT NoLogPanic
PROPERTIES SleeperWakes CommitEnds
CHECK_DEADLOCK FALSE
