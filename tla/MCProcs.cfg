SPECIFICATION ProcsSpec
CONSTANTS
    NPROC = 4
    MaxPid = 5
    KillPids = {2, 3}
    w1 = w1  r1 = r1  r2 = r2  a = a
INVARIANTS
    Tree
    Justified
    RunsAsTyped
PROPERTIES
    Reaped
    WriteEnds
    Ends
CHECK_DEADLOCK FALSE
