SPECIFICATION FsSpec
CONSTANTS
    p1 = p1  p2 = p2
    None = None
    Procs = {p1, p2}
    NBLOCKS = 7
    BSIZE = 2
    NDIRECT = 1
    NINDIRECT = 2
    MAXOPBLOCKS = 6
    WRAP = 16
    HostFile <- MCHostFile
    Lens = {1, 6}
    MaxWrites = 2
SYMMETRY Symmetry
INVARIANTS
    ReadsBack
    BlocksShared
    
    Alive
    RefsExact
    NoWaitCycle
CHECK_DEADLOCK FALSE
