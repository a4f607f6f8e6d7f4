SPECIFICATION Spec
CONSTANTS
    Memories <- MCMemories
    DIRSIZ = 2
    Paths <- MCPaths
    W = 256
    Half = 8
    Longs <- MCLongs
    Texts <- MCTexts
    UserBytes <- MCUserBytes
    Sizes <- MCSizes
    Targets <- MCTargets
    Space = 16
    PGSIZE = 4
    WORD = 2
    MEGA = 5
    KILO = 3
    FRAC = 4
    DivMax = 31
    Formats <- MCFormats
INVARIANT UnsignedDivide
CHECK_DEADLOCK FALSE
