SPECIFICATION ProgramsSpec
CONSTANTS
    Writers = {w1}
    Readers = {r1, r2}
    Bytes = {b1, b2}
    PIPESIZE = 2
    WRAP = 4
    MaxN = 3
    p1 = p1  p2 = p2
    None = None
SYMMETRY Symmetry
VIEW View
INVARIANTS
    
    HeapExact
    GrepExact
    BootExact
    CardExact
    Delivered
    Readable
PROPERTIES
    FifoPipe
    IsQueue
    EditsLines
    EofAlone
CHECK_DEADLOCK FALSE
