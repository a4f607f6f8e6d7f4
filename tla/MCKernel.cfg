SPECIFICATION KSpec
CONSTANTS
    NPROC = 2
    Cpus = {c1, c2}
    c1 = c1  c2 = c2  p1 = p1  p2 = p2
    None = None
VIEW View
INVARIANTS
    Exclusive
    NoLostWakeup
    
    Resumes
    
    
CHECK_DEADLOCK FALSE
