SPECIFICATION FairSpec
CONSTANTS
    Cpus = {c0, c1}
    Macs = {m1, m2}
    Nodes = {n1, n2, n3}
    NULL = null
CHECK_DEADLOCK FALSE
INVARIANTS
    NoUseAfterFree
    TimerGone
PROPERTIES
    
    UnloadEnds
