SPECIFICATION FairSpec
CONSTANTS
    Items = {i1, i2}
    Callers = {c1, c2}
    Levels = {0, 1}
    NULL = null
INVARIANTS
    WalksOnListedItems
    RestoresPermanent
PROPERTIES
    LocksReleased
