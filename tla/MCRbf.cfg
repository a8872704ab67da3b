SPECIFICATION FairSpec
CONSTANTS
    Count = 4
    Messages = {m1, m2}
    Torn = torn
    NULL = null
INVARIANTS
    TypeOK
    NoOverwrite
    WholeMessages
PROPERTIES
    RingIsFifo
    EveryMessageConsumed
