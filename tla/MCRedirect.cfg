\* Both counters wrap within the request and the answer; two faults, three retries.
SPECIFICATION FairSpec
CONSTANTS
    SeqMod = 40
    ReqLen = 5
    RestLen = 2
    UrlLen = 6
    PageLen = 3
    MaxTries = 3
    MaxFaults = 2
INVARIANTS
    ForgedFits
    ServerSilent
    NeverReset
PROPERTIES
    GetRedirected
