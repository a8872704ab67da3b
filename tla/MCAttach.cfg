SPECIFICATION Spec
CONSTANTS
    NrCpus = 3
    CapSize = 204800
    NULL = null
INVARIANT RingFound
