\* One sender, as with one ntrackd.
SPECIFICATION ModSpec
CONSTANTS
    Senders = {s1}
    Hooks = {h1, h2}
    Blocks = {b1, b2, b3}
    NULL = null
INVARIANTS
    ModTypeOK
    NoUseAfterFree
    OneConfPerHook
    
    NothingGone
PROPERTIES
    UpdateCompletes
    UnloadEnds
