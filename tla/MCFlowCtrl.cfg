SPECIFICATION Spec
CONSTANTS
    Names = {"a", "b"}
    Shares <- SomeShares
    Limits <- SomeLimits
    Partial = partial
    NULL = null
INVARIANTS
    FileWhole
    ModuleFollowsFile
    
