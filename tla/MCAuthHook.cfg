\* Two CPUs; the user keeps its rule, the rule changes.
SPECIFICATION KernelSpec
CONSTANTS
    Hooks = {h1, h2}
    Confs <- Flipping
    Verdicts = {}
    KeepAlive = 1
    UpdateGap = 1
    MaxJiffies = 3
    NULL = null
INVARIANTS
    TypeOK
    
    
    GrantSticks
    
