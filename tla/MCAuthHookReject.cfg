\* nquery only ever rejects.
SPECIFICATION Spec
CONSTANTS
    Hooks = {h1}
    Confs <- WebOnly
    Verdicts = {2}
    KeepAlive = 1
    UpdateGap = 1
    MaxJiffies = 3
    NULL = null
INVARIANTS
    OnlyAskedStatus
