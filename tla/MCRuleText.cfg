\* Texts of up to six tokens, and the longer ones of MCSeeds with limits of one.
SPECIFICATION TextSpec
CONSTANTS
    Keys <- MCKeys
    Names <- MCNames
    KnownSets = {"web"}
    Seeds <- MCSeeds
    MaxLen = 6
    MaxUnits = 2
    MAX_USR_SET = 1
    MAX_URL_RULES = 1
INVARIANTS
    NoLeak
    Faithful
    
    
