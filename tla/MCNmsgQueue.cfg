\* Two CPUs: every interleaving of their hooks with the worker.
SPECIFICATION FairSpec
CONSTANTS
    Cpus = {c0, c1}
    Home = c0
    MaxCount = 1
    Messages = {m1}
    TooBig = big
    Nodes = {n1, n2, n3, n4}
    Garbage = garbage
    Capacity = 1
    None = none
INVARIANTS
    TypeOK
    BacklogBounded
    NoLostWakeup
    NodesAccounted
PROPERTIES
    Drains
