\* Two CPUs: the worker may take a node before it is filled.
SPECIFICATION Spec
CONSTANTS
    Cpus = {c0, c1}
    Home = c0
    MaxCount = 1
    Messages = {m1}
    TooBig = big
    Nodes = {n1, n2, n3}
    Garbage = garbage
    Capacity = 1
    None = none
INVARIANTS
    OnlyMessagesPublished
