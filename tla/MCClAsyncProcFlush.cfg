SPECIFICATION MCSpec
CONSTANTS
    Workers = {w1}
    Clients = {c1}
    Owner = owner
    Items = {i1, i2}
    NoItem = noitem
    MaxRuns = 1
INVARIANT
    SignalWhileInitialized
