\* Two connections at most, and more that come one after the other on three
\* descriptors.
SPECIFICATION Spec
CONSTANTS
    Conns = {c1, c2, c3, c4, c5}
    Fds = {f1, f2, f3}
    Users = {}
    Closers = {}
    Loop = Loop
    Accept = Accept
    None = None
    Sizes = {1}
    MaxTraffic = 1
    MaxQueueBytes = 1
    MaxPendingWrites = 1
    MaxBytes = 2
    MaxConnections = 2
SYMMETRY Interchangeable
INVARIANTS
    SlotLimit
CHECK_DEADLOCK FALSE
