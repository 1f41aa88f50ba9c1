\* One connection, the two threads of the server, and two others.
SPECIFICATION Spec
CONSTANTS
    Conns = {c1}
    Fds = {f1}
    Users = {u1, u2}
    Closers = {u1}
    Loop = Loop
    Accept = Accept
    None = None
    Sizes = {1, 2}
    MaxTraffic = 2
    MaxQueueBytes = 2
    MaxPendingWrites = 2
    MaxBytes = 2
    MaxConnections = 1
INVARIANTS
    StreamExact
    BudgetAccounted
    SlotReturnedOnce
PROPERTIES
    ConnectionsEnd
\* The loop without events, and no one to connect, waits for ever.
CHECK_DEADLOCK FALSE
