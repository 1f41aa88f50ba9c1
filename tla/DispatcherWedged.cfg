\* Two slots that two other messages take, then two messages for one blocking
\* path: the drainer of the path is refused, and no shutdown is involved.
SPECIFICATION Spec
CONSTANTS
    Clients = {c1}
    Paths = {p}
    Workers = {w1}
    MaxPending = 2
    MaxEmits = 4
    MayClose = FALSE
    NoJob = NoJob
PROPERTIES
    BacklogIsRun
CHECK_DEADLOCK FALSE
