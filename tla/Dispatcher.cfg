\* One client with three messages on two blocking paths or none, two slots, two
\* workers: the pool fills, drainers and direct tasks compete, and shutdown comes
\* at any time.
SPECIFICATION Spec
CONSTANTS
    Clients = {c1}
    Paths = {p, q}
    Workers = {w1, w2}
    MaxPending = 2
    MaxEmits = 3
    MayClose = TRUE
    NoJob = NoJob
INVARIANTS
    TypeOK
    SlotsConserved
    ActiveTasksExact
    OneDrainer
PROPERTIES
    SerialPerKey
    QueuedJobsRun
    BecomesIdle
CHECK_DEADLOCK FALSE
