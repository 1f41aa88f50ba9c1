\* Two writers that share a budget, a small and a large frame that one writer can
\* hold together, and two threads that close or abort any of them.
SPECIFICATION Spec
CONSTANTS
    large = large
    Writers = {w1, w2}
    Frames = {f1, large}
    Size <- SomeSize
    MaxQueueBytes = 3
    MaxPendingWrites = 2
    MaxBytes = 3
    Closers = {c1, c2}
    Stop = Stop
INVARIANTS
    CountersExact
    BudgetExact
    NothingDroppedSilently
PROPERTIES
    ThreadEnds
\* A writer that nobody closes, with nothing to write, waits for ever.
CHECK_DEADLOCK FALSE
