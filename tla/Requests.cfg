\* Two callers, two connections, one data id: every clash of keys, and every
\* interleaving of replies, timeouts, losses and cancellations on both; who
\* settles the request that has a timeout in the end.
SPECIFICATION ClashSpec
CONSTANTS
    Requests = {r1, r2}
    Conns = {c1, c2}
    DataIds = {d1, d2}
    Timed = {r1}
    Cancellable = {r1, r2}
    EarlyExpiry = TRUE
    MayShutdown = TRUE
    NoRequest = NoRequest
    First = r1
    Second = r2
    Away = c2
    Id = d1
    OtherId = d2
    Home = c1
INVARIANTS
    TypeOK
    PendingWhileRegistered
    OneHolder
    ReplyMatches
    AccountedFor
    TimerNotDisarmed
PROPERTIES
    DuplicateKeepsOriginal
    KeepsContract
    SettledUnlessLostTrack
CHECK_DEADLOCK FALSE
