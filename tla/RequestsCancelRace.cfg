\* Two requests, one of which is cancelled while the connection is lost.
SPECIFICATION Spec
CONSTANTS
    Requests = {r1, r2}
    Conns = {c1}
    DataIds = {d1, d2}
    Timed = {r1, r2}
    Cancellable = {r1}
    EarlyExpiry = FALSE
    MayShutdown = FALSE
    NoRequest = NoRequest
    First = r1
    Second = r2
    Home = c1
    Away = c1
    Id = d1
    OtherId = d2
PROPERTIES
    NeverHangs
CHECK_DEADLOCK FALSE
