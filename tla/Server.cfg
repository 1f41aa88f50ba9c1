\* Two connections, of one address or of two, and one start.
SPECIFICATION MCSpec
CONSTANTS
    MaxConns = 2
    MaxStarts = 1
    MaxConnections = 2
    Addresses <- TwoAddresses
    a = a
    b = b
    Busy = {1}
    App = App
    Admin = Admin
    None = None
INVARIANTS
    RegistryExact
    StopDisconnectsAll
    DrainTellsTruth
    LossAnnounced
CHECK_DEADLOCK FALSE
