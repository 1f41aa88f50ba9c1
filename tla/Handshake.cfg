\* Every combination of the options of both sides, with every timeout.
SPECIFICATION Spec
CONSTANTS
    ProtocolVersion = 1
    MinProtocolVersion = 1
    MaxProtocolVersion = 1
    Unset = Unset
    VersionOptions <- SomeOptions
    MaxSends = 2
INVARIANTS
    ConnectedMeansAgreed
    OnlyAuthenticated
    FailureJustified
PROPERTIES
    HandshakeAnswered
CHECK_DEADLOCK FALSE
