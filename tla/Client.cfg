\* Two connections one after the other, or the second while the first is being
\* lost or has a reader that did not start yet; three bytes, in all pieces, and one.
SPECIFICATION Spec
CONSTANTS
    MaxConns = 2
    Stream <- SomeStreams
    MaxBytes = 3
    App = App
    None = None
INVARIANTS
    InboundExact
    FramesHandledOnce
    
    LossComplete
CHECK_DEADLOCK FALSE
