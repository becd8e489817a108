\* Every kind of stream, two messages each way, one of them in flight on a hop.
CONSTANTS
    MaxMsg = 2
    Window = 1
CHECK_DEADLOCK FALSE
SPECIFICATION FairSpec
INVARIANTS
    TypeOK
    RefExact
PROPERTIES
    IsForwardedStream
    ProxyEnds
    BothWaysFlow
    LegsEnd
