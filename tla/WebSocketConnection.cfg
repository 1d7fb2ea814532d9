\* One connection; the peer and the network may fail at every point.
SPECIFICATION FairSpec
CONSTANTS
    MaxAddresses = 2
    MaxSent = 3
    MaxCalls = 3
INVARIANTS
    TypeOK
    AssertionsHold
PROPERTIES
    ImplementsWebSocket
    ConnectEnds
    CloseEnds
CHECK_DEADLOCK FALSE
