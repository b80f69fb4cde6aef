SPECIFICATION LeavingSpec
CONSTANTS
    c1 = c1
    c2 = c2
    Clients <- TwoClients
    MaxRequests <- ThreeRequests
INVARIANT TypeOK
INVARIANT StopDrains
PROPERTY QuietStopReturns
PROPERTY StopReturnsOncePeersLeave
CHECK_DEADLOCK FALSE
