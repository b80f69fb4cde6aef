SPECIFICATION FairSpec
CONSTANTS
    c1 = c1
    c2 = c2
    Clients <- OneClient
    MaxRequests <- OneRequest
PROPERTY StopReturns
CHECK_DEADLOCK FALSE
