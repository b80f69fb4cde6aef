SPECIFICATION Spec
CONSTANTS
    c1 = c1
    c2 = c2
    Clients <- OneClient
    MaxRequests <- OneRequest
INVARIANT NoDanglingEmit
CHECK_DEADLOCK FALSE
