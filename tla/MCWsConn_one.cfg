CONSTANTS
    s1 = s1
    s2 = s2
    c1 = c1
    x = x
    reader = reader
    stopper = stopper
    Byte <- MCByte
    max_size = 3
    Senders <- OneSender
    Closers <- OneCloser
    Threads = 1
    InFrames <- AnyFrames
    MaxIn = 2
SPECIFICATION FairSpec
INVARIANTS
    TypeOK
    OneWriter
    WireIsFifo
    SendOrder
    CloseOnce
PROPERTIES
    ImplementsOutbox
    SendsComplete
    CloseEnds
CHECK_DEADLOCK FALSE
