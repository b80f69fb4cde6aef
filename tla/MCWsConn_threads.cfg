CONSTANTS
    s1 = s1
    s2 = s2
    c1 = c1
    x = x
    reader = reader
    stopper = stopper
    Byte <- MCByte
    max_size = 3
    Senders <- OneSender
    Closers <- None
    Threads = 2
    InFrames <- Pings
    MaxIn = 1
SPECIFICATION Spec
INVARIANTS
    WireIsFifo
CHECK_DEADLOCK FALSE
