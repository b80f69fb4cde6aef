CONSTANTS
    s1 = s1
    s2 = s2
    c1 = c1
    x = x
    reader = reader
    stopper = stopper
    Byte <- MCByte
    max_size = 3
    Senders <- OneSender
    Closers <- OneCloser
    Threads = 1
    InFrames <- DataFrames
    MaxIn = 1
SPECIFICATION Spec
INVARIANTS
    CloseFrameFirst
CHECK_DEADLOCK FALSE
