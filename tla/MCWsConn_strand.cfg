CONSTANTS
    s1 = s1
    s2 = s2
    c1 = c1
    x = x
    reader = reader
    stopper = stopper
    Byte <- MCByte
    max_size = 3
    Senders <- TwoSenders
    Closers <- OneCloser
    Threads = 2
    InFrames <- DataFrames
    MaxIn = 2
SPECIFICATION Spec
INVARIANTS
    OneWriter
    WireIsFifo
    SendOrder
    CloseOnce
PROPERTIES
    ImplementsOutbox
SYMMETRY Symmetry
CHECK_DEADLOCK FALSE
