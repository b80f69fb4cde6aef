CONSTANTS
    a = a
    b = b
    Byte <- MCByte
    max_size = 3
    Frames <- MCFrames
    MaxFrames = 5
SPECIFICATION BothSpec
INVARIANTS
    TypeOK
    FaithfulUntilError
    SizeBounded
    ClientFaithful
PROPERTY IntactOrReported
CHECK_DEADLOCK FALSE
