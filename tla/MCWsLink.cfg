CONSTANTS
    Lengths <- MCLengths
    Reasons <- MCReasons
    MaskKeys <- MCKeys
    Debris <- MCDebris
    maxMsgSize <- ServerLimit
    MAX_FRAME_PAYLOAD <- ClientLimit
    MaxClient = 2
    MaxServer = 2
SPECIFICATION Spec
INVARIANTS
    TypeOK
    ServerReads
    ClientInStep
    ClientStopsForCause
    CloseFits
CHECK_DEADLOCK FALSE
