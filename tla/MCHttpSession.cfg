SPECIFICATION FairSpec
CONSTANTS
    Absent = Absent
    Requests <- MCRequests
    MaxRequests = 3
    Sizes = {0, 2}
    TextSize = 1
INVARIANTS
    TypeOK
    AnswersInOrder
    InStep
    Framed
    OwnAnswerOrNothing
PROPERTIES
    Answered
    CallReturns
CHECK_DEADLOCK FALSE
