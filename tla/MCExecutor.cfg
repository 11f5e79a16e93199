SPECIFICATION RunSpec
CONSTANTS
    Overall = 4
    Idle = 2
    MaxLines = 4
CHECK_DEADLOCK FALSE
INVARIANTS
    VerifiedAnswersAreFinished
    EndsInTime
PROPERTY
    RunEnds
