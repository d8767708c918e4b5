SPECIFICATION LiveSpec
CONSTANTS
    MaxBytes = 3
    MaxChunk = 2
    Window = 2
    PollAttempts = 2
    DownMaxFloor = 1
    DownMaxCeiling = 2
    BatchMax = 2
    Agent = FALSE
    LaneZeroMax = 1
    MaxPolls = 4
    MaxFaults = 1
INVARIANTS NothingLost WantInWindow
PROPERTIES ImplementsStream AllRead
CHECK_DEADLOCK FALSE
