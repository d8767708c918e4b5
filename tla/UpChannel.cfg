SPECIFICATION LiveSpec
CONSTANTS
    MaxWrites = 3
    MaxUpload = 2
    Limit = 6
    QueueChunks = 3
    UpWindow = 2
    BulkLanes = 1
    UpAttempts = 2
    MaxFaults = 1
INVARIANTS StreamInOrder AckedNotLost CompleteAtClose BudgetExact GapCanFill
PROPERTIES ImplementsStream WritesSettle
CHECK_DEADLOCK FALSE
