SPECIFICATION LiveSpec
CONSTANTS
    MaxProcs = 2
    Slots = {k1, k2}
    Dials = {d1}
    QueueSize = 1
    MaxEntries = 2
PROPERTIES GoneEnded
CHECK_DEADLOCK FALSE
