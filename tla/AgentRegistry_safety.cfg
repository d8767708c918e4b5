SPECIFICATION Spec
CONSTANTS
    MaxProcs = 2
    Slots = {k1, k2}
    Dials = {d1, d2}
    QueueSize = 1
    MaxEntries = 2
INVARIANTS OpenInOnePlace
PROPERTIES ScanSparesPolling
SYMMETRY Symmetry
CHECK_DEADLOCK FALSE
