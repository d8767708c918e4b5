SPECIFICATION TunnelSpec
CONSTANTS
    MaxPolls = 3
    BaReqs = {r1, r2}
    BaQueues = {q1, q2}
    BaSpaces = {n1}
    BaExempt = none
    BaSeqs = {0, 1, 2, 3}
    BaSizes = {0, 1, 2}
    BaLargest = 2
    BaPerQueue = 3
    BaPerSpace = 3
    BaTotal = 3
    BaSlots = 2
    WbBatch = 3
    WbSizes = {1, 2, 4, 6}
    MaxWbBytes = 9
    MaxWbTimers = 5
INVARIANTS BaAccount WbBatches
PROPERTIES GraceSparesLive TunnelSettles
CHECK_DEADLOCK FALSE
