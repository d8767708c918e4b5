SPECIFICATION StoreSpec
CONSTANTS
    Sessions = {s1, s2}
    Peers = {p1, p2}
    MaxOps = 2
INVARIANTS RemoveForgets
CHECK_DEADLOCK FALSE
