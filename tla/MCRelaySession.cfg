SPECIFICATION TunnelSpec
CONSTANTS
    MaxSent = 1
    MaxPolls = 2
    WideBytes = 5
    WideWindow = 3
    WidePolls = 6
INVARIANTS DrainedMeansRead EndMeansRead  WindowHasNext
CHECK_DEADLOCK FALSE
