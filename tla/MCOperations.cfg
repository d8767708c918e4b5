SPECIFICATION OpsSpec
CONSTANTS
    LkReqs = {q1}
    LkTaps = {k1, k2}
    LkEvents = {e1, e2}
    MaxLkCards = 2
    SuDevices = {d1}
    SuEmails = {"a"}
    MaxSuChanges = 1
    MaxSuWatchers = 1
    MaxSuFails = 1
    Execs = {e1, e2, e3}
    MaxShells = 3
    Calls = {c1, c2}
    Owner <- MCOwner
    SpaceNames = {n1}
    MaxSpaces = 2
    SpaceLimit = 1
    CommandIds = {r1, r2}
    MaxLedger = 2
    Jobs = {j1, j2}
    Controllers = {k1, k2}
    JobWrites = {1, 2}
    MaxConcurrentJobs = 1
    MaxOutput = 3
    MaxRetainedJobs = 1
    MaxRetainedBytes = 2
    NoticeLen = 2
    OpHead = 1
    OpTail = 2
    OpPage = 4
    OpMax = 6
    OpFails = 1
    OpCmds = {k1, k2}
    OpThreshold = 1
    OpCap = 3
    OpFiles = 2
    FoCalls = {c1, c2}
    FoKinds = {"read", "edit", "write", "put"}
    FoTexts <- MCFoTexts
    FoSeed <- MCFoSeed
    FoReadCap = 3
    FoReturnCap = 2
    FoPutSize = 2
    CuKeys = {k1, k2}
    CuShotsKept = 1
    MaxCuCalls = 2
    MaxCuShots = 2
    PrPids = {p1, p2}
    PrCalls = {c1, c2}
    PrOps = {"start", "stop", "update"}
    PrFaults = 1
    DcCallers = {k1, k2, k3}
    MaxDcConns = 2
    HsIds = {i1, i2, i3}
    HsMax = 2
    HsCalls = {k1, k2}
    HsSpaces = {w1, w2}
    MaxHsConns = 3
    WpDevices = {d1, d2}
    WpPolls = {p1, p2}
    MaxWpRounds = 2
INVARIANTS RunsSafe FilesSafe CuServiceSafe ProcessSafe ConnsSafe
PROPERTIES CancelsSafe
CHECK_DEADLOCK FALSE
