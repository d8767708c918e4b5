SPECIFICATION WaitSpec
CONSTANTS
    MaxSent = 3
    CapabilitySets = {{"exec","read","write","logs"},{"exec","read"}}
    AcSessions = {s1}
    AcAsks = {k1}
    AcPhone = FALSE
    MaxAcChanges = 1
    DkKeys = {k1, k2}
    DkBatch = 2
    MaxDkFaults = 1
    InVersions <- MCVersions
    InFirst <- MCFirst
    InSources <- MCSources
    InFails = 1
    InWorks = 1
    Asks = {r1}
    Phones = {p1, p2}
    MaxCards = 1
    MaxConns = 2
    MaxLosses = 2
    LkReqs = {q1}
    LkTaps = {k1, k2}
    LkEvents = {e1, e2}
    MaxLkCards = 1
    SuDevices = {d1}
    SuEmails = {"a"}
    MaxSuChanges = 5
    MaxSuWatchers = 6
    MaxSuFails = 1
    CdCalls = {k1}
    CdDevices = {d1, d2}
    CdNoDevice = d0
    MaxCdMoves = 2
    WfRids = {r1}
    WfPayloads = {p1}
    WfCalls = {k1, k2}
    WfRequestWindow = 2
    WfMaxGrant = 2
    WfHour = 3
    WfTimeout = 1
    WfStaleGrace = 1
    WfMaxOps = 2
    WfMaxJobs = 2
    WfNoPayload = p0
    MaxWfTime = 6
    MaxWfCrashes = 1
INVARIANTS DeviceSafe CardsSafe CallsSafe
PROPERTIES WaitsEnd CatchesUp
CHECK_DEADLOCK FALSE
