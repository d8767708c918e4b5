SPECIFICATION PermSpec
CONSTANTS
    Dials = {d1}
    Polls = {p1, p2}
    MaxChanges = 3
    OaClients = {client}
    OaCalls = {k1, k2}
    OaMaxUnused = 1
    OaPerClient = 1
    MaxOaRows = 2
    MaxOaToggles = 1
    EmWho = {w1, w2}
    EmAddr = {a1, a2}
    EmSenders = {s1, s2}
    EmPresses = {b1}
    EmPerDay = 1
    EmDay = 1
    EmInterval = 1
    MaxEmLinks = 2
    MaxEmTime = 1
    hub1 = hub1
    hub2 = hub2
    login1 = login1
    login2 = login2
    AmAccounts = {hub1, hub2}
    AmHeaders = {h1}
    AmNames = {login1, login2}
    AmLogins <- MCAmLogins
    AmCalls = {c1, c2}
    AmPurposes = {"apply", "admin"}
    MaxAmInvites = 1
    MaxAmFiled = 1
    FrPeers = {q1}
    FrMachines = {m1}
    FrName = host
    FrCalls = {c1, c2}
    FrMaxLive = 1
    FrDeletesFail = TRUE
    MaxFrShares = 1
    MaxFrTokens = 2
    NfReports = {r1}
    NfOthers = {o1}
    NfTries = 2
    NfLimit = 1
    NvVersions = {v1, v2}
    MaxNvInstalls = 2
    MaxNvReports = 3
    Requests = {r1, r2}
    Delegated = {r2}
    script1 = script1
    script2 = script2
    short = short
    Commands = {script1, script2, short}
    LabelOf <- MCLabelOf
    Dirs = {d1}
    NoDir = nodir
    MaxGrants = 1
    MaxAskedScripts = 1
    MaxAsks = 2
    MaxLate = 1
    Words = {git, push}
    Names = {a, b}
    Scripts = {s1, s2}
    NoScript = none
    PowerShell = TRUE
    PairDials = {e1, e2}
    Controllers = {phone}
    Portal = portal
    MaxPendingPairs = 1
    MaxRequests = 2
SYMMETRY MCSwap
INVARIANTS AccessEnds GateSafe PolicyExact AccountsExact
PROPERTIES PairingSafe OaSafe MailExact
CHECK_DEADLOCK FALSE
