CONSTANTS
  FrPeers = {p1}
  FrMachines = {m1}
  FrName = host
  FrCalls = {c1, c2}
  FrMaxLive = 1
  FrDeletesFail = FALSE
  MaxFrShares = 0
  MaxFrTokens = 2
SPECIFICATION FrSpec
INVARIANT FrDesignationDies
CHECK_DEADLOCK FALSE
