CONSTANTS
  c1 = c1
  c2 = c2
  k1 = k1
  k2 = k2
  Calls <- MCCalls
  Keys <- MCKeys
  Env <- MCEnv
  Peers <- MCPeers
  AllowVia = {}
  MaxAttempts = 2
  maxEntries = 1
  Transit = TRUE
  SettlementFinality = TRUE
  MaxCalls = 1
  MaxRestarts = 0
  Operator = FALSE
SPECIFICATION Spec
INVARIANT FinalMeansAccepted
