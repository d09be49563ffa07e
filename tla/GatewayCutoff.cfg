CONSTANTS
  c1 = c1
  c2 = c2
  k1 = k1
  k2 = k2
  Calls <- MCCalls
  Keys <- MCOneKey
  Env <- MCEnv
  Peers <- MCPeers
  AllowVia = {}
  MaxAttempts = 1
  maxEntries = 1
  Transit = TRUE
  SettlementFinality = TRUE
  MaxCalls = 2
  MaxRestarts = 0
  Operator = TRUE
SPECIFICATION FairSpec
PROPERTY CutoffIsRetried
