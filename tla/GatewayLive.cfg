CONSTANTS
  c1 = c1
  c2 = c2
  k1 = k1
  k2 = k2
  Calls <- MCCalls
  Keys <- MCKeys
  Env <- MCPair
  Peers <- MCOnePeer
  AllowVia = {}
  MaxAttempts = 2
  maxEntries = 2
  Transit = TRUE
  SettlementFinality = TRUE
  MaxCalls = 2
  MaxRestarts = 0
  Operator = FALSE
SPECIFICATION FairSpec
 
PROPERTY TransitIsTemporary
CHECK_DEADLOCK FALSE
