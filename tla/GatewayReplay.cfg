CONSTANTS
  c1 = c1
  c2 = c2
  k1 = k1
  k2 = k2
  Calls <- MCCalls
  Keys <- MCKeys
  Env <- MCMessages
  Peers <- MCOnePeer
  AllowVia = {}
  MaxAttempts = 1
  maxEntries = 1
  Transit = FALSE
  SettlementFinality = TRUE
  MaxCalls = 3
  MaxRestarts = 0
  Operator = TRUE
SPECIFICATION Spec
INVARIANT ReplayLosesNothing
CHECK_DEADLOCK FALSE
