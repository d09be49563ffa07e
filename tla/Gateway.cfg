CONSTANTS
  c1 = c1
  c2 = c2
  k1 = k1
  k2 = k2
  Calls <- MCCalls
  Keys <- MCKeys
  Env <- MCEnv
  Peers <- MCPeers
  AllowVia = {}
  MaxAttempts = 2
  maxEntries = 1
  Transit = TRUE
  SettlementFinality = TRUE
  MaxCalls = 2
  MaxRestarts = 1
  Operator = TRUE
SPECIFICATION Spec
SYMMETRY MCSymmetry
INVARIANT TypeOK
INVARIANT AcceptedIsAccountedFor
INVARIANT EvaluatedOncePerWindow
INVARIANT FinalAfterAck
