CONSTANTS
  A = A
  B = B
  C = C
  d1 = d1
  c1 = c1
  c2 = c2
  Nodes <- MCNodes
  Peers <- MCPeers
  Apps <- MCApps
  WithUsers <- MCWithUsers
  AppIsolation <- MCAppIsolation
  AllowedApps <- MCAllowedApps
  AutoAccept <- MCAutoAccept
  TrustedNodes <- MCTrustedNodes
  Requests <- MCRequests
  Req <- MCReq
  Callers <- MCCallers
  Connects <- MCConnects
  MaxTokens = 1
SPECIFICATION Spec
INVARIANT StaleIsRejected
CHECK_DEADLOCK FALSE
