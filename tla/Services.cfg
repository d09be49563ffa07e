CONSTANTS
  Callers = {c1, c2}
  Origins = {o1}
  Period = 2
  Burst = 2
  idleEvictAfter = 6
  MaxDelay = 1
  MaxClock = 7
  Files <- MCFiles
  StartFile <- strictFile
  PutConfigs <- MCPutConfigs
  Admins = {a1}
  MaxSaves = 2
  MaxRequests = 2
  MaxFailures = 1
  AppIDs = {"", "shop", "clinic"}
  PeerAddrs = {"", "ch:1", "us:1"}
  SchemaTypes = {"messaging", "hl7fhir", "custom:a", "custom:b"}
  CustomTypes = {"custom:a", "custom:b"}
  ListedRules <- MCListedRules
  MaxPeers = 2
  Streams = {s1, s2}
  HookApps = {h1}
  subBufSize = 1
  MaxEnvelopes = 2
  RegApps <- MCRegApps
  RegAllowTo = {"RU"}
  Requesters <- MCRequesters
  Queries <- MCQueries
  tokenTTL = 1
  MaxTokens = 2
  MaxConnects = 2
  LastTime = 2
  GossipNodes = {"a", "b", "c"}
  staticPeers <- MCStaticPeers
  bootstrap <- MCBootstrap
  steadyLinks <- MCSteadyLinks
  staleAge = 2
  Senders = {s1, s2}
  LinkAddrs = {l1, l2}
  Regions = {r1}
  Seqs = 3
  minutesPerDay = 5
  MaxDay = 2
  Rpcs = {c1, c2}
  Requests = {q1, q2}
SPECIFICATION ServicesSpec
INVARIANT ServicesTypeOK
INVARIANT RateIsKept
 
 
 
INVARIANT ToldOnce
INVARIANT ConnectsAsIssued
INVARIANT KnowsItsPeers
INVARIANT PoolOwnsConnections
INVARIANT NumbersCount
INVARIANT PromiseIsKept
PROPERTY RefusedOnlyAtTheLimit
PROPERTY FileWins
 
PROPERTY CleanStopDrains
PROPERTY StopsInTheEnd
CHECK_DEADLOCK FALSE
