CONSTANTS
  k1 = k1
  k2 = k2
  k3 = k3
  Keys <- MCKeys
  TTLs = {1, 3}
  numShards = 2
  shardFor <- MCShardFor
  MaxTime = 6
SPECIFICATION FairSpec
PROPERTY AnswersAsWindow
PROPERTY ExpiredRowsGo
