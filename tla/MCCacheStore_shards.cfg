SPECIFICATION FairSpec
CONSTANTS
  k1 = k1
  k2 = k2
  k3 = k3
  Keys = {k1, k3}
  NumShards = 2
  ShardOf <- MCShardOf
  MaxMemory = 6
  SizeOf <- MCSizeOf
  Blobs = {}
  IntMin <- MCIntMin
  IntMax <- MCIntMin
  Deltas <- MCDeltas
  SetTTLs = {0}
  ExpireTTLs <- MCPastTTLs
  MaxTime = 1
  NoEntry = NoEntry
  Free = Free
  Nil = Nil
INVARIANT FlushAllClears
PROPERTY ExpiredReclaimed
