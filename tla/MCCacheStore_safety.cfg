SPECIFICATION Spec
CONSTANTS
  k1 = k1
  k2 = k2
  k3 = k3
  Keys = {k1, k2}
  NumShards = 1
  ShardOf <- MCOneShard
  MaxMemory = 3
  SizeOf <- MCSizeOf
  Blobs = {blob}
  IntMin <- MCIntMin
  IntMax <- MCIntMax
  Deltas <- MCDeltas
  SetTTLs = {0, 1}
  ExpireTTLs <- MCPastTTLs
  MaxTime = 1
  NoEntry = NoEntry
  Free = Free
  Nil = Nil
INVARIANTS
  TypeOK
  LRUTracksEntries
  AccountingExact
  BudgetRespected
PROPERTIES
  WriterSurvives
  ImplementsExpiringMap
