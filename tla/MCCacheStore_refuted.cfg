\* Properties that the code does not keep (README, section 6).  TLC shows the
\* counterexample of the one that is not a comment.
SPECIFICATION Spec
CONSTANTS
  k1 = k1
  k2 = k2
  k3 = k3
  Keys = {k1, k2}
  NumShards = 1
  ShardOf <- MCOneShard
  MaxMemory = 3
  SizeOf <- MCSizeOf
  Blobs = {}
  IntMin <- MCIntMin
  IntMax <- MCIntMax
  Deltas <- MCDeltas
  SetTTLs = {0, 1}
  ExpireTTLs <- MCExpireTTLs
  MaxTime = 2
  NoEntry = NoEntry
  Free = Free
  Nil = Nil
INVARIANT
  IncrementStored
  \* FootprintWithinBudget
  \* MinusOneMeansNoExpiry
