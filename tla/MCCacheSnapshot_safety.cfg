\* The commented values are a second instance, with a key in each shard and a
\* commanded save (README, section 4).
SPECIFICATION Spec
CONSTANTS
  k1 = k1
  k2 = k2
  Keys = {k2}
  \* Keys = {k1, k2}
  NumShards = 2
  ShardOf <- MCShardOf
  Savers = {"loop", "main"}
  \* Savers = {"client"}
  Values = {a}
  TTLs = {0}
  MaxTime = 1
  \* MaxTime = 0
  MaxRenames = 2
  \* MaxRenames = 1
  MaxRestarts = 1
  None = None
  Changed = Changed
  Linked = Linked
  Torn = Torn
  Missing = Missing
  Corrupt = Corrupt
CHECK_DEADLOCK FALSE
INVARIANTS
  TypeOK
  SnapshotNeverCorrupt
  StableKeysSaved
