\* Properties that the code does not keep (README, section 6).  TLC shows the
\* counterexample of the one that is not a comment.
SPECIFICATION Spec
CONSTANTS
  k1 = k1
  k2 = k2
  Keys = {k1}
  NumShards = 1
  ShardOf <- MCOneShard
  Savers = {"loop", "main"}
  Values = {a, b}
  TTLs = {0, 1}
  MaxTime = 0
  MaxRenames = 2
  MaxRestarts = 0
  None = None
  Changed = Changed
  Linked = Linked
  Torn = Torn
  Missing = Missing
  Corrupt = Corrupt
CHECK_DEADLOCK FALSE
INVARIANT
  FinalSnapshotSurvives
  \* EncodedAsStored
