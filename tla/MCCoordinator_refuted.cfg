\* Properties that the code does not keep (README, section 6).  TLC shows the
\* counterexample of the one that is not a comment.
\* A property needs the queries of its line.
SPECIFICATION Spec
\* SPECIFICATION FairSpec            for QueryCompletes
CONSTANTS
  NumWorkers = 2
  Lefts <- MCLefts
  Rights <- MCRights
  \* Rights <- MCFloats              for ShuffleMatchesLocal
  Queries <- MCMin
  \* Queries <- MCAvg                for AvgMatchesLocal
  \* Queries <- MCLess               for StrategyNeverFails
  \* Queries <- MCLoop               for ShuffleMatchesLocal
  Estimates = {1, 2}
  kBroadcastEligible = 1
  Hash <- MCHash
  Null = Null
CHECK_DEADLOCK FALSE
INVARIANT
  MinMatchesLocal
  \* AvgMatchesLocal
  \* StrategyNeverFails
  \* ShuffleMatchesLocal
\* PROPERTY
  \* QueryCompletes
