SPECIFICATION Spec
CONSTANTS
  NumWorkers = 2
  Lefts <- MCLefts
  Rights <- MCRights
  Queries <- MCQueries
  Estimates = {1, 2}
  kBroadcastEligible = 1
  Hash <- MCHash
  Null = Null
CHECK_DEADLOCK FALSE
INVARIANTS
  TypeOK
  MatchesLocal
