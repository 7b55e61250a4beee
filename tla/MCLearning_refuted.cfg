\* Properties that the code does not keep (README, section 6).  TLC shows the
\* counterexample of the one that is not a comment.
SPECIFICATION Spec
CONSTANTS
  Mantissa = 100
  Coordinators = {p1, p2}
  CLIs = {}
  Contexts = {"orders:users"}
  Strategies <- MCStrategies
  Rewards <- MCRewards
  Runs <- MCRuns
  Text <- ModelText
  Loads <- ModelLoads
  MaxQueries = 3
  MaxCrashes = 1
  MaxShort = 1
  Cuts = {1, 4, 9}
CHECK_DEADLOCK FALSE
PROPERTY
  LearningSurvives
