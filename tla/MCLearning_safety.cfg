SPECIFICATION Spec
CONSTANTS
  Mantissa = 100
  Coordinators = {p1, p2}
  CLIs = {r1}
  Contexts = {"orders:users"}
  Strategies <- MCStrategies
  Rewards <- MCRewards
  Runs <- MCRuns
  Text <- ModelText
  Loads <- ModelLoads
  MaxQueries = 3
  MaxCrashes = 1
  MaxShort = 1
  Cuts = {1, 4, 9}
SYMMETRY Symmetry
INVARIANTS TypeOK AverageIsMean ExploitsBestMean CalibrationFitsAll
CHECK_DEADLOCK FALSE
