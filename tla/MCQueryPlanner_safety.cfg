SPECIFICATION Spec
CONSTANTS
  Tables <- MCTables
  Inputs <- MCInputs
  Statements <- MCStatements
CHECK_DEADLOCK FALSE
INVARIANTS
  TypeOK
  PlansWellFormed
  RefusedIffDisconnected
  CheapestOfThree
  CostModelAgrees
  TreeKeepsConjuncts
  SimpleKept
  ScansReadWhatIsUsed
