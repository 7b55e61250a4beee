SPECIFICATION Spec
CONSTANTS
  Tables <- MCTables
  Inputs <- MCInputs
  Statements <- MCStatements
CHECK_DEADLOCK FALSE
INVARIANT EveryConjunctApplied
