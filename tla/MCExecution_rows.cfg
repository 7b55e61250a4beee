SPECIFICATION Spec
CONSTANTS
  Columns <- MCColumns
  Expressions <- MCExpressions
  Inputs <- MCInputs
  Throw = Throw
  Null = Null
CHECK_DEADLOCK FALSE
INVARIANTS
  TypeOK
  RowsAsPlanned
  ActualRows
PROPERTY
  QueryEnds
