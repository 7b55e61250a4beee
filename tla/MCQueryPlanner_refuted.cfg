\* Properties that the code does not keep (README, section 6).  TLC shows the
\* counterexample of the one that is not a comment.
SPECIFICATION Spec
CONSTANTS
  Tables <- MCTables
  \* Tables <- MCTablesSmall         for LinkedQueriesPlanned
  Inputs <- MCInputs
  Statements <- MCStatements
CHECK_DEADLOCK FALSE
INVARIANT
  OuterJoinsNotSearched
  \* LinkedQueriesPlanned
  \* CheapestPlan
  \* StarReadsAllColumns
