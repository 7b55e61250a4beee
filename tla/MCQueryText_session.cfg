SPECIFICATION Spec
CONSTANTS
  Mantissa = 8
  SigDigits = 2
  Texts <- MCTexts
  Asks <- MCAsks
  PlanOf <- MCPlanOf
  Fragments <- MCFragments
  RowSets <- MCRowSets
  Prepared <- MCPrepared
  Calls <- MCCalls
INVARIANTS TypeOK ServedPlanIsForStatement WorkerReadsWhatWasSent
  CallsWholeOrNothing TreeFollowsPrecedence
CHECK_DEADLOCK FALSE
