\* Properties that the code does not keep (README, section 6).  TLC shows the
\* counterexample of the one that is not a comment.
\* A property needs the texts of its line.
SPECIFICATION Spec
CONSTANTS
  Mantissa = 8
  SigDigits = 2
  Texts <- MCFloatTexts
  Asks <- MCFloatAsks
  \* Texts <- MCTexts                for WholeTextRead
  \* Asks <- MCAsks
  \* Texts <- MCOddTexts             for ServedPlanIsForStatement
  \* Asks <- MCOddAsks
  PlanOf <- MCPlanOf
  Fragments <- MCFragments
  RowSets = {}
  \* RowSets <- MCOddRowSets         for WorkerReadsWhatWasSent
  Prepared <- MCPrepared
  Calls <- MCCalls
CHECK_DEADLOCK FALSE
INVARIANT
  CacheKeyDiffersForDifferentPredicate
  \* WholeTextRead
  \* ServedPlanIsForStatement
  \* WorkerReadsWhatWasSent
