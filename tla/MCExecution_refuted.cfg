\* Properties that the code does not keep (README, section 6).  TLC shows the
\* counterexample of the one that is not a comment.
\* A property needs the inputs of its line.
SPECIFICATION Spec
CONSTANTS
  Columns <- MCColumns
  Expressions <- MCExpressions
  Inputs <- MCOuterInputs
  \* Inputs <- MCNullInputs          for HashJoinsAgree
  \* Inputs <- MCComputedInputs      for HashJoinsRun
  \* Inputs <- MCOrderInputs         for ComparatorLawful
  Throw = Throw
  Null = Null
CHECK_DEADLOCK FALSE
INVARIANT
  OuterRowsKept
  \* HashJoinsAgree
  \* HashJoinsRun
  \* ComparatorLawful
