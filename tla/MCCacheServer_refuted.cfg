\* Properties that the code does not keep (README, section 6).  TLC shows the
\* counterexample of the one that is not a comment.
SPECIFICATION FairSpec
CONSTANTS
  Conns = {c1, c2}
  MaxCommands = 1
  None = None
CHECK_DEADLOCK FALSE
INVARIANT
  AckedWritesSaved
\* PROPERTY
  \* ShutdownCompletes
