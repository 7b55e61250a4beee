\* Properties that the code does not keep (README, section 6).  TLC shows the
\* counterexample of the one that is not a comment.
SPECIFICATION Spec
\* SPECIFICATION FairSpec            for QueryAnswered
CONSTANTS
  CLIs = {c1, c2}
  \* CLIs = {c1}                     for QueryAnswered
  Webs = {}
  Queries = {q1}
  Unplannable = {}
  StatsFiles = {s1}
  Malformed = {}
  DataFiles = {d1, d2}
  MaxStarts = 1
  MaxEpoch = 1
  None = None
  Garbage = Garbage
INVARIANT
  FreshAfterAnalyze
  \* CacheTroubleNeverSurfaces
\* PROPERTY
  \* QueryAnswered
