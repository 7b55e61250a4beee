SPECIFICATION Spec
CONSTANTS
  CLIs = {c1, c2}
  Webs = {}
  Queries = {q1}
  Unplannable = {}
  StatsFiles = {s1, s2}
  Malformed = {s2}
  DataFiles = {d1, d2}
  MaxStarts = 1
  MaxEpoch = 1
  None = None
  Garbage = Garbage
INVARIANTS
  TypeOK
  PlanMatchesStats
SYMMETRY MCSymmetry
