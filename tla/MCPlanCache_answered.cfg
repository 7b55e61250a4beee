SPECIFICATION FairSpec
CONSTANTS
  CLIs = {c1}
  Webs = {w1}
  Queries = {q1, q2}
  Unplannable = {q2}
  StatsFiles = {s1}
  Malformed = {}
  DataFiles = {d1}
  MaxStarts = 1
  MaxEpoch = 1
  None = None
  Garbage = Garbage
PROPERTY AnsweredUnlessHung
