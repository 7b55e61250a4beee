SPECIFICATION FairSpec
CONSTANTS
  Conns = {c1, c2}
  MaxCommands = 2
  None = None
CHECK_DEADLOCK FALSE
INVARIANTS
  TypeOK
  ServedWritesSaved
PROPERTY ForcedCloseEnds
