SPECIFICATION FairSpec
CONSTANTS
  a = a
  b = b
  Tools <- OneTool
  Keys <- OneKey
  Callers = {c1, c2}
  Mutators = {m1}
  None = None
  MaxSeq = 3
  MaxChanges = 1
  MaxEpoch = 1
  MaxAudits = 0
INVARIANTS
  FlightsAreShared
PROPERTIES
  RefreshReturns
CHECK_DEADLOCK FALSE
