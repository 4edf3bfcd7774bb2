SPECIFICATION Spec
CONSTANTS
  a = a
  b = b
  Tools <- MCTools
  Keys <- MCKeys
  Callers = {c1, c2}
  Mutators = {m1}
  None = None
  MaxSeq = 2
  MaxChanges = 1
  MaxEpoch = 1
  MaxAudits = 1
SYMMETRY Symmetric
INVARIANTS
  NothingStaleIsShown
PROPERTIES
  NewestWins
CHECK_DEADLOCK FALSE
