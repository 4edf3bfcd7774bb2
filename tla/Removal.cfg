SPECIFICATION Spec
CONSTANTS
  r1 = r1
  r2 = r2
  Releases <- MCReleases
  None = None
  MaxSwaps = 3
  MaxInstalls = 1
SYMMETRY Symmetric
INVARIANTS
  NothingIsOverstated
PROPERTIES
  NoTreeLost
  ReceiptOutlives
CHECK_DEADLOCK FALSE
