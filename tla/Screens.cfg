SPECIFICATION FairSpec
CONSTANTS
  MaxMutations = 2
  MaxEscapes = 1
  KeysRace = FALSE
  Unknown = Unknown
  Tours <- SmallTours
INVARIANTS
  QuietMeansPublished
  RowIsCurrent
  ReportFollowsReinstall
PROPERTIES
  LockGuardsTheWork
  WaitIsAnswered
CHECK_DEADLOCK FALSE
