SPECIFICATION FairSpec
CONSTANTS
  a = a
  b = b
  c = c
  Tools <- TwoTools
  Graphs <- Pair
  Catalog = {"checking", "missing", "misconfigured", "outdated"}
  Torn = FALSE
  Hosts <- MCHosts
  Covered <- MCCovered
  Others = {"other"}
  NoTool = NoTool
INVARIANTS
  TailIsOrderly
PROPERTIES
  RunEnds
CHECK_DEADLOCK FALSE
