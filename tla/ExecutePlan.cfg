SPECIFICATION Spec
CONSTANTS
  a = a
  b = b
  c = c
  Tools <- MCTools
  Graphs <- MCGraphs
  Catalog = {"missing", "unavailable", "broken", "ok"}
  Torn = FALSE
  Hosts = {}
  Covered = {}
  Others = {}
  NoTool = NoTool
INVARIANTS
  NeedsAreMet
  RunIsAccountedFor
CHECK_DEADLOCK FALSE
