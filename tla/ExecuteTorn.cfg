SPECIFICATION Spec
CONSTANTS
  a = a
  b = b
  c = c
  Tools <- MCTools
  Graphs <- MCGraphs
  Catalog = {"missing", "unavailable", "broken", "ok"}
  Torn = TRUE
  Hosts = {}
  Covered = {}
  Others = {}
  NoTool = NoTool
INVARIANT NeedsAreMet
CHECK_DEADLOCK FALSE
