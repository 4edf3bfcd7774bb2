SPECIFICATION Spec
CONSTANTS
  None = None
  Modes = {"centralized", "single"}
  Lines = {"text", "bashrc"}
  DropsOld = FALSE
  MaxEdits = 0
  MaxRuns = 2
  MaxFailures = 0
INVARIANTS
  NoLoop
CHECK_DEADLOCK FALSE
