SPECIFICATION FilesSpec
CONSTANTS
  None = None
  KeyOrder <- MCKeyOrder
  Nested <- MCNested
  Defaulted <- MCDefaulted
  MaxEdits = 2
  Modes = {"centralized", "single", "split"}
  Lines = {"mine", "unsure", "bashrc", "writer"}
  DropsOld = FALSE
  WiringEdits = 1
  WiringRuns = 2
  WiringFailures = 1
  Shadowing = FALSE
  ZshEdits = 1
  ZshRuns = 3
  ZshFaults = 1
INVARIANTS
  OnlyOursDiffers
  UsersValueStays
  ContentIsKept
  RefusedIsUndone
  OneRoute
  ClaimsAreTrue
PROPERTIES
  YoursStayAlways
CHECK_DEADLOCK FALSE
