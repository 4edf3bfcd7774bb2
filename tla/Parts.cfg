SPECIFICATION MCSpec
CONSTANTS
  None = None
  Unset = Unset
  claude = claude
  codex = codex
  Tools <- MCTools
  Hosts <- MCHosts
  Declared <- MCDeclared
  AllowBuild <- MCAllowBuild
  KindSets <- MCKindSets
  MaxCopies = 2
  Installable <- MCPackages
  MaxPackages = 3
  MaxArgs <- MCMaxArgs
  LineBounds <- MCLineBounds
  StartupFiles <- MCStartupFiles
  Versions = {1, 2}
  DaemonFailures = 2
  DaemonActions = 2
  DaemonOutside = 1
  Ban = "ban"
  Tweaks = {"t1", "t2"}
  Order <- MCOrder
  Helped = {"t1"}
  Guards = {"npm"}
  Undecodable <- MCUndecodable
  PolicyFailures = 3
  PolicyActions = 2
  ShimEdits = 1
  ShimRuns = 2
  Room = 2
  MaxWrites = 5
INVARIANTS
  NothingIsUnaccounted
  OwnerIsTrue
  GlobalsAreKept
  FailureRestores
  DaemonIsAsShown
  MoveIsTruthful
  ShimsWork
  ArgsAreFaithful
  ChildIsReaped
  CopiesAreSafe
  LinesAreJudged
PROPERTIES
  ClaimsAreOurs
  OthersAreRespected
  NoWriteIsLost
CHECK_DEADLOCK FALSE
