-------------------------------- MODULE Parts --------------------------------
(***************************************************************************)
(* The parts that share no state with another: a behaviour is a life of    *)
(* one tool's installation (Engine), of the cleanup daemon, of the         *)
(* policies that depend on the link mode, of the PATH shims, or one call   *)
(* of a command runner.  The others are asleep meanwhile.                  *)
(***************************************************************************)
EXTENDS Engine

CONSTANTS
  Versions, DaemonFailures, DaemonActions, DaemonOutside,             \* of Daemon
  Ban, Tweaks, Order, Helped, Guards, Undecodable,                    \* of Policies
  PolicyFailures, PolicyActions,
  ShimEdits, ShimRuns,                                                \* of Shims
  Room, MaxWrites                                                     \* of Runner

VARIABLES life,  \* whose life this is
          os, host, reach, at, todo, op, cache, reader, off, since,
          fails, acts, outside,
          files, step, applying, late, edits, runs,
          disk, saved, live, row, screen, calls, move, worker, deferred, raised, picks,
          call, proc

daemonVars == <<os, host, reach, at, todo, op, cache, reader, off, since,
                fails, acts, outside>>
policyVars == <<disk, saved, live, row, screen, calls, move, worker, deferred, raised, picks>>
shimVars   == <<files, step, applying, late, edits, runs>>
runnerVars == <<call, proc>>

D == INSTANCE Daemon WITH
       MaxFailures <- DaemonFailures, MaxActions <- DaemonActions, MaxOutside <- DaemonOutside

L == INSTANCE Policies WITH
       Shims <- Guards, MaxFailures <- PolicyFailures, MaxActions <- PolicyActions,
       pc <- screen, todo <- calls, fails <- raised, acts <- picks

S == INSTANCE Shims WITH run <- applying, MaxEdits <- ShimEdits, MaxRuns <- ShimRuns

R == INSTANCE Runner

\* None is no exception of Runner, no version of Daemon, no file and no place of Shims.
ASSUME NoneIsNothing ==
  /\ None \notin Versions
  /\ None \notin {"emit", "decode", "drain"}
  /\ None \notin [dir : {"bin", "away", "alias"}, name : S!Names]
  /\ None \notin [kind : {"foreign", "block", "redirect"}, old : BOOLEAN,
                to : SUBSET [dir : {"bin", "away", "alias"}, name : S!Names]]

\* The table of policies names each of them, and the ban is no tweak.
ASSUME TheTable ==
  /\ Ban \notin Tweaks /\ Helped \subseteq Tweaks /\ IsFiniteSet(Guards)
  /\ Order \in Seq({Ban} \cup Tweaks)

-----------------------------------------------------------------------------
EngineAsleep ==
  /\ tool = CHOOSE t \in Tools : TRUE
  /\ copy = <<>> /\ receipt = None /\ present = {} /\ registered = {} /\ excused = {}
  /\ pc = "idle" /\ job = NoJob

DaemonAsleep ==
  /\ os = "linux" /\ host = None /\ reach = TRUE /\ at = "idle" /\ todo = <<>>
  /\ op = None /\ cache = None /\ reader = None /\ off = None /\ since = {}
  /\ fails = 0 /\ acts = 0 /\ outside = 0

PoliciesAsleep ==
  /\ disk = None /\ saved = None /\ live = None /\ row = None /\ screen = "idle"
  /\ calls = <<>> /\ move = None /\ worker = None /\ deferred = None
  /\ raised = 0 /\ picks = 0

ShimsAsleep ==
  /\ files = None /\ step = "asleep" /\ applying = None /\ late = {} /\ edits = 0 /\ runs = 0

RunnerAsleep == call = None /\ proc = None

PartsInit ==
  /\ \/ life = "engine" /\ Init
     \/ life = "daemon" /\ D!Init
     \/ life = "policies" /\ L!Init
     \/ life = "shims" /\ S!Init
     \/ life = "runner" /\ R!RunnerInit
  /\ life # "engine" => EngineAsleep
  /\ life # "daemon" => DaemonAsleep
  /\ life # "policies" => PoliciesAsleep
  /\ life # "shims" => ShimsAsleep
  /\ life # "runner" => RunnerAsleep

Install == life = "engine" /\ Next /\ UNCHANGED <<life, daemonVars, policyVars, shimVars, runnerVars>>
Clean   == life = "daemon" /\ D!Next /\ UNCHANGED <<life, vars, policyVars, shimVars, runnerVars>>
Toggle  == life = "policies" /\ L!Next /\ UNCHANGED <<life, vars, daemonVars, shimVars, runnerVars>>
Shim    == life = "shims" /\ S!Next /\ UNCHANGED <<life, vars, daemonVars, policyVars, runnerVars>>
Run     == life = "runner" /\ R!RunnerNext /\ UNCHANGED <<life, vars, daemonVars, policyVars, shimVars>>

PartsNext == Install \/ Clean \/ Toggle \/ Shim \/ Run

partsVars == <<life, vars, daemonVars, policyVars, shimVars, runnerVars>>

PartsSpec == PartsInit /\ [][PartsNext]_partsVars

-----------------------------------------------------------------------------
\* What Daemon says of a change that raised, of every life of the daemon.
FailureRestores == life = "daemon" => D!FailureRestores
\* What Daemon says of a daemon that was turned off and of the memoised timer state, of
\* every life of the daemon.
DaemonIsAsShown == life = "daemon" => D!OffStaysOff /\ D!CacheIsCurrent
\* What Policies says of a move of the link mode, of every life of the policies.
MoveIsTruthful == life = "policies" => L!MoveIsTruthful
\* What Policies says of the decision on the daemon, of every life of the policies.
NoWriteIsLost == [][life = "policies" => L!WritesAreKept]_policyVars
\* What Shims says of the chains of execs and of a finished application, of every life of
\* the shims.
ShimsWork == life = "shims" => S!NoLoop /\ S!RedirectsAreLive
\* What Shims says of somebody else's files and Daemon of another cleanup job, of every life.
OthersAreRespected ==
  [][/\ life = "shims" => S!TheirsStay
     /\ life = "daemon" => D!RivalYields]_<<daemonVars, shimVars>>
\* What Runner says of the child of a call, of every call.
ChildIsReaped == life = "runner" => R!ChildIsReaped
=============================================================================
