# Verification of tools-installer

TLA+ models of the parts of `installer/` whose correctness depends on order,
failure, concurrency or on files shared with the user; the TLC runs that check
them; and TLAPS proofs of the central ones. All source lines refer to `src/`.

## 1. The system

tools-installer is a terminal program (Textual screens over a catalog of command
line tools) that installs, updates and removes tools in the user's home, keeps
receipts of what it installed, edits shell and agent settings, and registers a
background cleanup job. One process per user; blocking work runs in worker
threads; state is in memory and in files.

| Component (files) | State it keeps | Operations | How it meets the others | Modules |
|---|---|---|---|---|
| Staged replacement (`download.py`, `apps.py`, `atomic.py`) | the live tree, its `.new` and `.old` siblings, the bin link | install, update, recover remnants, roll back | called by the engine and by updates; one run at a time per tool | `AtomicInstall`, `ArchiveSwap` |
| Version refresh (`version_status.py`, `version_cache.py`) | published states, epoch, sequence, pending ids, evidence, flights; the cache file | `refresh`, `invalidate`, `mark_pending`, `record_evidence`, `state_of` | every screen refreshes from its own worker; every mutation ends in `invalidate` | `Refresh` |
| Install plan (`deps.py`, `session.py`) | none (pure) | `resolve_dependencies`, `build_plan` | reads published states | `Plan` |
| Install run (`session.py`, `execute_screen.py`) | outcomes, unresolved tools, halted flag, cancel flag | `execute_plan`, hook sweep, run options | engine, update service, the user | `ExecutePlan` |
| Update service (`update.py`) | the one-update latch | `begin`, `run`, `end` | install run and catalog screens compete for it | `ExecutePlan`, `Engine`, `Globals` |
| Engine (`engine.py`, `executors.py`, `postinstall.py`) | none between calls | the ladder of methods of one tool, receipt, hooks | downloads, receipts, agents | `Engine` |
| Receipts and removal (`receipts.py`, `uninstall.py`) | one receipt per tool; quarantine siblings | record, adopt, drift, remove, retire | engine, refresh, uninstall | `Removal`, `Engine` |
| Agent settings (`agent_settings.py`) | settings files, a ledger per agent | apply, revert | policies, run options; the agents also write the files | `AgentSettings` |
| Policies (`policy.py`, `tweaks.py`, `guards.py`) | rc blocks, shims, the link mode | apply, remove, move link mode | screens, the daemon's worker | `Policies`, `Shims`, `ShimArgs` |
| Cleanup daemons (`daemon.py`, `systemd_daemon.py`) | unit files, registration, decision marker | apply, remove, reschedule, take over | launchd, systemd, a cached probe | `Daemon` |
| Oh-My-Zsh (`omz.py`, `post_install.py`, `terminal_shell.py`) | `.zshrc`'s plugins and theme, two records in `~/.myshellrc` | enable, disable, sync, theme, remove | policies, starship, the user's edits | `Omz` |
| Shell startup files (`app.py`, `shellrc.py`, `rcclean.py`) | `~/.shellrc`, `~/.myshellrc`, rc files, `.old` backups | configure, consolidate, guard, clean | the user's edits, policies | `RcFiles`, `SourceLines`, `RcLines` |
| pnpm globals (`pnpm_globals.py`) | the global set | capture, replay, repair | update service, Doctor | `Globals` |
| Ownership (`ownership.py`, `install_ownership.py`) | none (pure) | classify observed paths | refresh, updates | `Ownership` |
| Screens (`wizard_app.py`, `execute_screen.py`, `catalog_tui.py`) | the mutation lock, workers, waits, what is shown | keys, messages, workers | everything above | `Screens` |
| Process running (`run.py`) | a child and its pipe | stream, output, query | every command | `Runner` |
| Registry, setup, host setup, scripts | static data, text | | | not modelled |

The hard behaviours:

* **Crashes and failing calls in a multi-step file operation.** A replacement is
  about ten filesystem calls, each of which may raise, and the process may be
  killed at any of them (staged replacement, receipts, policies, daemons, startup
  files).
* **Interleavings of worker threads.** A pass reads the machine for seconds while
  other workers change it; what it saw must not be published as the present
  (refresh, screens, the daemon's probe cache).
* **Failures along dependency chains, cancel and crash of a run** (install run).
* **Files shared with other programs and with the user**: a file is read,
  decided on and written in separate steps (agent settings, removal, startup
  files, `.zshrc`, shims).
* **Judging without seeing**: whose copy of a tool runs, what a shell line does,
  what a command's arguments mean is read off indirect evidence (ownership,
  engine, `SourceLines`, `RcLines`, the shims' wrappers).

What makes each part correct: no call or kill loses the last good tree and the
outcome printed is the truth (replacement); nobody is shown a state older than
the last change, passes are shared and always return (refresh); nothing runs
without what it requires, exit code 0 is honest (plan and run); one update at a
time (update service); a receipt claims only our own copies, and every
registration is recorded (engine); only what was proven and shown is deleted, and
the receipt goes last (removal); what the installer did not write stays, and what
it wrote can be taken back (agent settings, startup files, Oh-My-Zsh, shims); a
policy is not silently lost when it moves (policies); a failed change leaves the
scheduler as it was (daemons); the lock names the thread that holds it (screens);
no child is left unread (process running).

## 2. Modules

One module per component, with its state as variables and one action per call or
step that can be interleaved, fail or be the last. `MC...` modules give constants
their values and compose parts that share no state into one run. `...Proofs`
modules hold the TLAPS proofs of the module they are named after.

| Module | What it is |
|---|---|
| `AtomicInstall` | abstract: what the user of an installation is promised |
| `ArchiveSwap` | the staged replacement, call by call; implements `AtomicInstall` |
| `Refresh` | `VersionRefreshService` and the workers around it |
| `Plan` | `resolve_dependencies` and `build_plan` as operators |
| `ExecutePlan` | `execute_plan` over a plan of `Plan`, the update latch, the cancel flag |
| `Engine` | `install_tool` and `perform_update`: the ladder, the receipt, the hooks |
| `Removal` | receipts and `remove_tool`: install, record, adopt, prove, quarantine, delete |
| `AgentSettings` | `apply_setting`, `revert_setting` and the ledger |
| `Policies` | toggles, `move_link_mode` and the picker, beside the daemon's worker |
| `Daemon` | apply, remove and reschedule of a LaunchAgent or a systemd timer |
| `Omz` | the plugins array, the theme and their two records |
| `RcFiles` | `configure_path`, consolidation, guard and cleanup over four files |
| `Shims` | the guard's PATH shims |
| `ShimArgs` | the argument loops of two of the shims, token by token, against npm and npx |
| `Screens` | the wizard's event loop and its workers |
| `Runner` | one call of a command runner, its child and the pipe |
| `Ownership` | `resolve_ownership` as a function of a small machine |
| `Globals` | pnpm's groups, and what an update of pnpm does to them |
| `SourceLines` | which lines source `~/.myshellrc`: the classifier and a shell, word by word |
| `RcLines` | which lines write PATH: the scanner against a shell |
| `Questions` | every machine, set of globals, argument list, line and startup file there is to ask about, and the answer |
| `MCArchiveSwap`, `MCRefresh`, `MCExecutePlan`, `MCRemoval`, `MCScreens`, `MCPolicies` | instances of one module for TLC |
| `UserFiles` | `AgentSettings`, `RcFiles` or `Omz`: three ways to share a file with the user |
| `MCUserFiles` | `UserFiles` for TLC |
| `Parts` | `Engine`, `Daemon`, `Policies`, `Shims` or `Runner`: a behaviour is a life of one of them |
| `MCParts` | `Parts` and `Questions` for TLC |
| `ArchiveSwapProofs`, `RefreshProofs`, `RemovalProofs`, `ExecutePlanProofs`, `ScreensProofs`, `PartsProofs`, `QuestionsProofs`, `UserFilesProofs` | proofs |

### ArchiveSwap

One behaviour is the life of one tool's files over any number of runs. `live`,
`new`, `old` are the trees at the three sibling paths, `link` the bin symlink. A
tree is abstracted to the release it came from, whether it is complete, and
whether it holds the file the link names. `pc` names the next filesystem call;
each call is an action, with a `...Fails` twin where the code can get an
exception (`Aside`/`AsideFails` is `os.replace(opt, old)`, and so on). `Crash`
stops the run at any call; a removal under way may have taken a part of its tree
(`Leftover`). `kind` picks the flow: archive (recovery after the fetch), app and
bundle (recovery before it, `.new` made by one rename), raw (one `os.replace`).
`captured`, `link`, `before` tell what the undo has to put back. `settled` and
`exposed` are history: an installation was once completed; a `.old` outlived the
run that made it.

What a run asks before it begins is `MayBegin`. An install over a tree asks
`is_still_proven`, which looks at the link and not at who made it. An update
asks only whether the tool is installed (`IsInstalled`): `resolve_ownership`
takes whatever is at the installer's paths for the installer's when no manager
lists the tool. So a tree of the user's own (`Foreign`) may be there from the
start, with any link, and both checks may accept it; `ForeignTreeKept` says what
is true of it all the same.

Two simplifications: the undo's last two lines (`rmtree(new, ignore_errors)` and
`rmtree(old)` if it is still there) are one action with the link restore, because
nothing reads the trees between; and the release a fetch yields is the one asked
for (a checksum or curl failure is `FetchFails`).

### Refresh

Everything done under `_lock` is one action. Everything a pass does outside it is
a step of its own: copying the evidence, loading the manager snapshot, querying
the managers, probing one tool, publishing. `world` counts the changes made to
the machine, and an observation is the count it was made at, so "stale" is
visible as a number that is not `world`. `Change` and `Invalidate` are the two
ends of every mutation worker (install run, update, removal, pnpm reinstall): a
*window* is open between them, and the properties hold outside windows, which is
all the code can promise. `Invalidate` may fail to write the cache, `Publish` may
fail to save it. Whether a stored snapshot is fresh is a matter of time and so a
choice. `_managers_invalid` and the cache file are read in one action, although
the code reads them one after the other: an `invalidate` between the two reads
changes the epoch, and then the whole pass is discarded.

### Plan and ExecutePlan

`Plan` computes the disposition of every row from the selection, the `requires`
relation, the published healths and the methods that apply; recursion over the
acyclic relation is by recursive functions. What `_row` decides from ownership,
configuration steps and the reinstall toggle is a choice among the dispositions
it can answer (`RowFor`). Rows are worked in *some* dependency-first order, a
superset of the orders `topo` can produce.

`ExecutePlan` then runs the rows: each disposition's branch of `execute_plan` is
an action or a pair of actions (start, end), `RowCrashes` is its `except`
clause, `LastRow`, `Sweep`, `WriteSettings` and `End` are what follows the loop.
`works` is the machine: the tools that are there and work. The engine's answer
is any status it can give in that state (`EngineAnswers`); a failed repair,
reinstall or update may lose what was there. `OtherBegins`/`OtherEnds` are the
catalog screens' update worker; `Cancel` is `c` on the execute screen.

Assumed: no `requires` cycle (`Acyclic`: the registry has none, and `topo` raises
for one it meets); an answer of the
engine's "already installed" is true; a second attempt after a mismatch does not
end in a hand-off; the published state is true when the plan is made (that is
`Refresh`'s property), except in `ExecuteTorn`.

### Removal

One tool, its artifacts and its receipt. A tool has at most one artifact of each
type, so a type stands for its path; `disk` gives what is there: a release's
bytes, or bytes of somebody else, of which `sly` are those with the recorded
size and time (a check without a re-hash believes them) and `part` what a failed
delete left. `receipt.what` is the recorded fingerprint of each artifact. `pc`
walks through `remove_tool`: the plan that is shown, the confirm with the plan
made again (`Confirm`, `Changed`), the undo of the tool's hook and its record,
the manager's listing and command, the proof, then each artifact in turn. A
directory is moved into a quarantine sibling (`held`), verified there, and
deleted or put back; what a kill or a taken path leaves in a sibling is in
`strays`. Around it, each by its own steps: the installer (`Place`, `Record`,
the hook), a refresh pass (adopt a raw file, retire a receipt), and `Swap`,
anybody else writing to the same paths or using the package manager.

Assumed: the installer and a removal of the same program do not run at once.
Not modelled: a vendor's own `remove` command (no method declares one), pnpm
groups, the deletion of configuration and what follows a successful removal.

### AgentSettings

One agent's settings file, the keys of its settings, and its ledger. The text
splices are abstracted to their effect on the keys: a key is absent, ours, the
CLI's default or something else; nested keys share a parent object; everything
else in the file, comments included, is one flag. `Applied`, `KeptEntries` and
`Reverted` are what `_apply_pass`, `_kept_entries` and `_revert_pass` leave: each
loops over the keys, but a key's fate depends on no other key, except for the
parent, which the first nested key of a setting creates (`FirstNested`) and the
last to go takes along. So they are sets and functions of keys, and the ledger is
a function from the keys it records.

A run is a read, then for an apply: reserve in the ledger, compare, replace; for
a revert: compare, replace (or delete), record. A changed file rolls the
reservation back and is tried once more. Every step may fail or be the last
(`Kill`), and `Edit` is anybody changing the file at any time. `base` is history:
the file as it would be had the installer never run. All that is promised is a
relation between `file`, `base` and the ledger. Two exceptions are in the
statements. An edit in the window between comparison and rename is lost with
the rename, which the code accepts, so `Replace` gives it up in `base` too. And
a key the user sets to our value while the ledger records it is, for the ledger,
ours: those keys are in `lookalike`, also when the record is only a reservation
that a kill left behind.

### Engine

One tool over any number of installs, updates, hook resyncs and kills. `copy` is
what the code cannot see: per kind of method, whose copy is on the machine
("user" or "ours"). `receipt` is the record a removal will trust, with its claim
and the agents the tool's hook was registered with; `registered` is the truth
about the latter. `Look` is the listing made before a rung runs, once per ladder,
and unreadable for any subset of managers; `Perform`, `NodeCheckFails`,
`SmokeFails` and `Fails` are the rung and its ends; `Record` and `RecordHooks`
write the receipt, each with a failing twin and a `Kill` between. The user
installs and removes by hand between two jobs only: the code lists once per
ladder (`engine.py:218`) and accepts what happens inside.

Abstracted: the executor of each method (a rung works, fails, or leaves a package
behind), drift refusal, post-install actions (they change no receipt).

### Policies

The ban and the tweaks as the set of places each has on disk, and the calls of
their `apply` and `remove` in the code's order, each of which may raise and is
atomic on its file. `move_link_mode` takes the policies out (`remove`), saves the
mode, puts them in (`apply`), and on an error walks back (`save old`, `restore`,
`undo`, `redo`). What is still to be moved is a set, and `First` gives the next one
in the table's order, which is the order of the code's tuple. `worker` is the launch thread that turns the daemon on by
default and rewrites `~/.myshellrc` in two steps, read and write, beside the
picker; the picker defers to it (`PickDeferred`). `Undecodable` names the rc
files with a byte that is not UTF-8: reading them raises an exception outside of
`expected` (`CallEscapes`), and the worker stops at its read (`WorkerFails`).

### Daemon

One LaunchAgent or systemd timer: the files, what the manager has loaded, the
enablement link, the timer's run state, the wrapper, the log, the decision marker
and a rival unit. An operation is a list of *groups* of calls; a call that raises
either starts a recovery or is suppressed, as the code's `try` blocks say; when the
calls are through, an action of its own goes on with the change (`Written`,
`Rescheduled`, `Unregistered`, `Deleted`). The
manager may be out of reach, the process killed between two calls, the user stop
the timer, log in again or save `~/.myshellrc` in another encoding (`Reencode`), and a reader thread memoises a probe that began before
a change and ends after it (`ReadBegins`, `Probe`, `Store`). The last step of an
apply or a remove is the decision marker in `~/.myshellrc`: an `OSError` there is
tried again and then a warning (`RecordRaises`), and a file that is not UTF-8
raises out of the change past every handler (`RecordEscapes`, the end `"escaped"`).
`FailureRestores` says of each ending what is left: after an error the code answers,
files and registration as they were; after the one it does not, the whole of the
change, and never half of one.

### RcFiles, Omz

Both model files the user edits at any time. A content is a set of the user's
lines, named for what they do, and the installer's marked blocks. `RcFiles` is
`configure_path` call by call: the snapshot, the vetting and the weighing of each
line, the merge, the exclusive creation of the backup (`Create`, `Fill`: a kill
between them leaves an empty one), the comparison, the stub, the source lines
and the inline block, then the guard and the cleanup of PATH lines. `moved` is
history: the user's lines a stub has taken the place of; a user who writes the
very file that was backed up has them back. A run's `block` and `backup` are
history too, what its snapshot found of the two: `RefusedIsUndone` compares both
with what a refusal leaves. Texts are compared and written in separate steps;
edits fall anywhere.

`Omz` is the same for `.zshrc`'s `plugins=(...)` and `ZSH_THEME`: a claim is
reserved in `~/.myshellrc` before the edit, rolled back when the edit raises,
cleared last on removal. `ours`, `looks` and `drawn` are history: who really wrote
each name and the theme.

Two cases in which the code itself gives way are CONSTANTs that the passing run
sets to FALSE: `DropsOld` (the user removes the backup a refusal tells them to
remove) and `Shadowing` (a multi-line array in a `.zshrc` that sources no
framework); both are described under "Where the code and its documentation
disagree".

### Shims

The managed directory, one other directory, and PATH as one of four orders, one
of which spells the managed directory through a symlink. `Check`, `Resolve`,
`Write` and `Unlink` are steps of their own over the names that are guarded; the
user installs and removes real tools in between. `NoLoop` follows chains of
`exec` through any number of shims. `ShimArgs` is the two scripts that look at
their arguments: one action per turn of a loop of the npm wrapper (`ReadsToken`,
`Decides`, `KeepsToken`, `RunsVolta`) and of the npx redirect (`DropsYes` ..
`RunsPnpm`), with `"$@"` as the queue the scripts make of it. npm's and npx's own
readings of the same arguments are external, and stated as conditions on the
positions that are values (`ValuesUpTo`, `NpxReadings`).

### Screens

The event loop handles one key or message at a time; each worker is idle, running
(its thread), or posted (its message is queued). `holder` is `_mutation_holder`,
`pass` the refresh worker with its pending request, `reads` and `audits` the reads
in flight with the generation they were begun for, `ex` the execute screen with
its wait token, `waiters` and `settled` the tokens and the messages that answer
them. `Refresh` is seen from outside: `invalidate` makes every published state
read as still being checked. `KeysRace = TRUE` lets a key be handled between two
hops of a bubbling message, which Textual does; two of the divergences below are
about that, and the passing run has it FALSE.

### Runner

A parent, a child, an *heir* (a background process that inherits the pipe) and
the pipe with room for `Room` pieces. The child writes, blocks on a full pipe,
forks, exits; the parent streams, captures, decodes, times out, drains and reaps
in the order of `run.py`'s `try`/`except`/`finally`. "Blocked" is a wait for a
child that waits for a reader.

### Ownership, Globals, SourceLines, RcLines

Pure algorithms, each next to the truth it is about, which the code cannot see.
`Ownership`: a machine with, for each place a copy can be, who brought it; the
answer of `ResolveOwnership` is computed from places, listings and PATH only.
`Globals`: the groups pnpm holds, what is listed, captured, lost and replayed.
`SourceLines`: a line grows by a word, or goes on to the next physical line, while
`shellrc.py`'s classifier and a shell read it side by side; then it is judged.
`RcLines`: a file of PATH assignments in blocks, as
`rcclean.py`'s scanner reads it and as a shell does (`Sourced`, over every truth of
the tests whose outcome is not known).
`Questions` asks them, and `ShimArgs`: a behaviour is a machine (macOS, Linux with
or without Homebrew, immutable or not), a set of globals with an update over it, an
argument list, a line or a startup file, then the answer. What may be asked is
bounded by its CONSTANTS alone. The exceptions are named operators
(`Missed`, `EmptiesBlock`, `MoreGoes`, `PutsBack`, `Stale`, `ElseOfTest`,
`Replaces`), each a case in which the code's answer really differs from the shell's;
`OursIsOurs` says that nobody edited between our own markers, which the scan skips.

## 3. Runs

| Run | Question | Instance | States |
|---|---|---|---|
| `ArchiveSwap` | Is the last good tree ever lost, are outcomes true, is the replacement atomic? `LastGoodSurvives`, `ReportsAreTrue`, `Refines` | two releases with different binary paths, all four kinds, a tree of the user's own with or without a link into it, unbounded number of runs | 33,308 |
| `Refresh` | Is anything stale ever shown, does the newest pass win? `NothingStaleIsShown`, `NewestWins` | 2 tools, keys {a} and {a,b}, 2 callers, 1 mutator, 2 passes, 1 change, 1 epoch change, 1 audit | 1.3 M |
| `RefreshJoin` | Are passes shared, and does every refresh return? `FlightsAreShared`, `RefreshReturns` | 1 key, 2 callers, 3 passes, fairness | 96,468 |
| `ExecutePlan` | Does anything run without what it needs? Is exit code 0 honest? `NeedsAreMet`, `RunIsAccountedFor` | 3 tools in a chain, fork and join; every health, selection and engine answer | 1.0 M |
| `ExecuteTail` | Updates, crashes and cancels: the latch, the sweep, the settings, the end. `TailIsOrderly`, `RunEnds` | 2 tools, one screen updating, fairness | 20,670 |
| `ExecuteTorn` | `NeedsAreMet` when a pass has just re-read the platform | as `ExecutePlan`, `Torn = TRUE` | violated |
| `Removal` | Is only what was proven deleted, and is no proof lost before what it proves? `NothingIsOverstated`, `NoTreeLost`, `ReceiptOutlives` | one tool of each kind, current or retired; two releases (symmetric), 3 swaps, 1 installer run | 913,055 |
| `UserFiles` | Does the user keep what is theirs, and can what is ours be taken back? `OnlyOursDiffers`, `UsersValueStays`, `ContentIsKept`, `RefusedIsUndone`, `OneRoute`, `ClaimsAreTrue`, `YoursStayAlways` | cursor-agent's two settings with 2 edits; startup files with 1 edit, 2 runs, 1 failure, three link modes; `.zshrc` with 1 edit, 3 runs, 1 failure | 2.8 M |
| `RcLoop` | Does a successful run leave the startup files without a loop, `shellrc.py:789`? `NoLoop` | two modes, 2 runs, no edits | violated |
| `Screens` | Do lock, passes, rows and waits fit together? `QuietMeansPublished`, `RowIsCurrent`, `ReportFollowsReinstall`, `LockGuardsTheWork`, `WaitIsAnswered` | 2 mutations of every kind, 1 cancelled wait, three tours of the views, fairness | 0.8 M |
| `Parts` | What `Engine`, `Daemon`, `Policies`, `Shims`, `ShimArgs`, `Runner`, `Ownership`, `Globals`, `SourceLines` and `RcLines` promise: `NothingIsUnaccounted`, `ClaimsAreOurs`, `OwnerIsTrue`, `GlobalsAreKept`, `FailureRestores`, `DaemonIsAsShown`, `MoveIsTruthful`, `NoWriteIsLost`, `ShimsWork`, `OthersAreRespected`, `ArgsAreFaithful`, `ChildIsReaped`, `CopiesAreSafe`, `LinesAreJudged` | see below | 3.6 M |
| `PoliciesGone` | Is a policy that a move lost always named, `policy.py:266`? `NeverSilentlyGone` | a `.zshrc` that is not UTF-8, no other failure, 1 action | violated |

Why the bounds are enough. `ArchiveSwap` needs no bound: the states are finite
and runs follow each other for ever; a third release would add nothing the code
distinguishes (it compares the running release with what is there). In `Refresh`
a stale answer needs one pass that began before a change and one that began
after, which two passes, one change and one epoch change give, and a partial
cover needs two overlapping keys; the third pass of `RefreshJoin` is for a pass
that outlives its epoch while its key is registered again and joined. Three
tools are what it takes for a failure to travel over a link that did not run
(chain), for one dependency to be asked for by two rows (fork) and for two
dependencies of one row (join). In `Removal` one swap goes before the proof, one
between proof and capture, and one takes the path back while the tree is in the
quarantine; every longer sequence is one of these with changes nobody looked at.
The releases are interchangeable, as the code only compares them, which makes
the symmetry sound.

In `UserFiles` one edit changes a file under a run and the second undoes or
follows it (settings); startup files and `.zshrc` have one edit, because the
second run already meets a file the first one and the user both changed; three
operations on `.zshrc` are enable, disable and one more, so that a claim outlives
the edit it was made for. (With `DropsOld` and three edits `ContentIsKept` is
violated by the first of the startup-file cases described below.) In `Screens` two mutations are
the one that ended and the one begun while its pass runs; the tours pair the
catalog, where every mutation starts, with each other view that reads the machine.

In `Parts`: the engine has no bound but its two agents, over the ladders of the
registry that have the most kinds; the daemon takes two actions (a change, and one
over what it left), two failures (a call, and one of its recovery), two schedules
and one event from outside; the policies a ban and two tweaks, two actions, three
failures (a remove or apply, the walk back, and the row behind it); the shims two
operations and one installation or removal by the user, from any tools of theirs;
the runner a pipe of two and five pieces, so that a child blocks, is drained and
blocks again; ownership every set of kinds the registry declares on every platform,
at most two copies; globals at most three packages (a group of two and a stranger,
or a group of three); up to four arguments of npm and five of npx; lines of up to
four words, of three on two physical lines, and of six of the words that may stand
before what is sourced; files of one PATH line with what may stand around it in at
most two blocks, behind assignments of the variable, a line that replaces PATH or a
block of ours. (All of these bounds are on the runs only: the proofs below have
none.)

`CHECK_DEADLOCK FALSE` is set where the model ends: a run that ended, a bounded
number of passes, swaps or edits, a question that was answered, or a tool that is
gone. `ArchiveSwap` is checked for deadlock.

Fairness. `RefreshJoin`: weak fairness of each pass's own steps, since a pass
runs on its own worker thread and every query it makes has a timeout or an
answer; nothing is assumed of callers, mutators or audits. `ExecuteTail`: weak
fairness of the run's own worker (`Work`); none of crashes, of the screens, or
of the user, so `RunEnds` allows a run that waits for ever at a question.
`Screens`: weak fairness of the pass and of the handlers of its message and of
the install run's, which the event loop delivers in turn; none of keys, of the
other workers, or of the mutations.

### Where the code and its documentation disagree

Three are runs that expect a violation:

1. `ExecuteTorn`: `build_plan` combines published states with the live platform,
   which a pass replaces when it *starts*. A tool published "unavailable" for
   which a method applies by then becomes a SKIP row, and its dependents run
   without it.
2. `PoliciesGone`: `move_link_mode` catches the errors it expects, and
   `UnicodeDecodeError` is not among them: a `.zshrc` that is not UTF-8 raises out
   of the move after policies were taken out, and nothing names them
   (`policy.py:266`).
3. `RcLoop`: `consolidation_refusal` looks for a loop only in the rc files of the
   run's own mode. A centralized run wires `.bashrc`; a later run in single mode
   looks at `.zshrc` alone, copies a line that sources `.bashrc`, and reports
   success over a loop (`shellrc.py:789`).

These were met while modelling and are exceptions written into the models (or
cases the bounds leave out), each with its place:

* Replacement. The error "prior installation is at `.old`" is printed also when
  `.old` was already moved back (`download.py:545`). A half-failed `rmtree(.old)`
  leaves a part of it, which the next run's recovery puts in place of a good tree
  (`download.py:555`, `atomic.py:153`). An install refuses a tree whose link "is
  not proven to be from this installer" (`download.py:390`), but a user's own link
  into a tree of their own passes the proof. An update asks for no proof at all: an
  application the user put into `~/Applications`, or a command that is a file of
  theirs in the managed directory, is owned by the installer by its place alone
  (`ownership.py:1094`, `774`) and replaced.
* Install run. Cancel during the hook sweep still lets the settings be written
  (`session.py:808`).
* Policies. A remove that fails midway is reported "left as it was" though earlier
  files changed (`policy.py:286`); a kill between remove and apply loses the
  policy silently.
* Cleanup daemons. A failed record of the decision is a warning only
  (`policy.py:1146`, `1269`, `1296`, `1617`, `1688` catch `OSError`), but
  `record_decided` decodes all of `~/.myshellrc` (`daemon.py:392`,
  `systemd_daemon.py:934`), and the `UnicodeDecodeError` of a file that is not UTF-8
  is none: apply raises with the job registered, remove with it deleted, and nothing
  is put back. A daemon turned off this way is off but undecided, so that a launch
  after the file is UTF-8 again applies the default (`OffStaysOff` is about a change
  that returned).
* Startup files. After a consolidation a new `~/.shellrc` appears; the refusal
  tells the user to move the backup away "if you want consolidation to proceed"
  (`shellrc.py:955`), and the next run then replaces the consolidated block: the
  first content is in no file. A kill between creating and writing the backup
  leaves a partial `.old` that refuses every later run (`shellrc.py:966`). A
  restore writes over edits of `~/.myshellrc` made meanwhile; an edit between the
  comparison and the stub is lost. A user's own `~/.myshellrc` that sources
  `~/.shellrc`, which sources `~/.bashrc`, is looped by the wiring after a refusal.
  Moving the backup back and consolidating again loses edits made inside the
  block. An unreadable stub gives the rc file both routes.
* Oh-My-Zsh. In a `.zshrc` without a source command, a multi-line `plugins` array
  is shadowed by an appended `plugins=(git)` (`post_install.py:169`). A kill or a
  failed restore strands the theme claim, so starship can no longer replace the
  default. `git`, added by the template, is never recorded. A claim a kill left too
  broad removes a name the user adds later.
* Shims. An empty word does not count as the subcommand: `npm "" install -g pkg`
  runs `volta install install pkg` (`guards.py:293`), where npm is given an empty command;
  the managed directory is compared as a string (`guard_path_warning`); a file
  that arrives between check and write is overwritten (`late` in the model);
  nothing is said of an un-redirected pnpm when npm in the managed directory is
  somebody else's.
* Process running. A second piece that is not UTF-8, met while draining, raises
  out of the `finally` block before the wait, against "Drain then reap"
  (`run.py:357`): `DrainEscapes`. A background process that inherits stdout keeps
  a streamed row running until it ends.
* Screens (`KeysRace`, quit). Enter between two hops of a bubbling message leaves
  the rows "…" or raises in `begin_mutation` (`wizard_app.py:3725`, `3152`); an
  update that fails while the app quits exits 0 (`wizard_app.py:3228`); a removal
  begun after quit was asked is not waited for; `r` on Doctor may act on a report
  from before a removal (`wizard_app.py:838`).
* Ownership. Direct evidence is given although a listing was unreadable
  (`ownership.py:707`); a file of the user's under an owner's prefix is
  attributed to it (`Strayed`); a script method without `bin_dir` leaves a copy
  nothing can trace.
* Engine. An unreadable listing ends in a success without a receipt and without a
  warning. A checksum mismatch and a hand-off drop earlier errors and leftovers
  (`engine.py:269`, `296`), which no ladder of the registry reaches. A receipt goes
  on claiming a package the user removed and installed again by hand. A corrupt
  receipt loses its hooks when it is written again.
* Globals. A pnpm update that fails after losing the globals is not replayed;
  `puppeteer` alone is replayed without its pin; a group of three whose first
  member is gone is not repaired.
* `SourceLines`. A comment that ends in a backslash hides the next line
  (`shellrc.py:603`); `>|` at the head of a command; a redirection before an option
  of `command`; an `eval` behind a continued line.
* `RcLines`. Stripping the only line of a block empties its branch
  (`rcclean.py:511`); a line that adds a managed and another directory goes whole;
  a variable assigned to something unknown keeps its old value; the `else` of a
  PATH test counts as guarded; a line that sets PATH to the managed directory
  alone, or puts it back after another line replaced PATH, goes as a duplicate, and
  PATH is then a different one (`PutsBack`, `Replaces`).

## 4. Proofs

`tlapm` checks everything below for every value of the constants; nothing is
assumed but the named assumptions of the modules (TLC evaluates them too) and
what a few theorems of `ExecutePlan`, `Screens`, `Policies` and `UserFiles` state as hypotheses;
the last column has both.

| Module | Theorem | States | Assumes |
|---|---|---|---|
| `ArchiveSwapProofs` | `TypeCorrect`, `LastGoodSurvivesAlways`, `OutcomesAreTrue`, `ForeignTreeSafe`, `ImplementsAtomicInstall` | types, `LastGoodSurvives`, `ReportsAreTrue`, `ForeignTreeKept`, `Spec => Abstract!AbsSpec` | names distinct, `MemberOf` a function |
| `RefreshProofs` | `NothingStaleEver`, `FlightsAlwaysShared`, `NewestAlwaysWins` | the three safety properties of `Refresh` and `RefreshJoin` | keys are sets of tools, `None` is no record, bounds are numbers |
| `RemovalProofs` | `NothingEverOverstated`, `NoTreeEverLost`, `ReceiptAlwaysOutlives` | the three properties of `Removal` | releases are distinct from the markers of other bytes, `None` is no receipt |
| `ExecutePlanProofs` | `TailAlwaysOrderly`, `NeedsAlwaysMet`, `RunAlwaysAccounted` (and `ExitZeroAlwaysTrue`) | `TailIsOrderly`, `NeedsAreMet`, `RunIsAccountedFor` | `NoTool` is no tool, the other updaters are not named "none" or "run", `requires` has no cycle; `Torn = FALSE` for the second and third, and no tool still being checked for the third (a plan with one is refused) |
| `ScreensProofs` | `LockAlwaysGuards`, `ReportAlwaysFollows`, `RowAlwaysCurrent`, `QuietAlwaysPublished` | `LockGuardsTheWork`, `ReportFollowsReinstall`, `RowIsCurrent`, whether or not keys race the hops of a message; `QuietMeansPublished` | bounds are numbers, `Unknown` is no answer; `KeysRace = FALSE` for the last |
| `PartsProofs` | `ChildIsAlwaysReaped`, `ShimsAlwaysWork`, `DaemonAlwaysAsShown`, `OthersAlwaysRespected`, `FailureAlwaysRestores`, `NoWriteIsEverLost`, `MoveIsAlwaysTruthful` | `ChildIsReaped`, `ShimsWork`, `DaemonIsAsShown`, `OthersAreRespected`, `FailureRestores`, `NoWriteIsLost`, `MoveIsTruthful`: any pipe and output, any number of failures, changes and applications, any table of policies and shims | `None` is no value of the parts (`NoneIsNothing`), the table names policies (`TheTable`); for the last, that `~/.myshellrc` is among the files that cannot be decoded if one is |
| `PartsProofs` | `ClaimsAlwaysOurs`, `NothingGoesUnaccounted` of the engine; `ClaimsOursInEveryLife`, `NothingUnaccountedInEveryLife` | `ClaimsAreOurs`, `NothingIsUnaccounted`, alone and in every life of `Parts` | ladders are sequences of kinds, in which downloads come before anything else that installs (`DownloadsComeFirst`, true of the registry); `None` is no record and no set |
| `QuestionsProofs` | `OwnerIsAlwaysTrue`, `GlobalsAlwaysKept`, `ArgsAlwaysFaithful`, `CopiesAlwaysSafe`, `LinesAlwaysJudged` | `OwnerIsTrue`, `GlobalsAreKept`, `ArgsAreFaithful`, `CopiesAreSafe`, `LinesAreJudged`: every machine, any kinds a tool declares, any globals, declared groups and losses; argument lists, lines and startup files of any length | no tool is both set up by the installer and packaged by the system (`KindsAssumption`), `Unset` is no place, what `GlobalsAssumption` says of the groups, and what a line of a startup file is (`StartupFilesAssumption`) |
| `UserFilesProofs` | `OnlyOursEverDiffers`, `UsersValueAlwaysStays`, `ContentAlwaysKept`, `RefusedAlwaysUndone`, `OneRouteAlways`, `ClaimsAlwaysTrue`, `YoursAlwaysStay` | `OnlyOursDiffers`, `UsersValueStays`, `ContentIsKept`, `RefusedIsUndone`, `OneRoute`, `ClaimsAreTrue`, `YoursStayAlways`: any number of runs, edits and failures, any settings, any lines | no key belongs to two settings, `None` is no ledger and no value of the parts, the lines are of the kinds named in `RcFiles`; `DropsOld = FALSE` for the first, `~Shadowing` for the last |

None of these invariants is inductive alone.

*Replacement.* That a failure restores what was found needs to know where the
displaced tree is at every call (`PlaceInv`), what the link may be (`LinkInv`),
which flows use which calls (`KindInv`), and that what lies beside a displaced
tree before the first success is a release of the run's own (`ForeignInv`). That the last good tree survives is really a statement about
what recovery would give, `Effective` (`.old` if there is one, else live):
`EffectiveInv` says it is there, and good unless `exposed`. The refinement maps
`cur` to `Effective`, so every call that does not change `Effective` is a stutter
and the last call of a successful run is the one `Commit`. `ForeignTreeKept` is
read off it: before that `Commit` no abstract step leaves a tree of the user's.

*Refresh.* The strengthening (`AllPresent`): outside a window, everything seen in
the present epoch, by a pass that resolves in it, by an audit, in the stored
snapshot, in the evidence or published, is of the present `world`; what was seen
in an earlier epoch is not published (`FlightInv`, `StateInv` tie each pass and
each published state to its flight, and later flights to later epochs). That
callers share one flight needs that a running pass of the present epoch is the
one registered for its key (`OwnInv`), and that what a flight of this epoch
answered is there or hidden by a change (`AnswerInv`).

*Removal.* `ShownInv` and `PlanInv` bind what is left to do and what is done to the
plan that was shown; `HandInv` says what is in the quarantine at each step, and
that a release's directory is deleted only with the proven bytes; `ProofInv`, that
a receipt still there proves no more than the proof under way; `UndoInv`, that the
registration is undone before the paths; `ReceiptInv` and `KindInv`, which receipts
and proofs each kind of tool can have.

*Install run.* `LatchInv`: who updates is who holds the latch. `TailInv`: the hook
sweep and the settings come after a last row with no halt before it. For
`NeedsAreMet`, first, each recursive function of `Plan` exists and satisfies its
equation (`Blocking`, `Unsatisfying`, `Idling`): it is the least set closed under
one monotone step (`LeastFixpoint`), so no induction over the graph is needed;
only `Wanting`, that the closure of a selection is closed, uses that there is no
cycle. `PlanInv` is what the plan then guarantees of a runnable row's needs;
`RowInv`, where each tool is before and after its row: there, updated without
success, recorded as unresolved, or of a kind that no runnable row needs; and
`CurInv`, that the running row found all it needs and can lose only its own tool.
`ExitZeroAlwaysTrue` needs neither of the extra assumptions; that nobody is
dragged in (`NobodyIsDragged`) is a fact about the plan alone.

*Engine.* `TakenInv`: what the ladder did not take for already there is not the
user's, for as long as the job lasts. `ClaimInv`: a job that will claim rests on an
older receipt of the same kind that claims, or on a copy that is not the user's
(before the rung) or is ours (after it). `HooksInv`: a registered host is recorded,
excused, or in the job that is about to note it. `LeftInv`: what a job brought is
either the method in hand or among those left behind, and then an earlier rung of
the ladder, and no download. The last is what `NothingIsUnaccounted` rests on: a
checksum mismatch drops the leftovers of the rungs before it (`engine.py:269`), so
a download behind a manager would lose one. `DownloadsComeFirst` says no ladder of
the registry has that.

*Screens.* `LockInv`: a worker is at work exactly while the lock names it; the run's
is the one exception, between its start and the handler of its first message,
where the lock is taken. `RunInv` ties the ExecuteScreen to that worker, and says
that a screen not yet open or already closed leaves neither waiter nor answer.
`TokenInv`: the present wait has one answer, on its way or to come, and every
earlier one another token, so that an answer to a cancelled wait cannot start a
run; a row that waits makes the start wait. `AuditInv`: while an audit that saw
the globals of before the last reinstall is current, that reinstall's handler is
still to come, and it supersedes the audit. All of it holds with `KeysRace`: a
key between two hops can leave the rows "…" or bring the app down by a second
take, but never gives the lock to two workers. The states shown need two more.
`RowInv`: the row of Policies is the job's state, or a read that is not superseded
will bring it, or the view is yet to be painted. `CurrentInv`: while what is
published is not of the last change, a pass is asked for or under way, or failed,
or a message is queued whose handler asks for one; a key between two hops breaks
just this chain, which is why `QuietMeansPublished` needs `KeysRace = FALSE`.

*Runner.* `ChildInv` is the child at each point of a call: none before the launch,
one that is over where the parent only waits, one with a reader while it runs.
`CodeInv`: the exit code reported is that of the child that was waited for.

*Shims.* `ShimInv`: the other directory holds only tools of the user's; a shim runs
only names it is a shim for, pnpm's not pnpm itself, unless the user put a tool
under the shim's name in between (`late`); and what `Check` saw still holds when
the write comes. A chain of execs then leaves the managed directory after two
steps. `ApplyInv` is how far an application has come that nobody disturbed: which
part of the list is left, what is behind it is in place, and the targets found for
the name in hand are the ones it needs.

*Daemon.* `PhaseInv`: what a change is to achieve is so, or is among the calls it
has left (each file, the link, the timer's run, the registration). `CacheInv`: what
is memoised, or will be by a probe of the present generation, is a state of the
timer since the last change. `RestoreInv`: wherever a phase may raise, what the
recovery would find: how far the host has moved from `before`, and that the calls
left by a recovery undo each difference in an order that ends in agreement. Where
the record raises outside of the recovery (`at = "escaped"`) there is nothing to
undo with; that an apply is then in place is `AppliedInv`, which follows its plan
call by call up to the record.

*Policies.* `PolicyShape`: the calls in hand are those of the policy in hand, and
while the worker works the screen is idle, so its copy of `~/.myshellrc` is what is
there. `MoveInv` turns on `IsGoal`, what a policy asks of the disk (what its
`apply` writes, and what its `remove` takes out and `apply` does not write again),
and `Sure`, that the calls left lead there. A policy taken out is stripped until it
is applied, or the calls in hand are sure to strip it, or to hold it; and what is
told of it is what it holds. Where a startup file cannot be decoded, the first
`remove` raises before anything is taken out. That is false if `~/.myshellrc`
decodes and another file does not, which is `PoliciesGone`.

*Startup files.* What a run needs to know while the user edits is in `HandInv` (the
text it read, the rc files left) and `StubInv` (the consolidation under way). The
argument for `ContentIsKept` is that a backup which is there when a consolidation
begins either is of another file, and then it is refused, or is of this one, and
then what was moved before is inside of what is moved now (`Inside`), but for a
line the guard has rewritten in the block. That this last case cannot lose the
line is the fifth part of `MovedInv`: where the file that was backed up is back,
by an edit or a `mv`, nothing is moved any more. A refused consolidation leaves
`wiring.block`, because no step between the merge and the way back writes the block
but these two. `BackupInv` is the same of the backup: it is the one the snapshot
found, or this run made it (`created`) where there was none, and then `Drop` removes
it. `RouteInv` follows the wiring file by file: what is behind `left` has
its source line exactly where the stub does not reach it. Where the user removes
backups (`DropsOld`) the parts about the backup are void, and `RefusedIsUndone` and
`OneRoute` hold without them.

*Oh-My-Zsh.* `NamesInv`: each name the installer put there is recorded, and a
recorded name that is in the array is ours or was the user's all the same; a
theme of the user's is none the installer has claimed. `ReadInv`: what an
operation read is what is there, until the user edits. `OnePrompt` is inductive
with them but for a claim that was stranded, by a kill between the record and the
write. `YoursStayAlways` is about steps, and needs `SourcedInv`: where there is an
array there is the framework. With a multi-line array and no framework it is
false (`Shadowing`).

*Agent settings.* `Differs(file, base, entries)` says that a key differs only by our
value and that its entry says what was there. An edit does to the file what it does
to its history, so afterwards a key agrees in both or was left alone in both
(`SameEdit`): an edit keeps `Differs` for *any* entries. That is what carries a run
over the edits: from the read on, `Differs` holds of the ledger it read and of the
ledger it plans (`ApplyInv`), so the reservation, its rollback, a failed rollback and
a kill all leave a ledger that is right. A revert's ledger is right only of what it
is about to write, which `AgreedInv` says of the file the comparison agreed on
(`ApplyIsRight`, `RevertIsRight`). `Looks` is the converse: a recorded key that is
ours for the user too is one of `lookalike`; an apply that finds a key at our value
does not record it.

*Ownership and globals.* There is no run to induct over: the invariant is that the
answer is as defined for the question asked, and the rest is about all questions.
What is found to match the copy that runs is of who brought it (`MatchIsTrue`,
`PackageIsTrue`). By elimination the answer is the only candidate, and whatever a
declared method brought makes its owner one (`CopiesAreEvidence`,
`CompetitorsAreCandidates`).
An update that succeeds without a warning has replayed all it captured before; the
replay's specs cover that (`SpecsCover`), in whole groups (`ReplayKeeps`).

*Shim arguments.* `ReadsInv` and `TranslatesInv` say what the loop knows of the
tokens it has read: what `global`, `known` and the subcommand are, and that every
reading npx can make of the list agrees with the script's on them (`Agreed`). A
second loop turns `"$@"` round like a queue; `Queued` says that the tokens not yet
turned are in front, and behind them, in order, those it kept. The redirect refuses
no list that npx has a reading of, because what makes it refuse no reading has.

*Lines of `~/.shellrc`.* `LineRead`: the classifier is at the place of a command the
shell is at (`PlaceIsSeen`; behind a wrapper, `WrapperIsSeen`), what the shell has
sourced or evaluated it has seen, and a line it takes for simple is, word for word,
a source of the file (`SimpleIsSource`) -- except behind the words an exception
names, and behind an unresolvable source, where the line is refused whatever
follows. Each of the sixteen words keeps it, and so does a new physical line.

*PATH lines.* There is nothing to step through here: the answer is one step, about
two recursive functions, the scan and the shell, over all lines of a file. Each is
first shown to exist and to satisfy its equation (`ScanSteps`, `SourcingSteps`),
and every fact about them goes from line to line (`Induction`, from the
well-foundedness of < and a least line at which it fails, as the induction theorems
with operator parameters are no use here). In a file that parses: the scan is in the
very blocks the shell is in (`Synced`), for the innermost closer is then the one
that fits; the variable is what the scan expands it to, unless `Stale`; and a block
that asks whether PATH lacks the managed directory is not run where it is there
(`Tested`), its `else` apart. A guarded file keeps the shell in the same state, line
by line (`Same`), and a stripped one does as far as blocks go (`Alike`) and, where
the directory is on PATH and stays there, in all. That a reported line really adds
again needs a shell that reaches it: the conditions that ask nothing about PATH can
be answered so that all the blocks around any line are run, or all but the last and
no branch of that yet (`ReachOn`, `ReachOff`: the second is what carries the first
over an `elif`).

Every safety property of the runs is proved. Model-checked only is what is out of
the provers' reach: liveness (`RefreshReturns`, `RunEnds`, `WaitIsAnswered`).

## 5. Not modelled

* The registry and its validation, version parsing and ordering
  (`versions.py`, `manager_versions.py`), `verify_registry.py`: static data and pure
  text; argument parsing, `setup.py` and host setup; the maintenance scripts
  (`find` and `docker`: input and output only).
* Desktop terminals (`terminal_shell.py` but for the theme), `zshenv` and `konsole`
  regions; the environment redirection of tweaks; layout, text and the browser's
  filters of the screens.
* Of the modelled parts: the headless write buffering of the refresh
  (`hold_writes`, `commit_writes`), a restart with a cache that could not be
  written; pnpm groups and configuration in a removal; a vendor's own `remove`;
  quoting across lines and here-document detection in rc text; casks the registry
  does not declare; time (backoffs and freshness windows are choices).

## 6. Plan

What would come next, in order of importance:

1. A deeper instance of `Screens` with `KeysRace`, once the two hops are fixed.
2. `cache_redirect_policy` and the desktop shell policy, each a small part of
   `Policies`.
