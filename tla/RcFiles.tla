------------------------------- MODULE RcFiles -------------------------------
(***************************************************************************)
(* The shell startup files (installer/app.py, configure_path;              *)
(* installer/shellrc.py, consolidate_shellrc and guard_path_writers;       *)
(* installer/rcclean.py, path_writer_lines).                               *)
(*                                                                         *)
(* Four files: ~/.shellrc, which is somebody else's, ~/.myshellrc, which   *)
(* the installer keeps, and the rc files of the two shells.  A content is  *)
(* the set of the user's lines, named for what they do, and the            *)
(* installer's marked blocks.  Each read and each write is a step; any     *)
(* call can raise, the process can be killed anywhere, and the user edits  *)
(* the files whenever they like.                                           *)
(***************************************************************************)
EXTENDS Naturals, Sequences, FiniteSets

CONSTANTS Modes,      \* the link modes a user of this machine picks
          Lines,      \* what the user may have in ~/.shellrc
          DropsOld,   \* the user may remove a backup, as a refusal proposes
          MaxEdits,   \* bound: edits by the user
          MaxRuns,    \* bound: runs of the installer
          MaxFailures,\* bound: calls that raise
          None

\* "mine" sources ~/.myshellrc in the one shape that can be disabled; "unsure" is an eval, a
\* here-document, or a source no rule can follow; "writer" puts a managed directory on PATH with
\* no test, and "guarded" is that line with the test.  A line named for a file sources it.
UserLines == {"text", "mine", "unsure", "zshrc", "bashrc", "writer", "guarded"}

Rc     == {"zshrc", "bashrc"}
Files  == Rc \cup {"shellrc", "myshellrc"}
RcList == <<"zshrc", "bashrc">>

\* rc_paths_for_mode, of a user whose shell is zsh.
RcPaths(mode) == IF mode = "single" THEN <<"zshrc">> ELSE RcList

Content == [lines : SUBSET (UserLines \cup {"shellrc"}), block : SUBSET UserLines \cup {None},
            source : BOOLEAN, path : BOOLEAN, stub : BOOLEAN]

Text(lines) == [lines |-> lines, block |-> None, source |-> FALSE, path |-> FALSE, stub |-> FALSE]
Empty == Text({})
Stub  == [Empty EXCEPT !.stub = TRUE]

VARIABLES
  disk,    \* per file: None, or its content
  old,     \* per file, its .old: None, or [of, whole]: a content, and all of it
  step,    \* the next call of the run
  run,     \* its locals
  moved,   \* history: the user's lines a stub has taken the place of, as they are now
  touched, \* history: what the user edited since the run began, a backup is "old"
  edits, runs, raises

vars == <<disk, old, step, run, moved, touched, edits, runs, raises>>

Idle == [kind |-> None, mode |-> None, snap |-> None, text |-> None, pre |-> None, created |-> FALSE,
         status |-> None, left |-> <<>>, route |-> None, error |-> FALSE,
         block |-> None, backup |-> None]   \* history: as the snapshot found them

Read(f) == IF disk[f] = None THEN Empty ELSE disk[f]

-----------------------------------------------------------------------------
(***************************************************************************)
(* Who sources whom.                                                       *)
(***************************************************************************)
Sources(d, f) ==
  IF d[f] = None THEN {} ELSE
    (d[f].lines \cap (Rc \cup {"shellrc"})) \cup (IF "mine" \in d[f].lines THEN {"myshellrc"} ELSE {})
    \cup (IF d[f].stub \/ d[f].source THEN {"myshellrc"} ELSE {})
    \cup (IF d[f].block = None THEN {} ELSE d[f].block \cap Rc)

\* Four files: what a file reaches, it reaches in three steps.
Reaches(d, f, g) ==
  LET Next1(S) == S \cup UNION {Sources(d, h) : h \in S}
  IN  g \in Next1(Next1(Next1(Sources(d, f))))

Acyclic(d) == \A f \in Files : ~Reaches(d, f, f)

-----------------------------------------------------------------------------
(***************************************************************************)
(* What the two texts allow: consolidation_refusal, and what is written.   *)
(***************************************************************************)
\* _text_sources_target sees a source of a file in any shape but the ones it calls unprovable.
SourcesTarget(c, f) == f \in c.lines \/ (c.block # None /\ f \in c.block)

Refusal(snap, mine, rcs) ==
  \/ "unsure" \in snap.lines
  \/ SourcesTarget(mine, "shellrc")
  \/ \E i \in DOMAIN rcs : rcs[i] \in snap.lines

\* apply_block, of the consolidated text: the self-source line is there, as a comment.
Merged(mine, snap) == [mine EXCEPT !.block = snap.lines]

\* backup_precondition: bytes and mode.
BackupConflict(f, snap) == old[f] # None /\ old[f] # [of |-> snap, whole |-> TRUE]

\* A ~/.shellrc of one line, and rc files that source it or write PATH.
Init ==
  /\ \E l \in {None} \cup {Text(L) : L \in SUBSET Lines}, m \in {None, Text({}), Text({"shellrc"})},
        z \in SUBSET {"shellrc", "writer"}, b \in {{}, {"shellrc"}} :
       /\ l # None => Cardinality(l.lines) <= 1
       /\ disk = [f \in Files |-> CASE f = "shellrc" -> l [] f = "myshellrc" -> m
                                   [] f = "zshrc" -> Text(z) [] f = "bashrc" -> Text(b)]
       /\ Acyclic(disk)
  /\ moved = {}
  /\ old = [f \in Files |-> None]
  /\ step = "idle" /\ run = Idle /\ touched = {}
  /\ edits = 0 /\ runs = 0 /\ raises = 0

Begin(kind, mode, at, r) ==
  /\ step = "idle" /\ runs < MaxRuns /\ runs' = runs + 1
  /\ step' = at /\ run' = [r EXCEPT !.kind = kind, !.mode = mode]
  /\ UNCHANGED <<disk, old, moved, touched, edits, raises>>

Goes(at, r) ==
  /\ step' = at /\ run' = r
  /\ UNCHANGED <<disk, old, moved, touched, edits, runs, raises>>

Writes(f, c, at, r) ==
  /\ disk' = [disk EXCEPT ![f] = c]
  /\ step' = at /\ run' = r
  /\ UNCHANGED <<old, touched, edits, runs, raises>>

Ends(r) == Goes("ended", r)

-----------------------------------------------------------------------------
(***************************************************************************)
(* configure_path: consolidation first, unless the mode is split.          *)
(***************************************************************************)
Configure(mode) ==
  Begin("configure", mode, IF mode = "split" THEN "inline" ELSE "snapshot",
        [Idle EXCEPT !.left = RcPaths(mode)])

\* The end of consolidate_shellrc, whatever it answers: the wiring follows.
Answers(status) == Goes("read_mine", [run EXCEPT !.status = status])

\* Absence, the identity-bound snapshot, and the owned stub.
Snapshot ==
  /\ step = "snapshot"
  /\ IF disk.shellrc = None THEN Answers("absent")
     ELSE IF disk.shellrc.stub THEN Answers("already")
     ELSE Goes("vet", [run EXCEPT !.snap = disk.shellrc, !.block = Read("myshellrc").block,
                                 !.backup = old.shellrc])

Vet ==
  /\ step = "vet"
  /\ IF Refusal(run.snap, Read("myshellrc"), RcPaths(run.mode)) THEN Answers("refused")
     ELSE Goes("weigh", run)

Weigh ==
  /\ step = "weigh"
  /\ IF BackupConflict("shellrc", run.snap) THEN Answers("refused") ELSE Goes("pre", run)

ReadBefore ==
  /\ step = "pre"
  /\ Goes("merge", [run EXCEPT !.pre = disk.myshellrc])

Merge ==
  /\ step = "merge"
  /\ Writes("myshellrc", Merged(IF run.pre = None THEN Empty ELSE run.pre, run.snap), "create", run)
  /\ UNCHANGED moved

\* _create_backup: the create, then the bytes and the mode.
Create ==
  /\ step \in {"create", "guard_create"}
  /\ LET f == IF step = "create" THEN "shellrc" ELSE Head(run.left)
         compare == IF step = "create" THEN "compare" ELSE "guard_compare" IN
     IF old[f] # None THEN Goes(compare, run)
     ELSE /\ old' = [old EXCEPT ![f] = [of |-> run.snap, whole |-> FALSE]]
          /\ step' = (IF step = "create" THEN "fill" ELSE "guard_fill")
          /\ run' = [run EXCEPT !.created = TRUE]
          /\ UNCHANGED <<disk, moved, touched, edits, runs, raises>>

Fill ==
  /\ step \in {"fill", "guard_fill"}
  /\ LET f == IF step = "fill" THEN "shellrc" ELSE Head(run.left) IN
     old' = [old EXCEPT ![f] = IF @ = None THEN None ELSE [@ EXCEPT !.whole = TRUE]]
  /\ step' = (IF step = "fill" THEN "compare" ELSE "guard_compare")
  /\ UNCHANGED <<disk, run, moved, touched, edits, runs, raises>>

\* Mutant of Compare: the file is taken to be the one that was read.
CompareNothing == step = "compare" /\ Goes("stub", run)

\* snapshot_matches, and the way back when somebody changed the file.
Compare ==
  /\ step = "compare"
  /\ Goes(IF disk.shellrc = run.snap THEN "stub" ELSE "put_back", run)

PutBack ==
  /\ step = "put_back"
  /\ Writes("myshellrc", run.pre, "drop", run) /\ UNCHANGED moved

\* Mutant of Drop: the backup stays.
DropNothing == step = "drop" /\ Goes("read_mine", [run EXCEPT !.status = "refused"])

Drop ==
  /\ step = "drop"
  /\ old' = [old EXCEPT !.shellrc = IF run.created THEN None ELSE @]
  /\ step' = "read_mine" /\ run' = [run EXCEPT !.status = "refused"]
  /\ UNCHANGED <<disk, moved, touched, edits, runs, raises>>

\* An edit that arrives between the comparison and this write ("late") goes with it.
WriteStub ==
  /\ step = "stub"
  /\ Writes("shellrc", Stub, "read_mine", [run EXCEPT !.status = "consolidated"])
  /\ moved' = moved \cup (IF "late" \in touched THEN run.snap.lines ELSE Read("shellrc").lines)

-----------------------------------------------------------------------------
(***************************************************************************)
(* The wiring: the PATH block, then each rc file by one route.             *)
(***************************************************************************)
ReadMine  == step = "read_mine" /\ Goes("path",
  [run EXCEPT !.text = Read("myshellrc"), !.snap = None, !.pre = None, !.block = None, !.backup = None, !.created = FALSE])

WritePath ==
  /\ step = "path"
  /\ Writes("myshellrc", [run.text EXCEPT !.path = TRUE], "route", [run EXCEPT !.text = None]) /\ UNCHANGED moved

Stubbed == run.status \in {"consolidated", "already"}

\* Mutant of Route: whatever ~/.shellrc is.
RouteByName ==
  /\ step = "route"
  /\ IF run.left = <<>> THEN Ends(run)
     ELSE Goes("read_rc", [run EXCEPT !.route =
                 IF SourcesTarget(Read(Head(run.left)), "shellrc") THEN "stub" ELSE "block"])

\* sources_file: a source of ~/.shellrc in any shape is "yes"; "unprovable" wires as "no" does.
Route ==
  /\ step = "route"
  /\ IF run.left = <<>> THEN Ends(run)
     ELSE Goes("read_rc", [run EXCEPT !.route =
                 IF Stubbed /\ SourcesTarget(Read(Head(run.left)), "shellrc") THEN "stub" ELSE "block"])

ReadRc == step = "read_rc" /\ Goes("rc", [run EXCEPT !.text = disk[Head(run.left)]])

\* remove_source_block leaves a missing file, and one without the block, alone.
WriteRc ==
  /\ step = "rc"
  /\ LET f == Head(run.left)
         next == [run EXCEPT !.left = Tail(@), !.text = None, !.route = None] IN
     IF run.route = "stub" /\ (run.text = None \/ ~run.text.source) THEN Goes("route", next)
     ELSE /\ Writes(f, [(IF run.text = None THEN Empty ELSE run.text) EXCEPT
                          !.source = (run.route = "block")], "route", next)
          /\ UNCHANGED moved

\* split: write_managed_path into each rc, a read and a write.
Inline ==
  /\ step = "inline"
  /\ IF run.left = <<>> THEN Ends(run)
     ELSE Goes("write_inline", [run EXCEPT !.text = Read(Head(run.left))])

WriteInline ==
  /\ step = "write_inline"
  /\ Writes(Head(run.left), [run.text EXCEPT !.path = TRUE], "inline", [run EXCEPT !.left = Tail(@), !.text = None])
  /\ UNCHANGED moved

-----------------------------------------------------------------------------
(***************************************************************************)
(* The Doctor's guard chain: the files are scanned, a file with a line to  *)
(* guard is offered in turn, and guarded only if it still is what was seen.*)
(***************************************************************************)
\* The consolidated text is the user's, so its lines count; a line with the test does not.
Adds(c) == c # None /\ ("writer" \in c.lines \/ (c.block # None /\ "writer" \in c.block))
Writers == {f \in Files : Adds(disk[f])}

Listed(f) == IF f \in Writers THEN <<f>> ELSE <<>>

Scan ==
  /\ Writers # {}
  /\ Begin("guard", None, "ask",
           [Idle EXCEPT !.left = Listed("myshellrc") \o Listed("shellrc") \o Listed("zshrc") \o Listed("bashrc")])

Ask ==
  /\ step = "ask"
  /\ \/ run.left = <<>> /\ Ends(run)
     \/ run.left # <<>> /\ Goes("guard_read", [run EXCEPT !.created = FALSE])
     \/ run.left # <<>> /\ Goes("ask", [run EXCEPT !.left = Tail(@)])

NextFile == Goes("ask", [run EXCEPT !.left = Tail(@), !.snap = None])

\* The snapshot is read, and each record is looked for at its place.
GuardRead ==
  /\ step = "guard_read"
  /\ LET f == Head(run.left) IN
     IF ~Adds(disk[f]) \/ BackupConflict(f, disk[f]) THEN NextFile
     ELSE Goes("guard_create", [run EXCEPT !.snap = disk[f]])

GuardCompare ==
  /\ step = "guard_compare"
  /\ LET f == Head(run.left) IN
     IF disk[f] = run.snap THEN Goes("guard", run)
     ELSE /\ old' = [old EXCEPT ![f] = IF run.created THEN None ELSE @]
          /\ step' = "ask" /\ run' = [run EXCEPT !.left = Tail(@), !.snap = None]
          /\ UNCHANGED <<disk, moved, touched, edits, runs, raises>>

Guarded(lines) == IF lines # None /\ "writer" \in lines THEN (lines \ {"writer"}) \cup {"guarded"} ELSE lines
Stripped(lines) == IF lines = None THEN None ELSE lines \ {"writer"}

Guard ==
  /\ step = "guard"
  /\ LET f == Head(run.left) IN
     /\ Writes(f, [run.snap EXCEPT !.lines = Guarded(@), !.block = Guarded(@)], "ask",
               [run EXCEPT !.left = Tail(@), !.snap = None])
     /\ moved' = IF f = "myshellrc" THEN Guarded(moved) ELSE moved

\* clean_rc_duplicates: previewed, confirmed, and stripped only if not a byte has changed.
Preview ==
  \E f \in Writers : Begin("clean", None, "clean", [Idle EXCEPT !.left = <<f>>, !.snap = disk[f]])

Clean ==
  /\ step = "clean"
  /\ LET f == Head(run.left) IN
     IF disk[f] # run.snap THEN Ends(run)
     ELSE /\ Writes(f, [run.snap EXCEPT !.lines = Stripped(@), !.block = Stripped(@)], "ended", run)
          /\ moved' = IF f = "myshellrc" THEN Stripped(moved) ELSE moved

-----------------------------------------------------------------------------
(***************************************************************************)
(* Failures, kills, and the user.                                          *)
(***************************************************************************)
\* An OSError of a call that opens or writes: run_live shows it, what was written stays.
Raise ==
  /\ step \notin {"idle", "ended", "ask", "snapshot", "weigh", "compare", "guard_read", "guard_compare"}
  /\ raises < MaxFailures /\ raises' = raises + 1
  /\ IF run.kind = "guard"
       THEN step' = "ask" /\ run' = [run EXCEPT !.left = Tail(@), !.snap = None]
       ELSE step' = "ended" /\ run' = [run EXCEPT !.error = TRUE]
  /\ UNCHANGED <<disk, old, moved, touched, edits, runs>>

\* The calls that answer an OSError themselves: a refusal, and the wiring goes on.
Unreadable ==
  /\ raises < MaxFailures /\ raises' = raises + 1
  /\ \/ step \in {"snapshot", "weigh"} /\ step' = "read_mine" /\ run' = [run EXCEPT !.status = "refused", !.error = TRUE]
     \/ step = "compare" /\ step' = "put_back" /\ run' = [run EXCEPT !.error = TRUE]
     \/ step = "guard_read" /\ step' = "ask" /\ run' = [run EXCEPT !.left = Tail(@), !.snap = None]
  /\ UNCHANGED <<disk, old, moved, touched, edits, runs>>

Rests ==
  /\ step' = "idle" /\ run' = Idle /\ touched' = {}
  /\ UNCHANGED <<disk, old, moved, edits, runs, raises>>

Return == step = "ended" /\ Rests

Kill == step \notin {"idle", "ended"} /\ Rests

Edited(f) ==
  /\ touched' = IF step = "idle" THEN {} ELSE touched \cup {IF step = "stub" /\ f = "shellrc" THEN "late" ELSE f}
  /\ edits < MaxEdits /\ edits' = edits + 1

\* The user's own edits make no loop.  Where they write the very file that was backed up, they
\* have it back.
EditShellrc ==
  /\ Edited("shellrc")
  /\ \E l \in SUBSET Lines :
       /\ Cardinality(l) <= 1
       /\ disk' = [disk EXCEPT !.shellrc = IF @ # None /\ @.stub THEN [@ EXCEPT !.lines = l] ELSE Text(l)]
       /\ Acyclic(disk')
       /\ moved' = IF old.shellrc # None /\ disk'.shellrc = old.shellrc.of THEN {} ELSE moved
  /\ UNCHANGED <<old, step, run, runs, raises>>

EditLine(f, line) ==
  /\ Edited(f)
  /\ LET c == Read(f) IN
     disk' = [disk EXCEPT ![f] =
                [c EXCEPT !.lines = IF line \in @ THEN @ \ {line} ELSE @ \cup {line}]]
  /\ Acyclic(disk')
  /\ UNCHANGED <<old, step, run, moved, runs, raises>>

\* "A single mv" (not while a run is under way): the original is back.
MoveBack ==
  /\ step = "idle" /\ Edited("shellrc") /\ old.shellrc # None /\ old.shellrc.whole
  /\ disk' = [disk EXCEPT !.shellrc = old.shellrc.of]
  /\ old' = [old EXCEPT !.shellrc = None]
  /\ Acyclic(disk')
  /\ moved' = IF old.shellrc.of.stub THEN moved ELSE {}
  /\ UNCHANGED <<step, run, runs, raises>>

\* "Move or remove it if you want consolidation to proceed."
RemoveBackup ==
  /\ DropsOld /\ Edited("old") /\ old.shellrc # None
  /\ old' = [old EXCEPT !.shellrc = None]
  /\ UNCHANGED <<disk, step, run, moved, runs, raises>>

RemoveStub ==
  /\ Edited("shellrc") /\ disk.shellrc # None /\ disk.shellrc.stub
  /\ disk' = [disk EXCEPT !.shellrc = None]
  /\ UNCHANGED <<old, step, run, moved, runs, raises>>

Next ==
  \/ \E mode \in Modes : Configure(mode)
  \/ Snapshot \/ Vet \/ Weigh \/ ReadBefore \/ Merge \/ Create \/ Fill \/ Compare \/ PutBack \/ Drop
  \/ WriteStub \/ ReadMine \/ WritePath \/ Route \/ ReadRc \/ WriteRc \/ Inline \/ WriteInline
  \/ Scan \/ Ask \/ GuardRead \/ GuardCompare \/ Guard \/ Preview \/ Clean
  \/ Raise \/ Unreadable \/ Return \/ Kill
  \/ EditShellrc \/ MoveBack \/ RemoveBackup \/ RemoveStub
  \/ EditLine("myshellrc", "shellrc")
  \/ \E f \in Rc : EditLine(f, "shellrc")

Spec == Init /\ [][Next]_vars

-----------------------------------------------------------------------------
TypeOK ==
  /\ disk \in [Files -> Content \cup {None}]
  /\ DOMAIN old = Files
  /\ moved \subseteq UserLines

Block == IF disk.myshellrc = None \/ disk.myshellrc.block = None THEN {} ELSE disk.myshellrc.block

\* Every line of the user's that a stub took the place of is in the consolidated block or in
\* the backup (shellrc.py 1018: the stub is the only write that removes a copy of the content).
ContentIsKept ==
  moved \subseteq Block \cup (IF old.shellrc = None THEN {} ELSE old.shellrc.of.lines)

\* Where a stub is in place, "a single mv" brings back a whole file of the user's, unless the
\* user removed the backup (shellrc.py 1024).
MvRestores ==
  (disk.shellrc # None /\ disk.shellrc.stub /\ ~DropsOld) =>
    old.shellrc # None /\ old.shellrc.whole

\* A refused consolidation, the one that finds the file changed under it included, leaves the block
\* of ~/.myshellrc and the backup as the snapshot found them, a file that was not there still
\* not there (shellrc.py 1094-1108), but for a file the user edited meanwhile.
RefusedIsUndone ==
  (step = "read_mine" /\ run.status = "refused" /\ run.snap # None) =>
    /\ "myshellrc" \notin touched => Read("myshellrc").block = run.block
    /\ "old" \notin touched => old.shellrc = run.backup

\* The ways an rc file reaches ~/.myshellrc, by the installer's own lines.
Routes(f) ==
  (IF disk[f].source THEN {"block"} ELSE {})
  \cup (IF "shellrc" \in disk[f].lines /\ disk.shellrc # None /\ disk.shellrc.stub THEN {"stub"} ELSE {})

\* After a run that wired the shells and failed nowhere, each rc file it wired reaches
\* ~/.myshellrc by exactly one route (app.py 245), unless the user edited in the meantime.
OneRoute ==
  (step = "ended" /\ run.kind = "configure" /\ run.mode # "split" /\ ~run.error /\ touched = {}) =>
    \A i \in DOMAIN RcPaths(run.mode) : \E route \in {"block", "stub"} : Routes(RcPaths(run.mode)[i]) = {route}

\* A run that reports success has made no loop of the startup files (shellrc.py 789).
NoLoop == (step = "ended" /\ run.status = "consolidated" /\ touched = {}) => Acyclic(disk)
=============================================================================
