--------------------------------- MODULE Omz ---------------------------------
(***************************************************************************)
(* Oh-My-Zsh's plugins array and theme in the user's .zshrc (installer/    *)
(* omz.py, with the callers in policy.py, post_install.py and              *)
(* terminal_shell.py).                                                     *)
(*                                                                         *)
(* .zshrc is the user's; what the installer put there is known only from   *)
(* two records in ~/.myshellrc.  A claim is reserved before the edit and   *)
(* rolled back when the edit is refused; a removal clears it last.  Each   *)
(* write is atomic; any write can raise, the process can be killed between *)
(* two of them, and the user edits .zshrc whenever they like.              *)
(***************************************************************************)
EXTENDS Naturals, FiniteSets

CONSTANTS MaxEdits,  \* bound: edits by the user
          MaxRuns,   \* bound: operations begun
          MaxFaults, \* bound: writes that raise
          Shadowing, \* a multi-line array may stand in a .zshrc that sources no framework
          None

Managed == {"git", "docker"}      \* MANAGED_PLUGINS
Names   == Managed \cup {"own"}

\* The array zsh honors: none, "single", "late" (single, after the source command), "nested"
\* (single, indented: in an if or a function), or "multi", which no rewrite touches.
Arrays == {None, "single", "late", "nested", "multi"}

VARIABLES
  rc,       \* .zshrc: None, or [sourced, array, names, theme]
  claimed,  \* the plugin record: None, or the names this installer added
  claim,    \* the theme record: None, or the theme this installer wrote
  starship, \* starship's block is in ~/.myshellrc
  step, run,
  ours,     \* history: names of the array that the installer put there
  looks,    \* history: names of the array the user wrote while they were recorded
  drawn,    \* history: who wrote the theme: None, "installer", "user", or "lookalike": the user, as claimed
  stranded, \* history: a theme record was left behind by an edit that did not happen
  touched,  \* history: the user edited since the operation began
  edits, runs, faults

history == <<ours, looks, drawn, stranded>>
vars == <<rc, claimed, claim, starship, step, run, history, touched, edits, runs, faults>>

Idle == [op |-> None, rc |-> None, seen |-> None, added |-> {}, before |-> None, theme |-> None, wrote |-> None,
         error |-> FALSE]

-----------------------------------------------------------------------------
(***************************************************************************)
(* What a text gives: _locate, plugins_in, set_theme, the template.        *)
(***************************************************************************)
Editable(c) == c.array \in {"single", "late", "nested"}
PluginsIn(c) == IF Editable(c) THEN c.names ELSE {}

Bare == [sourced |-> FALSE, array |-> None, names |-> {}, theme |-> None]
Read == IF rc = None THEN Bare ELSE rc

\* ensure_zshrc_template: a text that sources the framework is repaired at that place, any other
\* gets the template appended.
Template(c) ==
  IF c.sourced THEN
    CASE c.array = "late" -> [c EXCEPT !.array = "single"]
      [] c.array = None   -> [c EXCEPT !.array = "single", !.names = {"git"}]
      [] OTHER            -> c
  ELSE IF Editable(c) THEN [c EXCEPT !.sourced = TRUE]
       ELSE [c EXCEPT !.sourced = TRUE, !.array = "single", !.names = {"git"}]

\* write_plugins asks for the template only where it repairs, or where no array opens at all.
WantsTemplate(c) == c.sourced \/ c.array = None

\* Mutant of SetTheme: the installer's default gives way to the name, whoever wrote it.
SetAnyDefault(c, name, replace) ==
  IF c.theme \in {None, "robbyrussell"} /\ c.sourced THEN [c EXCEPT !.theme = name] ELSE c

\* set_theme: no theme, the name goes before the source; the recorded value gives way to it.
SetTheme(c, name, replace) ==
  IF c.theme = None THEN (IF c.sourced THEN [c EXCEPT !.theme = name] ELSE c)
  ELSE IF replace # None /\ c.theme = replace THEN [c EXCEPT !.theme = name]
  ELSE c

DefaultTheme == IF starship THEN "" ELSE "robbyrussell"

-----------------------------------------------------------------------------
Init ==
  /\ \E sourced \in BOOLEAN, array \in Arrays, names \in SUBSET {"docker", "own"},
        theme \in {None, "own", "robbyrussell"} :
       /\ array = "late" => sourced
       /\ array = "multi" => sourced \/ Shadowing
       /\ array = None => names = {}
       /\ rc \in {None, [sourced |-> sourced, array |-> array, names |-> names, theme |-> theme]}
  /\ claimed = None /\ claim = None /\ starship = FALSE
  /\ step = "idle" /\ run = Idle
  /\ ours = {} /\ looks = {} /\ stranded = FALSE
  /\ drawn = (IF rc = None \/ rc.theme = None THEN None ELSE "user")
  /\ touched = FALSE /\ edits = 0 /\ runs = 0 /\ faults = 0

Begin(op, at) ==
  /\ step = "idle" /\ runs < MaxRuns /\ runs' = runs + 1
  /\ step' = at /\ run' = [Idle EXCEPT !.op = op]
  /\ UNCHANGED <<rc, claimed, claim, starship, history, touched, edits, faults>>

Goes(at, r) ==
  /\ step' = at /\ run' = r
  /\ UNCHANGED <<rc, claimed, claim, starship, history, touched, edits, runs, faults>>

\* The plugins policy, starship's, the post-install action and the terminal synchronizer.
Enable   == Begin("enable", "template")
Disable  == Begin("disable", "remove")
Starship == Begin("starship", "block")
Theme    == Begin("theme", "template")
Sync     == Begin("sync", "template")

\* What was read, and whose it was: a write puts both back.
Reads(r) == [r EXCEPT !.rc = rc, !.seen = [ours |-> ours, looks |-> looks, drawn |-> drawn]]

Ends(r) == Goes("ended", r)
Refuse  == Ends([run EXCEPT !.error = TRUE])

\* A write of .zshrc: what is there afterwards, and who put it there.
WritesRc(c, at, r) ==
  /\ rc' = c /\ step' = at /\ run' = r
  /\ UNCHANGED <<claimed, claim, starship, stranded, touched, edits, runs, faults>>

\* The read and the write of ensure_zshrc_template, which end the synchronizer.
EnsureTemplate ==
  /\ step = "template"
  /\ LET next == CASE run.op = "enable" -> "read" [] run.op = "theme" -> "theme" [] OTHER -> "ended"
         kept == rc # None /\ (Template(rc) = rc \/ (run.op = "enable" /\ ~WantsTemplate(rc))) IN
     IF kept THEN Goes(next, run)
     ELSE /\ WritesRc(Template(Read), next, run)
          /\ ours' = ours \cup (Template(Read).names \ PluginsIn(Read))
          /\ UNCHANGED <<looks, drawn>>

-----------------------------------------------------------------------------
(***************************************************************************)
(* write_plugins.                                                          *)
(***************************************************************************)
ReadArray ==
  /\ step = "read"
  /\ IF rc = None \/ ~Editable(rc) THEN Refuse
     ELSE Goes("reserve", [Reads(run) EXCEPT !.added = Managed \ PluginsIn(rc), !.before = claimed])

Owned(record) == IF record = None THEN {} ELSE record

\* Mutant of Reserve: what was recorded by an earlier enabling is forgotten.
ReserveAdded ==
  /\ step = "reserve"
  /\ claimed' = run.added
  /\ step' = "edit"
  /\ UNCHANGED <<rc, claim, starship, run, history, touched, edits, runs, faults>>

Reserve ==
  /\ step = "reserve"
  /\ claimed' = Owned(run.before) \cup run.added
  /\ step' = "edit"
  /\ UNCHANGED <<rc, claim, starship, run, history, touched, edits, runs, faults>>

EditArray ==
  /\ step = "edit"
  /\ IF run.added = {} THEN Goes("theme", [Idle EXCEPT !.op = run.op])
     ELSE /\ WritesRc([run.rc EXCEPT !.names = @ \cup run.added], "theme", [Idle EXCEPT !.op = run.op])
          /\ ours' = run.seen.ours \cup run.added
          /\ looks' = run.seen.looks /\ drawn' = run.seen.drawn

EditRaises ==
  /\ step = "edit" /\ run.added # {} /\ faults < MaxFaults /\ faults' = faults + 1
  /\ step' = "rollback"
  /\ UNCHANGED <<rc, claimed, claim, starship, run, history, touched, edits, runs>>

Rollback ==
  /\ step = "rollback"
  /\ claimed' = run.before /\ step' = "ended" /\ run' = [run EXCEPT !.error = TRUE]
  /\ UNCHANGED <<rc, claim, starship, history, touched, edits, runs, faults>>

-----------------------------------------------------------------------------
(***************************************************************************)
(* apply_theme, at the end of the plugins', starship's and the hook's run. *)
(***************************************************************************)
ReadTheme ==
  /\ step = "theme"
  /\ LET updated == SetTheme(rc, DefaultTheme, claim) IN
     IF rc = None \/ ~rc.sourced \/ updated = rc THEN Ends(run)
     ELSE Goes("reserve_theme", [Reads(run) EXCEPT !.rc = updated, !.wrote = claim, !.theme = DefaultTheme])

ReserveTheme ==
  /\ step = "reserve_theme"
  /\ claim' = run.theme /\ step' = "edit_theme"
  /\ UNCHANGED <<rc, claimed, starship, run, history, touched, edits, runs, faults>>

EditTheme ==
  /\ step = "edit_theme"
  /\ WritesRc(run.rc, "ended", run)
  /\ drawn' = "installer" /\ ours' = run.seen.ours /\ looks' = run.seen.looks

EditThemeRaises ==
  /\ step = "edit_theme" /\ faults < MaxFaults /\ faults' = faults + 1
  /\ step' = "rollback_theme"
  /\ UNCHANGED <<rc, claimed, claim, starship, run, history, touched, edits, runs>>

RollbackTheme ==
  /\ step = "rollback_theme"
  /\ claim' = run.wrote /\ step' = "ended" /\ run' = [run EXCEPT !.error = TRUE]
  /\ UNCHANGED <<rc, claimed, starship, history, touched, edits, runs, faults>>

\* Starship's block, then the theme that goes with it.
Block ==
  /\ step = "block"
  /\ starship' = ~starship /\ step' = "theme"
  /\ UNCHANGED <<rc, claimed, claim, run, history, touched, edits, runs, faults>>

-----------------------------------------------------------------------------
(***************************************************************************)
(* remove_plugins.                                                         *)
(***************************************************************************)
Remove ==
  /\ step = "remove"
  /\ IF Owned(claimed) = {} \/ rc = None THEN Goes("clear", run)
     ELSE IF ~Editable(rc) THEN Refuse
     ELSE Goes("strip", [Reads(run) EXCEPT !.added = Owned(claimed)])

Strip ==
  /\ step = "strip"
  /\ IF run.rc.names \cap run.added = {} THEN Goes("clear", run)
     ELSE /\ WritesRc([run.rc EXCEPT !.names = @ \ run.added], "clear", run)
          /\ ours' = run.seen.ours \ run.added /\ looks' = run.seen.looks \ run.added
          /\ drawn' = run.seen.drawn

Clear ==
  /\ step = "clear"
  /\ claimed' = None /\ step' = "ended"
  /\ UNCHANGED <<rc, claim, starship, run, history, touched, edits, runs, faults>>

-----------------------------------------------------------------------------
(***************************************************************************)
(* Failures, kills, and the user.                                          *)
(***************************************************************************)
\* The theme's claim is one thing and the file another: the edit it was made for never came.
Strands == stranded' = (stranded \/ step \in {"edit_theme", "rollback_theme"})

Raise ==
  /\ step \notin {"idle", "ended", "edit", "edit_theme"} /\ faults < MaxFaults /\ faults' = faults + 1
  /\ step' = "ended" /\ run' = [run EXCEPT !.error = TRUE]
  /\ Strands
  /\ UNCHANGED <<rc, claimed, claim, starship, ours, looks, drawn, touched, edits, runs>>

Rests ==
  /\ step' = "idle" /\ run' = Idle /\ touched' = FALSE
  /\ UNCHANGED <<rc, claimed, claim, starship, ours, looks, drawn, edits, runs, faults>>

Return == step = "ended" /\ Rests /\ UNCHANGED stranded
Kill   == step \notin {"idle", "ended"} /\ Rests /\ Strands

Edits ==
  /\ edits < MaxEdits /\ edits' = edits + 1
  /\ touched' = (step # "idle")
  /\ UNCHANGED <<claimed, claim, starship, step, run, stranded, runs, faults>>

UserPlugin ==
  /\ Edits /\ rc # None /\ rc.array \notin {None, "multi"}
  /\ \E n \in {"docker", "own"} :
       IF n \in rc.names
         THEN /\ rc' = [rc EXCEPT !.names = @ \ {n}]
              /\ ours' = ours \ {n} /\ looks' = looks \ {n}
         ELSE /\ rc' = [rc EXCEPT !.names = @ \cup {n}]
              /\ looks' = (IF n \in Owned(claimed) \cup run.added THEN looks \cup {n} ELSE looks)
              /\ UNCHANGED ours
  /\ UNCHANGED drawn

UserTheme ==
  /\ Edits /\ rc # None
  /\ \E t \in {None, "own", "robbyrussell"} \ {rc.theme} :
       /\ rc' = [rc EXCEPT !.theme = t]
       /\ drawn' = (IF t = None THEN None
                    ELSE IF t \in {claim, run.theme, run.wrote} THEN "lookalike" ELSE "user")
  /\ UNCHANGED <<ours, looks>>

UserRemoves ==
  /\ Edits /\ rc # None
  /\ rc' = None /\ ours' = {} /\ looks' = {} /\ drawn' = None

Next ==
  \/ Enable \/ Disable \/ Starship \/ Theme \/ Sync
  \/ EnsureTemplate \/ ReadArray \/ Reserve \/ EditArray \/ EditRaises \/ Rollback
  \/ ReadTheme \/ ReserveTheme \/ EditTheme \/ EditThemeRaises \/ RollbackTheme \/ Block
  \/ Remove \/ Strip \/ Clear
  \/ Raise \/ Return \/ Kill
  \/ UserPlugin \/ UserTheme \/ UserRemoves

Spec == Init /\ [][Next]_vars

-----------------------------------------------------------------------------
\* Every managed name an enabling put into the array is recorded, through every crash: without
\* its record it could never be taken out again (omz.py 503).
NamesAreRecorded == rc # None => ours \cap {"docker"} \subseteq Owned(claimed)

\* What the user wrote into .zshrc, the installer leaves there: no name but one it put there or
\* one that was written while it was recorded, and no theme of the user's (omz.py 19, 653).
YoursStay ==
  (edits' = edits /\ rc # None /\ rc' # None /\ ~touched) =>
    /\ rc.names \ (ours \cup looks) \subseteq rc'.names
    /\ drawn = "user" => rc'.theme = rc.theme

\* A starship that was turned on and a default theme the installer itself wrote never draw two
\* prompts, unless a theme was claimed and not written (omz.py 718).
OnePrompt ==
  (step = "ended" /\ ~run.error /\ run.op = "starship" /\ starship /\ ~touched /\ ~stranded
     /\ rc # None /\ rc.sourced /\ drawn = "installer") => rc.theme = ""

YoursStayAlways == [][YoursStay]_vars
=============================================================================
