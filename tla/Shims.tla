-------------------------------- MODULE Shims --------------------------------
(***************************************************************************)
(* The PATH shims of the guard (installer/guards.py; the callers are       *)
(* ban_policy in policy.py, run_guard in app.py, and the launch in         *)
(* setup.py).                                                              *)
(*                                                                         *)
(* The managed directory holds the shims and, as any directory of PATH,    *)
(* executables of somebody else; PATH may spell it a second way, through a *)
(* symlink.  A file is checked, its target is resolved and it is written   *)
(* or unlinked, in steps of their own: any of them can raise, the process  *)
(* can be killed, and the user installs and removes the real tools.        *)
(* What two of them do with their arguments is in ShimArgs.                *)
(***************************************************************************)
EXTENDS Naturals, Sequences, FiniteSets

CONSTANTS MaxEdits, \* bound: installations and removals by the user
          MaxRuns,  \* bound: operations begun
          None

Names == {"npm", "pip", "npx", "pnpm", "volta"}
Banned == <<"npm", "pip", "npx">>
Guarded == <<"npm", "pip", "npx", "pnpm">>

Dirs    == {"bin", "away"}
Real(entry) == IF entry = "alias" THEN "bin" ELSE entry
Paths == {<<"bin", "away">>, <<"alias", "away">>, <<"away", "alias">>, <<"away">>}

\* A file: absent, the user's, a hard block, or a redirect with the paths it execs ("old": a
\* body an earlier release wrote).
Foreign == [kind |-> "foreign", to |-> {}, old |-> FALSE]
Block   == [kind |-> "block", to |-> {}, old |-> FALSE]
Redirect(to) == [kind |-> "redirect", to |-> to, old |-> FALSE]

VARIABLES
  files, \* [Dirs -> [Names -> None or a file]]
  step, run,
  late,  \* history: names the user put into the managed directory between a check and its write
  edits, runs

vars == <<files, step, run, late, edits, runs>>

Idle == [op |-> None, path |-> <<>>, todo |-> <<>>, found |-> None, volta |-> None, since |-> 0]

-----------------------------------------------------------------------------
(***************************************************************************)
(* The lookups.                                                            *)
(***************************************************************************)
IsOurShim(file) == file # None /\ file.kind \in {"block", "redirect"}
At(place) == files[Real(place.dir)][place.name]

\* shutil.which: the first entry of PATH that has the name, as PATH spells it; PATH may be
\* given without the entries of some directory.
Which(name, path, without) ==
  LET hits == {i \in DOMAIN path : Real(path[i]) \notin without /\ files[Real(path[i])][name] # None}
  IN  IF hits = {} THEN None
      ELSE [dir |-> path[CHOOSE i \in hits : \A j \in hits : i <= j], name |-> name]

\* real_binary: our own shim, if it wins, is looked past, by every spelling of its directory.
RealBinary(name, path) ==
  LET first == Which(name, path, {})
      retry == Which(name, path, {"bin"})
      found == IF first = None \/ IsOurShim(At(first)) THEN retry ELSE first
  IN  IF found = None \/ IsOurShim(At(found)) THEN None ELSE found

-----------------------------------------------------------------------------
Baked(names) == Redirect({[dir |-> "away", name |-> n] : n \in names})

\* Tools of the user's, and of an earlier release at most its npx and a pnpm it had wrapped.
Init ==
  /\ \E here \in SUBSET {"npm", "pnpm", "npx"}, there \in SUBSET {"npm", "pnpm", "volta"}, before \in BOOLEAN :
       LET in(dir) == IF dir = "bin" THEN here ELSE there
           tools == [dir \in Dirs |-> [name \in Names |-> IF name \in in(dir) THEN Foreign ELSE None]]
       IN  files = IF before THEN [tools EXCEPT !.bin.npx = [Baked({"pnpm"}) EXCEPT !.old = TRUE],
                                                !.bin.pnpm = Baked({"volta", "pnpm"})]
                   ELSE tools
  /\ step = "idle" /\ run = Idle /\ late = {} /\ edits = 0 /\ runs = 0

Begin(op, path, todo) ==
  /\ step = "idle" /\ runs < MaxRuns /\ runs' = runs + 1
  /\ step' = "check" /\ run' = [Idle EXCEPT !.op = op, !.path = path, !.todo = todo, !.since = edits]
  /\ UNCHANGED <<files, late, edits>>

\* What a layer does with a name.
Layer(layer, names) == [i \in DOMAIN names |-> <<layer, names[i]>>]

\* Mutant of Apply: the hard blocks come last.
ApplyBlocksLast(path) == Begin("apply", path, Layer("redirect", <<"npx">>)
  \o Layer("volta", <<"volta">>) \o Layer("global", <<"npm", "pnpm">>) \o Layer("block", Banned))

\* install_shims, install_redirect_shims, install_global_redirect_shims.
Apply(path) == Begin("apply", path, Layer("block", Banned) \o Layer("redirect", <<"npx">>)
                                    \o Layer("volta", <<"volta">>) \o Layer("global", <<"npm", "pnpm">>))
Remove == Begin("remove", <<>>, Layer("remove", Guarded))
Launch == Begin("launch", <<>>, Layer("renew", <<"npx">>))

Goes(at, r) == step' = at /\ run' = r /\ UNCHANGED <<files, late, edits, runs>>
Next1 == [run EXCEPT !.todo = Tail(@), !.found = None]
Task == Head(run.todo)[1]
Name == Head(run.todo)[2]
Here == files["bin"][Name]

\* The body bakes what was resolved; the one the launch writes, what the old one baked.
Body == IF run.found = {} THEN Block ELSE Redirect(run.found)

\* Mutant of Check: a name that is taken is not looked at.
CheckNothing == step = "check" /\ run.todo # <<>> /\ Goes("resolve", run)

\* volta is resolved once for its layer. Never overwrites a real binary; a removal takes only our shims, a renewal only an old redirect.
Check ==
  /\ step = "check" /\ run.todo # <<>>
  /\ LET ours == IsOurShim(Here) IN
     CASE Task = "volta" ->
            Goes("check", [Next1 EXCEPT !.volta = RealBinary("volta", run.path)])
       [] Task = "remove" -> Goes(IF ours THEN "unlink" ELSE "check", IF ours THEN run ELSE Next1)
       [] Task = "renew" ->
            IF ours /\ Here.kind = "redirect" /\ Here.old
              THEN Goes("write", [run EXCEPT !.found = Here.to]) ELSE Goes("check", Next1)
       [] OTHER -> IF Here # None /\ ~ours THEN Goes("check", Next1) ELSE Goes("resolve", run)

\* One name's target: nothing, pnpm, volta, or both.
Targets ==
  LET pnpm == RealBinary("pnpm", run.path)
      wants == CASE Task = "block" -> {} [] Task = "redirect" -> {pnpm}
                 [] Name = "npm" -> {run.volta} [] OTHER -> {run.volta, pnpm}
  IN  IF None \in wants THEN {} ELSE wants

\* Without its targets npm and npx are blocked, and pnpm is left unwrapped.
Resolve ==
  /\ step = "resolve"
  /\ IF Name = "pnpm" /\ Targets = {}
       THEN IF IsOurShim(Here) THEN Goes("unlink", run) ELSE Goes("check", Next1)
       ELSE Goes("write", [run EXCEPT !.found = Targets])

Puts(file) ==
  /\ files' = [files EXCEPT !["bin"][Name] = file]
  /\ step' = "check" /\ run' = Next1 /\ UNCHANGED <<late, edits, runs>>

Write  == step = "write" /\ Puts(Body)
Unlink == step = "unlink" /\ Puts(None)

Ends ==
  /\ step' = "idle" /\ run' = Idle /\ UNCHANGED <<files, late, edits, runs>>

Return == step = "check" /\ run.todo = <<>> /\ Ends

\* An OSError, or the end of the process: what was written stays.
Stop == step # "idle" /\ run.todo # <<>> /\ Ends

\* The user installs a tool, or removes one or its shim.
Install(dir, name) ==
  /\ edits < MaxEdits /\ edits' = edits + 1
  /\ files' = [files EXCEPT ![dir][name] = IF @ = None THEN Foreign ELSE None]
  /\ late' = IF dir = "bin" /\ step \in {"resolve", "write", "unlink"} /\ Name = name
               THEN late \cup {name} ELSE late
  /\ UNCHANGED <<step, run, runs>>

Next ==
  \/ \E path \in Paths : Apply(path)
  \/ Remove \/ Launch
  \/ Check \/ Resolve \/ Write \/ Unlink \/ Return \/ Stop
  \/ \E dir \in Dirs, name \in {"npm", "pnpm", "volta"} : Install(dir, name)

Spec == Init /\ [][Next]_vars

-----------------------------------------------------------------------------
\* What a file execs, and what it reaches in as many steps as there are names.
Execs(place) == IF At(place) = None THEN {} ELSE {[dir |-> Real(t.dir), name |-> t.name] : t \in At(place).to}

Reached(name) ==
  LET next(X) == X \cup UNION {Execs(p) : p \in X}
  IN  next(next(next(Execs([dir |-> "bin", name |-> name]))))

\* No shim runs itself, by any spelling of its directory and through any other shim, whatever
\* was installed, removed, killed or renewed before (guards.py 405).
NoLoop == \A name \in Names \ late : [dir |-> "bin", name |-> name] \notin Reached(name)

\* What is not the installer's stays, but for what arrives between a check and its write
\* (guards.py 488, 614).
TheirsStay ==
  \A dir \in Dirs, name \in Names :
    (files[dir][name] = Foreign /\ edits' = edits) =>
      files'[dir][name] = Foreign \/ (dir = "bin" /\ name \in late)

\* When an application comes to its end, and nobody installed or removed a tool meanwhile, a
\* redirect is in place exactly where its targets can be run, and ends at them.
RedirectsAreLive ==
  (step = "check" /\ run.op = "apply" /\ run.todo = <<>> /\ run.since = edits) =>
    \A name \in {"npx", "npm", "pnpm"} :
      LET reach(t) == \E i \in DOMAIN run.path : files[Real(run.path[i])][t] = Foreign
          needs == CASE name = "npx" -> {"pnpm"} [] name = "npm" -> {"volta"} [] OTHER -> {"volta", "pnpm"}
          place == [dir |-> "bin", name |-> name]
      IN  \/ At(place) = Foreign
          \/ /\ (\A t \in needs : reach(t)) <=> (At(place) # None /\ At(place).kind = "redirect")
             /\ \A t \in Execs(place) : At(t) = Foreign
=============================================================================
