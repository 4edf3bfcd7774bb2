------------------------------- MODULE Policies -------------------------------
(***************************************************************************)
(* The policies whose files depend on the link mode (installer/policy.py:  *)
(* ban_policy, tweak_policy, move_link_mode), toggled and moved from the   *)
(* Policies screen and the first launch's picker (installer/wizard_app.py),*)
(* next to the worker that turns the cleanup daemon on by default.         *)
(*                                                                         *)
(* A policy's apply and remove are sequences of calls, each of which can   *)
(* raise and each of which is atomic on its file.  The daemon's worker     *)
(* rewrites ~/.myshellrc too, in two steps: what it read may be old.       *)
(***************************************************************************)
EXTENDS Naturals, Sequences, SequencesExt, FiniteSets

CONSTANTS Ban,         \* the pip/npm ban
          Tweaks,      \* the shell tweaks
          Order,       \* the order of the Policies table
          Helped,      \* the tweaks with a helper executable
          Shims,       \* guarded_names
          Undecodable, \* the sets of rc files that may not be UTF-8
          MaxFailures, \* bound: calls that raise, in a life of the model
          MaxActions,  \* bound: toggles, picks and applies by the worker
          None

Policies == {Ban} \cup Tweaks

Modes   == {"centralized", "split"}
RcOrder == <<"zshrc", "bashrc">>
AllRc   == <<"myshellrc">> \o RcOrder
RcFiles == ToSet(RcOrder)

VARIABLES
  disk,      \* [shims, alias, block, helper, sourced, decided], and bad: not UTF-8
  saved,     \* the link mode in settings.json
  live,      \* SettingsStore.link_mode
  row,       \* active_state: what the table shows
  pc, todo,  \* where the screen is, and the calls left of its apply or remove
  move,      \* the locals of move_link_mode, or of a toggle
  worker,    \* the daemon's worker: [pc, copy]
  deferred,  \* _deferred_link_mode
  fails, acts

vars == <<disk, saved, live, row, pc, todo, move, worker, deferred, fails, acts>>

-----------------------------------------------------------------------------
(***************************************************************************)
(* The calls of apply and remove.                                          *)
(***************************************************************************)
AliasFiles(mode)  == IF mode = "split" THEN RcOrder ELSE <<"myshellrc">>
SourcedFrom(mode) == IF mode = "split" THEN RcOrder ELSE <<>>

Calls(call, args) == [i \in DOMAIN args |-> <<call, args[i]>>]
Helper(p, call)   == IF p \in Helped THEN <<<<call, p>>>> ELSE <<>>

RemoveCalls(p) ==
  IF p = Ban THEN Calls("dropShim", SetToSeq(Shims)) \o Calls("stripAliases", AllRc)
  ELSE <<<<"stripBlock", p>>>> \o Helper(p, "dropHelper")

ApplyCalls(p, mode) ==
  IF p = Ban THEN Calls("writeShim", SetToSeq(Shims)) \o Calls("writeAliases", AliasFiles(mode))
  ELSE Helper(p, "writeHelper") \o <<<<"writeBlock", p>>>>
       \o Calls("ensureSource", SourcedFrom(mode))

Performed(d, c) ==
  CASE c[1] = "writeShim"    -> [d EXCEPT !.shims = @ \cup {c[2]}]
    [] c[1] = "dropShim"     -> [d EXCEPT !.shims = @ \ {c[2]}]
    [] c[1] = "writeAliases" -> [d EXCEPT !.alias = @ \cup {c[2]}]
    [] c[1] = "stripAliases" -> [d EXCEPT !.alias = @ \ {c[2]}]
    [] c[1] = "writeBlock"   -> [d EXCEPT !.block = @ \cup {c[2]}]
    [] c[1] = "stripBlock"   -> [d EXCEPT !.block = @ \ {c[2]}]
    [] c[1] = "writeHelper"  -> [d EXCEPT !.helper = @ \cup {c[2]}]
    [] c[1] = "dropHelper"   -> [d EXCEPT !.helper = @ \ {c[2]}]
    [] c[1] = "ensureSource" -> [d EXCEPT !.sourced = @ \cup {c[2]}]

\* The file a call reads: read_text is strict, and raises on what it cannot decode.
FileOf(c) ==
  CASE c[1] \in {"writeAliases", "stripAliases", "ensureSource"} -> c[2]
    [] c[1] \in {"writeBlock", "stripBlock"} -> "myshellrc"
    [] OTHER -> "none"

Escapes(c) == FileOf(c) \in disk.bad

\* is_active, read from the disk when asked.
IsActive(d, p) == IF p = Ban THEN d.shims # {} ELSE p \in d.block

\* policy_owned: what link_mode_aware_active moves, and which of them is next, in the table's order.
AwareActive(d) == {p \in ToSet(Order) : IsActive(d, p)}
First(ps) == Order[CHOOSE i \in DOMAIN Order : Order[i] \in ps /\ \A j \in 1..i - 1 : Order[j] \notin ps]

\* p as an apply in this mode leaves it; a source line is never taken out again.
Complete(d, p, mode) ==
  IF p = Ban THEN d.shims = Shims /\ d.alias = ToSet(AliasFiles(mode))
  ELSE /\ p \in d.block /\ (p \in Helped => p \in d.helper)
       /\ ToSet(SourcedFrom(mode)) \subseteq d.sourced

\* The machine after these policies were applied in this mode.
AppliedAll(ps, mode, bad) ==
  [shims |-> IF Ban \in ps THEN Shims ELSE {}, alias |-> IF Ban \in ps THEN ToSet(AliasFiles(mode)) ELSE {},
   block |-> ps \cap Tweaks, helper |-> ps \cap Helped,
   sourced |-> IF ps \cap Tweaks = {} THEN {} ELSE ToSet(SourcedFrom(mode)),
   decided |-> FALSE, bad |-> bad]

-----------------------------------------------------------------------------
Still == [new |-> None, old |-> None, queue |-> {}, removed |-> {}, report |-> {},
          lost |-> {}, error |-> FALSE]

Init ==
  /\ saved \in Modes /\ live = saved
  /\ \E on \in SUBSET Policies, bad \in Undecodable : disk = AppliedAll(on, saved, bad)
  /\ row = [p \in Policies |-> IsActive(disk, p)]
  /\ pc = "idle" /\ todo = <<>> /\ move = Still
  /\ worker = [pc |-> "idle", copy |-> None] /\ deferred = None
  /\ fails = 0 /\ acts = 0

mutating == worker.pc # "idle"
Act      == acts < MaxActions /\ acts' = acts + 1

\* The calls of a policy begin: apply reads the live mode when it runs.
Start(p, how) == todo' = IF how = "remove" THEN RemoveCalls(p) ELSE ApplyCalls(p, live')

(***************************************************************************)
(* Calls.                                                                  *)
(***************************************************************************)
Call ==
  /\ todo # <<>> /\ ~Escapes(Head(todo)) /\ disk' = Performed(disk, Head(todo)) /\ todo' = Tail(todo)
  /\ UNCHANGED <<saved, live, row, pc, move, worker, deferred, fails, acts>>

Raises == fails < MaxFailures /\ fails' = fails + 1

\* UnicodeDecodeError is none of the errors move_link_mode and _rollback expect: it goes
\* through both, and run_live shows it.
CallEscapes ==
  /\ todo # <<>> /\ Escapes(Head(todo)) /\ todo' = <<>>
  /\ IF pc = "toggle" THEN pc' = "idle" /\ move' = Still
     ELSE pc' = "ended" /\ move' = [move EXCEPT !.error = TRUE]
  /\ UNCHANGED <<disk, saved, live, row, worker, deferred, fails, acts>>

(***************************************************************************)
(* A toggle: the row, not the disk, says which way.                        *)
(***************************************************************************)
Toggle(p) ==
  /\ pc = "idle" /\ ~mutating /\ Act
  /\ pc' = "toggle" /\ live' = live /\ Start(p, IF row[p] THEN "remove" ELSE "apply")
  /\ move' = [Still EXCEPT !.queue = {p}]
  /\ UNCHANGED <<disk, saved, row, worker, deferred, fails>>

Toggled ==
  /\ pc = "toggle" /\ todo = <<>>
  /\ row' = [row EXCEPT ![First(move.queue)] = ~@]
  /\ pc' = "idle" /\ move' = Still
  /\ UNCHANGED <<disk, saved, live, todo, worker, deferred, fails, acts>>

ToggleFails ==
  /\ pc = "toggle" /\ todo # <<>> /\ Raises
  /\ pc' = "idle" /\ todo' = <<>> /\ move' = Still
  /\ UNCHANGED <<disk, saved, live, row, worker, deferred, acts>>

-----------------------------------------------------------------------------
(***************************************************************************)
(* move_link_mode.                                                         *)
(***************************************************************************)
\* Both pickers, at the mutation point: the mode already live is only saved.
Begin(new) ==
  LET aware == IF new = live THEN {} ELSE AwareActive(disk) IN
  /\ move' = [Still EXCEPT !.new = new, !.old = live, !.queue = aware]
  /\ IF aware = {} THEN pc' = "save" /\ todo' = <<>>
     ELSE pc' = "remove" /\ todo' = RemoveCalls(First(aware))

Pick(new) ==
  /\ pc = "idle" /\ ~mutating /\ Act /\ Begin(new)
  /\ UNCHANGED <<disk, saved, live, row, worker, deferred, fails>>

\* Mutant of PickDeferred: the pick does not wait for the worker.
PickAtOnce(new) ==
  /\ pc = "idle" /\ mutating /\ deferred = None /\ Act /\ Begin(new)
  /\ UNCHANGED <<disk, saved, live, row, worker, deferred, fails>>

\* The first launch's picker while the daemon is being applied.
PickDeferred(new) ==
  /\ pc = "idle" /\ mutating /\ deferred = None /\ Act
  /\ deferred' = new
  /\ UNCHANGED <<disk, saved, live, row, pc, todo, move, worker, fails>>

\* The policy in hand, and those after it.
Now  == First(move.queue)
Rest == move.queue \ {Now}

\* The removals, while the old mode is live; m is the move after this policy.
NextRemoval(m) ==
  /\ move' = [m EXCEPT !.queue = Rest]
  /\ IF Rest # {} THEN pc' = "remove" /\ todo' = RemoveCalls(First(Rest))
     ELSE pc' = "save" /\ todo' = <<>>

Removed ==
  /\ pc = "remove" /\ todo = <<>>
  /\ NextRemoval([move EXCEPT !.removed = @ \cup {Now}])
  /\ UNCHANGED <<disk, saved, live, row, worker, deferred, fails, acts>>

RemoveFails ==
  /\ pc = "remove" /\ todo # <<>> /\ Raises
  /\ NextRemoval([move EXCEPT !.report = @ \cup {<<Now, "left">>}])
  /\ UNCHANGED <<disk, saved, live, row, worker, deferred, acts>>

\* The next policy to apply in the live mode, or the end of the move.
NextApply(m) ==
  /\ move' = m
  /\ IF m.queue = {} THEN pc' = "ended" /\ todo' = <<>> ELSE pc' = "apply" /\ Start(First(m.queue), "apply")

\* Mutant of Rollback: what has moved already stays.
RollbackTheRest ==
  /\ move' = [move EXCEPT !.error = TRUE]
  /\ IF move.queue = {} THEN pc' = "ended" /\ todo' = <<>>
     ELSE pc' = "undo" /\ todo' = RemoveCalls(Now)

\* _rollback: every removed policy, in the mode that is live.
Rollback ==
  /\ move' = [move EXCEPT !.queue = move.removed, !.error = TRUE]
  /\ IF move.removed = {} THEN pc' = "ended" /\ todo' = <<>>
     ELSE pc' = "undo" /\ todo' = RemoveCalls(First(move.removed))

Save ==
  /\ pc = "save" /\ saved' = move.new /\ live' = move.new
  /\ NextApply([move EXCEPT !.queue = move.removed])
  /\ UNCHANGED <<disk, row, worker, deferred, fails, acts>>

SaveFails ==
  /\ pc = "save" /\ Raises /\ Rollback
  /\ UNCHANGED <<disk, saved, live, row, worker, deferred, acts>>

Reported(status) == [move EXCEPT !.queue = Rest, !.report = @ \cup {<<Now, status>>}]

Applied ==
  /\ pc = "apply" /\ todo = <<>> /\ live' = live /\ NextApply(Reported("moved"))
  /\ UNCHANGED <<disk, saved, row, worker, deferred, fails, acts>>

ApplyFails ==
  /\ pc = "apply" /\ todo # <<>> /\ Raises
  /\ pc' = "save old" /\ todo' = <<>>
  /\ UNCHANGED <<disk, saved, live, row, move, worker, deferred, acts>>

(***************************************************************************)
(* A policy whose apply failed goes back to the old mode.                  *)
(***************************************************************************)
SaveOld ==
  /\ pc = "save old" /\ saved' = move.old /\ live' = move.old
  /\ pc' = "restore" /\ todo' = RemoveCalls(Now) \o ApplyCalls(Now, move.old)
  /\ UNCHANGED <<disk, row, move, worker, deferred, fails, acts>>

Restored ==
  /\ pc = "restore" /\ todo = <<>> /\ saved' = move.new /\ live' = move.new
  /\ NextApply(Reported("restored"))
  /\ UNCHANGED <<disk, row, worker, deferred, fails, acts>>

\* set_link_mode(old), the remove, the apply or set_link_mode(new) raises.
RestoreFails ==
  /\ pc \in {"save old", "restore"} /\ Raises /\ Rollback
  /\ UNCHANGED <<disk, saved, live, row, worker, deferred, acts>>

(***************************************************************************)
(* _rollback, one policy after the other; a failure names the policy.      *)
(***************************************************************************)
NextUndo(m) ==
  /\ move' = [m EXCEPT !.queue = Rest]
  /\ IF Rest = {} THEN pc' = "ended" /\ todo' = <<>>
     ELSE pc' = "undo" /\ todo' = RemoveCalls(First(Rest))

UndoApply ==
  /\ pc = "undo" /\ todo = <<>>
  /\ pc' = "redo" /\ todo' = ApplyCalls(Now, live)
  /\ UNCHANGED <<disk, saved, live, row, move, worker, deferred, fails, acts>>

RolledBack ==
  /\ pc = "redo" /\ todo = <<>> /\ NextUndo(move)
  /\ UNCHANGED <<disk, saved, live, row, worker, deferred, fails, acts>>

RollbackFails ==
  /\ pc \in {"undo", "redo"} /\ todo # <<>> /\ Raises
  /\ NextUndo([move EXCEPT !.lost = @ \cup {Now}])
  /\ UNCHANGED <<disk, saved, live, row, worker, deferred, acts>>

\* The screen reads the outcome: mark_lost_policies_off.
Shown ==
  /\ pc = "ended" /\ pc' = "idle" /\ move' = Still
  /\ row' = [p \in Policies |-> row[p] /\ p \notin move.lost]
  /\ UNCHANGED <<disk, saved, live, todo, worker, deferred, fails, acts>>

-----------------------------------------------------------------------------
(***************************************************************************)
(* The worker that applies the daemon's default, or a toggle of its row:   *)
(* record_decided reads ~/.myshellrc and writes all of it.                 *)
(***************************************************************************)
MyShellrc(d) == [alias |-> d.alias \cap {"myshellrc"}, block |-> d.block]

WorkerStart ==
  /\ pc = "idle" /\ ~mutating /\ Act
  /\ worker' = [pc |-> "apply", copy |-> None]
  /\ UNCHANGED <<disk, saved, live, row, pc, todo, move, deferred, fails>>

WorkerRead ==
  /\ worker.pc = "apply" /\ "myshellrc" \notin disk.bad
  /\ worker' = [pc |-> "record", copy |-> MyShellrc(disk)]
  /\ UNCHANGED <<disk, saved, live, row, pc, todo, move, deferred, fails, acts>>

WorkerWrite ==
  /\ worker.pc = "record" /\ worker' = [pc |-> "posted", copy |-> None]
  /\ disk' = [disk EXCEPT !.decided = TRUE, !.block = worker.copy.block,
                          !.alias = (@ \ {"myshellrc"}) \cup worker.copy.alias]
  /\ UNCHANGED <<saved, live, row, pc, todo, move, deferred, fails, acts>>

\* A file that is not UTF-8 is not read; whatever the worker raised, its finally posts.
WorkerFails ==
  /\ worker.pc \in {"apply", "record"}
  /\ IF worker.pc = "apply" /\ "myshellrc" \in disk.bad THEN fails' = fails ELSE Raises
  /\ worker' = [pc |-> "posted", copy |-> None]
  /\ UNCHANGED <<disk, saved, live, row, pc, todo, move, deferred, acts>>

\* on_daemon_default_applied: the lock first, then the pick that waited.
WorkerDone ==
  /\ worker.pc = "posted" /\ worker' = [pc |-> "idle", copy |-> None]
  /\ deferred' = None
  /\ IF deferred = None THEN UNCHANGED <<pc, todo, move>> ELSE Begin(deferred)
  /\ UNCHANGED <<disk, saved, live, row, fails, acts>>

\* Killed, and launched again: the rows are read from the disk.
Kill ==
  /\ pc # "idle" \/ mutating
  /\ pc' = "idle" /\ todo' = <<>> /\ move' = Still /\ deferred' = None
  /\ worker' = [pc |-> "idle", copy |-> None] /\ live' = saved
  /\ row' = [p \in Policies |-> IsActive(disk, p)]
  /\ UNCHANGED <<disk, saved, fails, acts>>

Next ==
  \/ Call \/ CallEscapes \/ Toggled \/ ToggleFails \/ Removed \/ RemoveFails \/ Save \/ SaveFails
  \/ Applied \/ ApplyFails \/ SaveOld \/ Restored \/ RestoreFails
  \/ UndoApply \/ RolledBack \/ RollbackFails \/ Shown
  \/ WorkerStart \/ WorkerRead \/ WorkerWrite \/ WorkerFails \/ WorkerDone \/ Kill
  \/ \E p \in Policies : Toggle(p)
  \/ \E new \in Modes : Pick(new) \/ PickDeferred(new)

Spec == Init /\ [][Next]_vars

-----------------------------------------------------------------------------
TypeOK ==
  /\ disk.shims \subseteq Shims /\ disk.alias \subseteq ToSet(AllRc)
  /\ disk.block \subseteq Tweaks /\ disk.helper \subseteq Helped
  /\ disk.sourced \subseteq RcFiles /\ disk.decided \in BOOLEAN
  /\ saved \in Modes /\ live = saved /\ row \in [Policies -> BOOLEAN]
  /\ pc \in {"idle", "toggle", "remove", "save", "apply", "save old", "restore", "undo",
             "redo", "ended"}
  /\ move.queue \cup move.removed \cup move.lost \subseteq Policies
  /\ worker.pc \in {"idle", "apply", "record", "posted"} /\ deferred \in Modes \cup {None}
  /\ fails \in 0..MaxFailures /\ acts \in 0..MaxActions

Status(p) == {r[2] : r \in {s \in move.report : s[1] = p}}

(***************************************************************************)
(* What a move reports of the policies it took out is true of the disk:    *)
(* moved is complete in the new mode, restored is complete in the old one, *)
(* and after an error a policy that is not named as not restored is        *)
(* complete in the mode that is live (move_link_mode, _rollback, WR-02).   *)
(***************************************************************************)
MoveIsTruthful ==
  pc = "ended" =>
    \A p \in move.removed :
      IF move.error THEN p \in move.lost \/ Complete(disk, p, live)
      ELSE \/ Status(p) = {"moved"} /\ Complete(disk, p, move.new)
           \/ Status(p) = {"restored"} /\ Complete(disk, p, move.old)

(***************************************************************************)
(* "That must never be silent": a policy the move found on the disk and    *)
(* that is nowhere on it afterwards is named as not restored, so its row   *)
(* can go off.                                                             *)
(***************************************************************************)
Gone(d, p) == IF p = Ban THEN d.shims = {} /\ d.alias = {} ELSE p \notin d.block

NeverSilentlyGone ==
  pc = "ended" => \A p \in Policies : row[p] /\ Gone(disk, p) => p \in move.lost

(***************************************************************************)
(* The decision on the cleanup daemon, once in ~/.myshellrc, is never      *)
(* written over, nor does recording it undo a policy's block there: the    *)
(* worker and the screen rewrite the same file.                            *)
(***************************************************************************)
WritesAreKept ==
  /\ disk.decided => disk'.decided
  /\ WorkerWrite => MyShellrc(disk') = MyShellrc(disk)

NoWriteIsLost == [][WritesAreKept]_vars
=============================================================================
