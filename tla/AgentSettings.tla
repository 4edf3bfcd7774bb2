---------------------------- MODULE AgentSettings ----------------------------
(***************************************************************************)
(* One agent's settings file and its ledger (installer/agent_settings.py,  *)
(* the config ledger of installer/receipts.py): settings are applied and   *)
(* reverted, while the user, an editor or the agent itself edits the file, *)
(* calls fail, the ledger is damaged, and the process is killed.           *)
(*                                                                         *)
(* A key's value is "ours", "dflt" (the CLI default an apply may replace), *)
(* some "other" one, or "absent".  Nested keys share one parent object.    *)
(* The rest of the file, comments included, is the flag extra.             *)
(***************************************************************************)
EXTENDS Naturals

CONSTANTS KeyOrder,    \* setting_keys: setting -> the sequence of its keys
          Nested,      \* the keys with a two-part path
          Defaulted,   \* the keys with a cli_default
          None,
          MaxEdits     \* bound: edits by others, damages of the ledger included

Settings  == DOMAIN KeyOrder
KeysOf(s) == {KeyOrder[s][i] : i \in DOMAIN KeyOrder[s]}
Keys      == UNION {KeysOf(s) : s \in Settings}

\* No key belongs to two settings.
ASSUME SettingsAssumption ==
  /\ \A s, t \in Settings : s # t => KeysOf(s) \cap KeysOf(t) = {}
  /\ Nested \subseteq Keys /\ Defaulted \subseteq Keys /\ MaxEdits \in Nat

VARIABLES
  file,       \* the settings file
  ledger,     \* the ledger file: [entries, created, bad]; an entry for each recorded key
  aside,      \* the untrusted ledger that was kept aside, or None
  pc,         \* where apply_setting or revert_setting is
  run,        \* its locals
  result,     \* how the last one ended
  edits,      \* edits by others still allowed
  base,       \* history: the file had the installer never touched it
  lookalike   \* history: keys the user set to our value while they were recorded

others == <<edits, base, lookalike>>
vars   == <<file, ledger, aside, pc, run, result, others>>

Values(k) == {"absent", "ours", "other"} \cup (IF k \in Defaulted THEN {"dflt"} ELSE {})
NoKeys    == [k \in Keys |-> "absent"]
Missing   == [there |-> FALSE, ok |-> TRUE, parent |-> "none", extra |-> FALSE, key |-> NoKeys]
NoLedger  == [entries |-> [k \in {} |-> None], created |-> FALSE, bad |-> FALSE]
Recorded(l) == DOMAIN l.entries
Present(d)  == {k \in Nested : d.key[k] # "absent"}
Bare(d)     == d.key = NoKeys /\ d.parent = "none" /\ ~d.extra

Docs == [there : BOOLEAN, ok : BOOLEAN, parent : {"none", "object", "scalar"}, extra : BOOLEAN,
         key : [Keys -> {"absent", "ours", "other", "dflt"}]]
Ledgers == [entries : UNION {[recorded -> [createdParent : BOOLEAN, replaced : BOOLEAN]] :
                               recorded \in SUBSET Keys},
            created : BOOLEAN, bad : BOOLEAN]

ASSUME NoneIsNoLedger == None \notin Ledgers

-----------------------------------------------------------------------------
(***************************************************************************)
(* _apply_pass and _kept_entries.  The keys of a setting do not disturb    *)
(* each other, but for the parent: the first nested one inserted makes it. *)
(***************************************************************************)
Dropped(d, s) ==
  {k \in KeysOf(s) : d.key[k] = "other" \/ (k \in Nested /\ d.parent = "scalar")}
Written(d, s) == {k \in KeysOf(s) : d.key[k] # "ours"} \ Dropped(d, s)

Applied(d, s) ==
  [d EXCEPT !.there  = @ \/ Written(d, s) # {},
            !.key    = [k \in Keys |-> IF k \in Written(d, s) THEN "ours" ELSE @[k]],
            !.parent = IF Written(d, s) \cap Nested # {} THEN "object" ELSE @]

FirstNested(s, k) ==
  \E i \in DOMAIN KeyOrder[s] :
    KeyOrder[s][i] = k /\ k \in Nested /\ \A j \in 1 .. i - 1 : KeyOrder[s][j] \notin Nested

Entry(d, s, k) == [createdParent |-> d.parent = "none" /\ FirstNested(s, k),
                   replaced |-> d.key[k] = "dflt"]

KeptEntries(entries, d, s) ==
  [k \in (DOMAIN entries \ Dropped(d, s)) \cup Written(d, s) |->
     IF k \in Written(d, s) THEN Entry(d, s, k) ELSE entries[k]]

(***************************************************************************)
(* _revert_pass, and what _revert_once does with it.  Newest first, the    *)
(* entry that made the parent is the last of the setting's nested ones:    *)
(* the parent goes with it when nothing else is left in it.                *)
(***************************************************************************)
Mine(l, s) == Recorded(l) \cap KeysOf(s)

Held(d, l, s) == {k \in Mine(l, s) : d.key[k] = "ours"}
Gone(d, l, s) == {k \in Held(d, l, s) : ~l.entries[k].replaced}

RevertPass(d, l, s) ==
  [d EXCEPT !.key = [k \in Keys |-> IF k \in Gone(d, l, s) THEN "absent"
                                    ELSE IF k \in Held(d, l, s) THEN "dflt" ELSE @[k]],
            !.parent = IF /\ \E k \in Gone(d, l, s) \cap Nested : l.entries[k].createdParent
                          /\ Present(d) \subseteq Gone(d, l, s)
                         THEN "none" ELSE @]

\* A created file goes only when nothing of the user's is left in it.
Reverted(d, l, s) ==
  LET new == RevertPass(d, l, s)
  IN  IF new # d /\ l.created /\ Bare(new) THEN Missing ELSE new

\* The ledger with the entries of the setting gone, and the created file released.
Remaining(l, s) ==
  LET rest == Recorded(l) \ KeysOf(s)
  IN  [entries |-> [k \in rest |-> l.entries[k]], created |-> l.created /\ rest # {}, bad |-> FALSE]

-----------------------------------------------------------------------------
(***************************************************************************)
(* A run: apply_setting or revert_setting, at most two attempts of         *)
(* _apply_once or _revert_once.                                            *)
(***************************************************************************)
Idle == [kind |-> "none", setting |-> None, attempt |-> 0, led |-> NoLedger, snap |-> Missing,
         new |-> Missing, plan |-> NoLedger, then |-> "none",
         agreed |-> <<Missing, {}>>]

\* The ledger as it is known: the trusted one, or the one kept aside.
Book == IF aside # None THEN aside ELSE [ledger EXCEPT !.bad = FALSE]

Begin ==
  /\ pc = "idle" /\ pc' = "read" /\ result' = "none"
  /\ \E kind \in {"apply", "revert"}, s \in Settings :
       run' = [Idle EXCEPT !.kind = kind, !.setting = s, !.attempt = 1]
  /\ UNCHANGED <<file, ledger, aside, others>>

\* A run that ended keeps nothing of its locals.
Ended(how) == pc' = "idle" /\ result' = how /\ run' = Idle
Goto(where, r) == pc' = where /\ run' = r /\ UNCHANGED result

\* _ledger: one that exists and does not validate is kept aside, never read as empty.
ReadUntrusted ==
  /\ pc = "read" /\ (ledger.bad \/ aside # None)
  /\ IF ledger.bad THEN aside' = [ledger EXCEPT !.bad = FALSE] /\ ledger' = NoLedger
                   ELSE UNCHANGED <<aside, ledger>>
  /\ Ended("refused") /\ UNCHANGED <<file, others>>

Trusted == pc = "read" /\ ~ledger.bad /\ aside = None

\* The file does not parse or cannot be read, or the recorded file is gone.
ReadRefused ==
  /\ Trusted
  /\ run.kind = "revert" => Mine(ledger, run.setting) # {}
  /\ Ended("refused") /\ UNCHANGED <<file, ledger, aside, others>>

ReadApply ==
  /\ Trusted /\ run.kind = "apply" /\ file.ok
  /\ LET same == Written(file, run.setting) = {}
     IN  Goto("reserve",
              [run EXCEPT !.led = ledger, !.snap = file, !.new = Applied(file, run.setting),
                          !.plan = [entries |-> KeptEntries(ledger.entries, file, run.setting),
                                    created |-> ledger.created \/ (~same /\ ~file.there),
                                    bad |-> FALSE],
                          !.then = IF same THEN "end" ELSE "compare"])
  /\ UNCHANGED <<file, ledger, aside, others>>

ReadRevert ==
  /\ Trusted /\ run.kind = "revert" /\ file.ok
  /\ IF Mine(ledger, run.setting) = {} THEN Ended("done")
     ELSE /\ file.there \/ ledger.created
          /\ LET new == Reverted(file, ledger, run.setting)
             IN  Goto(IF new = file THEN "record" ELSE "compare",
                      [run EXCEPT !.led = ledger, !.snap = file, !.new = new,
                                  !.plan = Remaining(ledger, run.setting)])
  /\ UNCHANGED <<file, ledger, aside, others>>

\* write_ledger before the file is written.
Reserve ==
  /\ pc = "reserve"
  /\ \/ /\ ledger' = run.plan
        /\ IF run.then = "end" THEN Ended("done") ELSE Goto("compare", run)
     \/ UNCHANGED ledger /\ Ended(IF run.then = "end" THEN "failed" ELSE "refused")
  /\ UNCHANGED <<file, aside, others>>

\* Mutant of Compare: the file is written without being compared.
CompareNothing ==
  /\ pc = "compare"
  /\ Goto("replace", [run EXCEPT !.agreed = <<base, lookalike>>])
  /\ UNCHANGED <<file, ledger, aside, others>>

\* snapshot_matches, in write_if_unchanged and delete_if_unchanged.
Compare ==
  /\ pc = "compare"
  /\ IF file = run.snap THEN Goto("replace", [run EXCEPT !.agreed = <<base, lookalike>>])
     ELSE IF run.kind = "apply" THEN Goto("rollback", [run EXCEPT !.then = "retry"])
     ELSE IF run.attempt < 2 THEN Goto("read", [run EXCEPT !.attempt = @ + 1])
     ELSE Ended("refused")
  /\ UNCHANGED <<file, ledger, aside, others>>

\* The rename or unlink.  An edit made since the comparison is lost with it, and
\* history is told so.
Replace ==
  /\ pc = "replace"
  /\ file' = run.new
  /\ base' = run.agreed[1] /\ lookalike' = run.agreed[2]
  /\ IF run.kind = "apply" THEN Ended("done") ELSE Goto("record", run)
  /\ UNCHANGED <<ledger, aside, edits>>

ReplaceFails ==
  /\ pc = "replace"
  /\ IF run.kind = "apply" THEN Goto("rollback", [run EXCEPT !.then = "refuse"])
                           ELSE Ended("refused")
  /\ UNCHANGED <<file, ledger, aside, others>>

AfterRollback ==
  IF run.then = "retry" /\ run.attempt < 2
    THEN Goto("read", [run EXCEPT !.attempt = @ + 1]) ELSE Ended("refused")

\* Mutant of Rollback: after a change the retry is left to sort the ledger out.
RollbackNothing ==
  /\ pc = "rollback" /\ AfterRollback
  /\ IF run.then = "retry" THEN UNCHANGED ledger ELSE ledger' = run.led
  /\ UNCHANGED <<file, aside, others>>

\* The write did not happen: the previous ledger stands.
Rollback ==
  /\ pc = "rollback" /\ AfterRollback
  /\ ledger' = run.led
  /\ UNCHANGED <<file, aside, others>>

\* A key set by the user while it was reserved stays reserved.
Reserved == {k \in Recorded(ledger) : base.key[k] = "ours"}

RollbackFails ==
  /\ pc = "rollback" /\ Ended("failed")
  /\ lookalike' = lookalike \cup Reserved
  /\ UNCHANGED <<file, ledger, aside, edits, base>>

\* The end of _revert_once.
RecordRevert ==
  /\ pc = "record"
  /\ \/ ledger' = run.plan /\ Ended("done")
     \/ UNCHANGED ledger /\ Ended("refused")
  /\ UNCHANGED <<file, aside, others>>

Kill ==
  /\ pc # "idle" /\ Ended("none")
  /\ lookalike' = lookalike \cup Reserved
  /\ UNCHANGED <<file, ledger, aside, edits, base>>

-----------------------------------------------------------------------------
(***************************************************************************)
(* The others: what they do to the file they would have done to it without *)
(* the installer, too.                                                     *)
(***************************************************************************)
SetKey(d, k, v) ==
  [d EXCEPT !.there = TRUE, !.key[k] = v, !.parent = IF k \in Nested THEN "object" ELSE @]
DropKey(d, k)   == [d EXCEPT !.key[k] = "absent"]
SetParent(d, p) ==
  [d EXCEPT !.there = @ \/ p = "scalar", !.parent = p,
            !.key = [k \in Keys |-> IF k \in Nested THEN "absent" ELSE @[k]]]
AddExtra(d)     == [d EXCEPT !.there = TRUE, !.extra = TRUE]

\* The records a user's edit meets: those of before the run that is under way.
AtRest == Recorded(IF pc \in {"idle", "read"} THEN Book ELSE run.led)

Saved(f, b) ==
  /\ f # file /\ file' = f /\ base' = b
  /\ lookalike' = {k \in Keys : b.key[k] = "ours" /\
                     (k \in lookalike \/ (base.key[k] # "ours" /\ k \in AtRest))}

Edit ==
  /\ edits > 0 /\ edits' = edits - 1
  /\ \/ /\ file.ok
        /\ \/ \E k \in Keys : \E v \in Values(k) \ {"absent"} :
                Saved(SetKey(file, k, v), SetKey(base, k, v))
           \/ \E k \in Keys : Saved(DropKey(file, k), DropKey(base, k))
           \/ \E p \in {"none", "scalar"} : Saved(SetParent(file, p), SetParent(base, p))
           \/ Saved(AddExtra(file), AddExtra(base))
     \/ file.there /\ Saved(Missing, Missing)
     \/ /\ file.there /\ Saved([file EXCEPT !.ok = ~@], base)
  /\ UNCHANGED <<ledger, aside, pc, run, result>>

Damage ==
  /\ edits > 0 /\ edits' = edits - 1
  /\ ledger # NoLedger /\ ~ledger.bad /\ ledger' = [ledger EXCEPT !.bad = TRUE]
  /\ UNCHANGED <<file, aside, pc, run, result, base, lookalike>>

\* "restore or delete it": the user restores it.
Restore ==
  /\ aside # None /\ ledger' = aside /\ aside' = None
  /\ UNCHANGED <<file, pc, run, result, others>>

-----------------------------------------------------------------------------
Init ==
  /\ file \in {d \in Docs : d.there /\ d.ok} \cup {Missing}
  /\ \A k \in Keys : file.key[k] \in Values(k)
  /\ file.parent # "object" => Present(file) = {}
  /\ base = file /\ lookalike = {} /\ edits = MaxEdits
  /\ ledger = NoLedger /\ aside = None /\ pc = "idle" /\ run = Idle /\ result = "none"

Installer ==
  \/ Begin \/ ReadUntrusted \/ ReadRefused \/ ReadApply \/ ReadRevert \/ Reserve \/ Compare
  \/ Replace \/ ReplaceFails \/ Rollback \/ RollbackFails \/ RecordRevert \/ Kill

Next == Installer \/ Edit \/ Damage \/ Restore

Spec == Init /\ [][Next]_vars
-----------------------------------------------------------------------------
(***************************************************************************)
(* The type of every variable; a nested key has its parent.                *)
(***************************************************************************)
TypeOK ==
  /\ file \in Docs /\ base \in Docs /\ (file.parent # "object" => Present(file) = {})
  /\ ledger \in Ledgers /\ aside \in Ledgers \cup {None} /\ (aside # None => ledger = NoLedger)
  /\ lookalike \subseteq Keys /\ edits \in 0..MaxEdits
  /\ pc \in {"idle", "read", "reserve", "compare", "replace", "rollback", "record"}
  /\ result \in {"none", "done", "refused", "failed"}

(***************************************************************************)
(* Whatever is killed, fails or races with a run, a key differs from what  *)
(* it would be without the installer only if it holds our value, where     *)
(* there was none or a CLI default, and the ledger can take it back.  (Not *)
(* for a key the user set to our value while it was recorded: the ledger   *)
(* cannot tell.)                                                           *)
(***************************************************************************)
OnlyRecordedDiffers ==
  \A k \in Keys \ lookalike : file.key[k] # base.key[k] =>
    /\ file.key[k] = "ours" /\ base.key[k] \in {"absent", "dflt"}
    /\ k \in Recorded(Book)

(***************************************************************************)
(* A key the user set to our value is not recorded, "so space never        *)
(* removes" it: not even one set while an apply had reserved it.           *)
(***************************************************************************)
YoursStaysYours ==
  pc = "idle" => \A k \in Recorded(Book) : base.key[k] = "ours" => k \in lookalike

(***************************************************************************)
(* Everything else in the file survives every apply and revert, and so     *)
(* does the file that holds it, also when an apply created the file.       *)
(***************************************************************************)
UsersContentStays ==
  /\ file.extra = base.extra
  /\ (file.parent = "scalar") = (base.parent = "scalar")
  /\ base.extra \/ base.parent = "scalar" => file.there
=============================================================================
