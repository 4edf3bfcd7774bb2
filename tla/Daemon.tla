-------------------------------- MODULE Daemon --------------------------------
(***************************************************************************)
(* The background cleanup daemon as a policy (installer/policy.py,         *)
(* daemon_policy and linux_daemon_policy, over installer/daemon.py and     *)
(* installer/systemd_daemon.py): a LaunchAgent, or a systemd user timer.   *)
(*                                                                         *)
(* apply, remove and set_schedule write files and call a manager that has  *)
(* its own idea of what is registered.  Each call can raise; the process   *)
(* can be killed; the user manager can be out of reach; and a worker reads *)
(* the timer's state through a cache while a change is under way.          *)
(***************************************************************************)
EXTENDS Naturals, Sequences

CONSTANTS Versions,    \* the definitions an apply may write: paths, schedule
          MaxFailures, \* bound: calls that raise
          MaxActions,  \* bound: applies, removes and reschedules
          MaxOutside,  \* bound: changes by somebody else, logins included
          None

VARIABLES
  os,      \* "linux" or "mac"
  host,    \* [file, link, wrapper, log, marker, utf8, loaded, running, rival]
  reach,   \* the user manager answers
  at, todo,\* where a change is; the groups of calls it has left
  op,      \* its locals
  cache,   \* TimerStateCache: [value, fresh, gen]
  reader,  \* a read of it: [pc, gen, value]
  off,     \* history: removed, and not applied since: [is, warned, reached]
  since,   \* history: the states the timer has had since the last invalidate
  fails, acts, outside

vars == <<os, host, reach, at, todo, op, cache, reader, off, since, fails, acts, outside>>

\* A file is the version in it; the wrapper and the log are only there or not.  The
\* decision is a line of ~/.myshellrc, which is UTF-8 or some other encoding.
Files == {"plist", "service", "timer"}
Mine  == IF os = "mac" THEN {"plist"} ELSE {"service", "timer"}
NoFiles == [f \in Files |-> None]

UnitsPresent(h) == \A f \in Mine : h.file[f] # None

\* probe_timer_state: what systemctl is-active answers; on a Mac, whether the plist is there.
State(h) == IF os = "mac" THEN UnitsPresent(h) ELSE UnitsPresent(h) /\ h.running

\* What the uninstall sweep asks.
Owned(h) == \/ \E f \in Mine : h.file[f] # None
            \/ os = "linux" /\ (h.link \/ h.wrapper)

\* What the manager reads from the files.
Read(h) == IF UnitsPresent(h) THEN h.file ELSE NoFiles

-----------------------------------------------------------------------------
(***************************************************************************)
(* Calls, and what each does.                                              *)
(***************************************************************************)
Group(calls, onError) == [calls |-> calls, onError |-> onError]
Write(f, v) == <<"write", f, v>>
Plain(c)    == <<c, None, None>>

Performed(h, c) ==
  CASE c[1] = "write"     -> [h EXCEPT !.file[c[2]] = c[3]]
    [] c[1] = "wrapper"   -> [h EXCEPT !.wrapper = TRUE]
    [] c[1] = "log"       -> [h EXCEPT !.log = TRUE]
    [] c[1] = "unwrap"    -> [h EXCEPT !.wrapper = FALSE]
    [] c[1] = "unlog"     -> [h EXCEPT !.log = FALSE]
    [] c[1] = "unlink"    -> [h EXCEPT !.link = FALSE]
    [] c[1] = "record"    -> [h EXCEPT !.marker = TRUE]
    [] c[1] = "reload"    -> [h EXCEPT !.loaded = Read(h)]
    [] c[1] = "enable"    -> [h EXCEPT !.link = TRUE]
    [] c[1] = "restart"   -> [h EXCEPT !.running = TRUE]
    [] c[1] = "disable"   -> [h EXCEPT !.link = FALSE]
    [] c[1] = "stop"      -> [h EXCEPT !.link = FALSE, !.running = FALSE]
    [] c[1] = "bootout"   -> [h EXCEPT !.loaded = NoFiles]
    [] c[1] = "bootstrap" -> [h EXCEPT !.loaded = Read(h)]

Managed == {"reload", "enable", "restart", "disable", "stop"}

\* daemon.bootstrap and systemd_daemon.bootstrap, with what an error in them does.
Register(onError) ==
  IF os = "mac"
    THEN <<Group(<<Plain("bootout")>>, "skip"), Group(<<Plain("bootstrap")>>, onError)>>
    ELSE <<Group(<<Plain("reload"), Plain("enable"), Plain("restart")>>, onError)>>

\* _validate_and_write.
WriteAll(v) ==
  <<Group(IF os = "mac" THEN <<Plain("wrapper"), Plain("log"), Write("plist", v)>>
          ELSE <<Plain("wrapper"), Plain("log"), Write("service", v), Write("timer", v)>>, "raise")>>

RestoreFiles(h) ==
  IF os = "mac" THEN <<Write("plist", h.file["plist"])>>
  ELSE <<Write("service", h.file["service"]), Write("timer", h.file["timer"])>>

If(b, calls) == IF b THEN calls ELSE <<>>

\* Mutant of UndoApply: the files come back, and nobody tells the manager.
UndoFilesOnly(b) == <<Group(RestoreFiles(b), "raise")>>

\* The except branch of _apply; b is the host before the apply.
UndoApply(b) ==
  CASE UnitsPresent(b) /\ os = "mac" ->
         <<Group(RestoreFiles(b), "raise")>> \o Register("skip")
    [] UnitsPresent(b) /\ os = "linux" ->
         <<Group(RestoreFiles(b), "raise"), Group(<<Plain("reload")>>, "skip")>> \o Register("skip")
    [] ~UnitsPresent(b) /\ os = "mac" ->
         <<Group(RestoreFiles(b) \o If(~b.wrapper, <<Plain("unwrap")>>)
                 \o If(~b.log, <<Plain("unlog")>>), "raise")>>
    [] OTHER ->
         <<Group(<<Plain("disable")>>, "skip"),
           Group(RestoreFiles(b) \o If(~b.link, <<Plain("unlink")>>), "skip"),
           Group(<<Plain("reload")>>, "skip")>>
         \o If(~b.wrapper \/ ~b.log,
               <<Group(If(~b.wrapper, <<Plain("unwrap")>>) \o If(~b.log, <<Plain("unlog")>>), "raise")>>)

\* The except branch of _remove, after the manager was reached or not.
UndoRemove(b, reached) ==
  IF os = "mac" THEN Register("skip")
  ELSE <<Group(RestoreFiles(b), "raise")>> \o (IF reached THEN Register("skip") ELSE <<>>)

Unregister == IF os = "mac" THEN Plain("bootout") ELSE Plain("stop")

Delete ==
  <<Group(IF os = "mac" THEN <<Write("plist", None)>>
          ELSE <<Write("service", None), Write("timer", None), Plain("unlink")>>, "raise")>>

-----------------------------------------------------------------------------
On   == [is |-> FALSE, warned |-> FALSE, reached |-> TRUE]
Idle == [kind |-> "none", before |-> None, reached |-> TRUE, retried |-> FALSE,
         warned |-> FALSE, error |-> FALSE, unrepaired |-> FALSE]

Installed(v, up) ==
  [file |-> [f \in Files |-> IF f \in Mine THEN v ELSE None], link |-> os = "linux",
   wrapper |-> TRUE, log |-> TRUE, marker |-> TRUE,
   utf8 |-> TRUE, loaded |-> [f \in Files |-> IF f \in Mine THEN v ELSE None], running |-> up,
   rival |-> "none"]

Fresh(rival) ==
  [file |-> NoFiles, link |-> FALSE, wrapper |-> FALSE, log |-> FALSE, marker |-> FALSE,
   utf8 |-> TRUE, loaded |-> NoFiles, running |-> FALSE, rival |-> rival]

Init ==
  /\ os \in {"linux", "mac"}
  /\ \/ \E v \in Versions, up \in BOOLEAN : host = Installed(v, up /\ os = "linux")
     \/ \E rival \in {"none", "running"} : host = Fresh(IF os = "mac" THEN "none" ELSE rival)
  /\ reach = TRUE /\ at = "idle" /\ todo = <<>> /\ op = Idle
  /\ cache = [value |-> FALSE, fresh |-> FALSE, gen |-> 0]
  /\ reader = [pc |-> "idle", gen |-> 0, value |-> FALSE]
  /\ off = On /\ since = {State(host)}
  /\ fails = 0 /\ acts = 0 /\ outside = 0

Seen == since' = since \cup {State(host')}
Rest == UNCHANGED <<os, reach, reader, outside>>

(***************************************************************************)
(* A change begins: apply (the user, or ensure_daemon_default when nothing *)
(* is decided), remove, and on a Mac set_schedule.                         *)
(***************************************************************************)
Start(kind, next, groups) ==
  /\ at = "idle" /\ acts < MaxActions /\ acts' = acts + 1
  /\ at' = next /\ todo' = groups
  /\ op' = [Idle EXCEPT !.kind = kind, !.before = host]
  /\ off' = On
  /\ UNCHANGED <<host, cache, since, fails>> /\ Rest

Apply(v) == Start("apply", "apply", WriteAll(v) \o Register("raise"))

TurnOn(v)        == ~State(host) /\ Apply(v)
\* decided() reads ~/.myshellrc strictly: of any other encoding it raises before the apply.
EnsureDefault(v) == host.utf8 /\ ~host.marker /\ Apply(v)

Reschedule(v) ==
  /\ os = "mac" /\ UnitsPresent(host)
  /\ Start("reschedule", "write", WriteAll(v))

\* The row when it is on, and the uninstall sweep when anything of ours is there.
Remove ==
  /\ State(host) \/ Owned(host)
  /\ Start("remove", "unregister", <<Group(<<Unregister>>, "raise")>>)

-----------------------------------------------------------------------------
(***************************************************************************)
(* Calls, one at a time, in any of the phases below.                       *)
(***************************************************************************)
AfterCall(groups) ==
  IF Len(groups[1].calls) = 1 THEN Tail(groups) ELSE [groups EXCEPT ![1].calls = Tail(@)]

Call ==
  /\ todo # <<>>
  /\ LET c == Head(Head(todo).calls) IN
     /\ c[1] \in Managed => reach
     /\ c[1] \in {"enable", "restart"} => host.loaded # NoFiles
     /\ c[1] = "record" => host.utf8
     /\ host' = Performed(host, c)
  /\ todo' = AfterCall(todo)
  /\ Seen /\ UNCHANGED <<at, op, cache, off, fails, acts>> /\ Rest

\* A call the manager cannot answer raises; any other may, MaxFailures times.
Raises ==
  /\ todo # <<>>
  /\ LET c == Head(Head(todo).calls) IN
     IF \/ c[1] \in Managed /\ ~reach
        \/ c[1] \in {"enable", "restart"} /\ host.loaded = NoFiles
       THEN fails' = fails ELSE fails < MaxFailures /\ fails' = fails + 1

Suppressed ==
  /\ Raises /\ Head(todo).onError = "skip" /\ todo' = Tail(todo)
  /\ op' = [op EXCEPT !.unrepaired = op.error]
  /\ UNCHANGED <<host, at, cache, off, since, acts>> /\ Rest

Ended(o) ==
  /\ at' = "ended" /\ todo' = <<>> /\ op' = o

\* apply: the except branch, and then the error goes on.
ApplyRaises ==
  /\ at = "apply" /\ Raises /\ Head(todo).onError = "raise"
  /\ at' = "undo" /\ todo' = UndoApply(op.before) /\ op' = [op EXCEPT !.error = TRUE]
  /\ UNCHANGED <<host, cache, off, since, acts>> /\ Rest

\* A reschedule that fails before it registers leaves what was there.
WriteRaises ==
  /\ at = "write" /\ Raises /\ Ended([op EXCEPT !.error = TRUE])
  /\ UNCHANGED <<host, cache, off, since, acts>> /\ Rest

Written ==
  /\ at = "write" /\ todo = <<>> /\ at' = "register" /\ todo' = Register("raise")
  /\ UNCHANGED <<host, op, cache, off, since, fails, acts>> /\ Rest

RegisterRaises ==
  /\ at = "register" /\ Raises /\ Head(todo).onError = "raise"
  /\ at' = "undo" /\ op' = [op EXCEPT !.error = TRUE]
  /\ todo' = <<Group(RestoreFiles(op.before), "raise")>> \o Register("skip")
  /\ UNCHANGED <<host, cache, off, since, acts>> /\ Rest

Rescheduled ==
  /\ at = "register" /\ todo = <<>> /\ Ended(op)
  /\ UNCHANGED <<host, cache, off, since, fails, acts>> /\ Rest

UndoRaises ==
  /\ at = "undo" /\ Raises /\ Head(todo).onError = "raise"
  /\ Ended([op EXCEPT !.unrepaired = TRUE])
  /\ UNCHANGED <<host, cache, off, since, acts>> /\ Rest

Undone ==
  /\ at = "undo" /\ todo = <<>> /\ Ended(op)
  /\ UNCHANGED <<host, cache, off, since, fails, acts>> /\ Rest

-----------------------------------------------------------------------------
(***************************************************************************)
(* After an apply: the decision, and the rival.                            *)
(***************************************************************************)
Registered ==
  /\ at = "apply" /\ todo = <<>>
  /\ at' = "record" /\ todo' = <<Group(<<Plain("record")>>, "raise")>>
  /\ UNCHANGED <<host, op, cache, off, since, fails, acts>> /\ Rest

\* _record_decided_durably: an OSError, once more, then a warning.
RecordRaises ==
  /\ at = "record" /\ Raises
  /\ IF op.retried THEN op' = [op EXCEPT !.warned = TRUE] /\ todo' = <<>>
     ELSE op' = [op EXCEPT !.retried = TRUE] /\ todo' = todo
  /\ UNCHANGED <<host, at, cache, off, since, acts>> /\ Rest

Recorded ==
  /\ at = "record" /\ todo = <<>>
  /\ IF op.kind = "apply" /\ os = "linux" THEN at' = "rival" /\ UNCHANGED <<todo, op, off>>
     ELSE /\ Ended(op)
          /\ off' = IF op.kind # "remove" THEN off
                    ELSE [is |-> TRUE, warned |-> op.warned, reached |-> op.reached]
  /\ UNCHANGED <<host, cache, since, fails, acts>> /\ Rest

\* record_decided reads the whole file strictly, and a UnicodeDecodeError is no OSError: it
\* leaves the record and the change, past every handler, and nothing is put back.
RecordEscapes ==
  /\ at = "record" /\ todo # <<>> /\ ~host.utf8 /\ at' = "escaped" /\ todo' = <<>>
  /\ UNCHANGED <<host, op, cache, off, since, fails, acts>> /\ Rest

\* _detect_and_take_over_competitors: an unreadable listing finds nothing.
TakeOver ==
  /\ at = "rival" /\ Ended(op)
  /\ \/ reach /\ host.rival = "running" /\ host' = [host EXCEPT !.rival = "disabled"]
     \/ UNCHANGED host
  /\ UNCHANGED <<cache, off, since, fails, acts>> /\ Rest

-----------------------------------------------------------------------------
(***************************************************************************)
(* remove.                                                                 *)
(***************************************************************************)
\* bootout: an error is real unless nothing is loaded, or systemd says so.
UnregisterRaises ==
  /\ at = "unregister" /\ Raises
  /\ \/ /\ IF os = "mac" THEN host.loaded # NoFiles ELSE reach /\ host.running
        /\ Ended([op EXCEPT !.error = TRUE])
     \/ /\ IF os = "mac" THEN host.loaded = NoFiles ELSE ~(reach /\ host.running)
        /\ todo' = <<>> /\ at' = at /\ op' = [op EXCEPT !.reached = os = "mac" \/ reach]
  /\ UNCHANGED <<host, cache, off, since, acts>> /\ Rest

Unregistered ==
  /\ at = "unregister" /\ todo = <<>> /\ at' = "delete" /\ todo' = Delete
  /\ UNCHANGED <<host, op, cache, off, since, fails, acts>> /\ Rest

DeleteRaises ==
  /\ at = "delete" /\ Raises
  /\ at' = "undo" /\ todo' = UndoRemove(op.before, op.reached)
  /\ op' = [op EXCEPT !.error = TRUE]
  /\ UNCHANGED <<host, cache, off, since, acts>> /\ Rest

Deleted ==
  /\ at = "delete" /\ todo = <<>> /\ at' = "clean"
  /\ todo' = If(os = "linux" /\ op.reached, <<Group(<<Plain("reload")>>, "skip")>>)
             \o <<Group(<<Plain("unwrap")>>, "skip")>>
  /\ UNCHANGED <<host, op, cache, off, since, fails, acts>> /\ Rest

\* Mutant of Cleaned: the decision is not recorded after a remove.
CleanedOnly ==
  /\ at = "clean" /\ todo = <<>> /\ at' = "record" /\ todo' = <<>>
  /\ UNCHANGED <<host, op, cache, off, since, fails, acts>> /\ Rest

Cleaned ==
  /\ at = "clean" /\ todo = <<>>
  /\ at' = "record" /\ todo' = <<Group(<<Plain("record")>>, "raise")>>
  /\ UNCHANGED <<host, op, cache, off, since, fails, acts>> /\ Rest

\* The finally clause: the cache is invalid whatever happened.
Return ==
  /\ at \in {"ended", "escaped"} /\ at' = "idle" /\ op' = Idle
  /\ cache' = [cache EXCEPT !.fresh = FALSE, !.gen = @ + 1]
  /\ since' = {State(host)}
  /\ UNCHANGED <<host, todo, off, fails, acts>> /\ Rest

-----------------------------------------------------------------------------
(***************************************************************************)
(* _ProbeCache.read: the probe runs outside the lock.                      *)
(***************************************************************************)
ReadBegins ==
  /\ os = "linux" /\ reader.pc = "idle" /\ ~cache.fresh
  /\ reader' = [pc |-> "probe", gen |-> cache.gen, value |-> FALSE]
  /\ UNCHANGED <<os, host, reach, at, todo, op, cache, off, since, fails, acts, outside>>

Probe ==
  /\ reader.pc = "probe" /\ reader' = [reader EXCEPT !.pc = "store", !.value = State(host)]
  /\ UNCHANGED <<os, host, reach, at, todo, op, cache, off, since, fails, acts, outside>>

Store ==
  /\ reader.pc = "store" /\ reader' = [reader EXCEPT !.pc = "idle"]
  /\ cache' = IF reader.gen # cache.gen THEN cache
              ELSE [cache EXCEPT !.value = reader.value, !.fresh = TRUE]
  /\ UNCHANGED <<os, host, reach, at, todo, op, off, since, fails, acts, outside>>

Expire ==
  /\ cache.fresh /\ cache' = [cache EXCEPT !.fresh = FALSE]
  /\ UNCHANGED <<os, host, reach, at, todo, op, reader, off, since, fails, acts, outside>>

(***************************************************************************)
(* Others: a new login, the user's own systemctl, a manager that stops     *)
(* answering, and a kill.                                                  *)
(***************************************************************************)
Elsewhere == outside < MaxOutside /\ outside' = outside + 1

Login ==
  /\ at = "idle" /\ Elsewhere /\ reach' = TRUE
  /\ host' = [host EXCEPT !.loaded = Read(host), !.running = host.link /\ UnitsPresent(host)]
  /\ Seen /\ UNCHANGED <<os, at, todo, op, cache, reader, off, fails, acts>>

UserStops ==
  /\ os = "linux" /\ at = "idle" /\ Elsewhere /\ reach
  /\ \E c \in {"disable", "stop"} : host' = Performed(host, Plain(c))
  /\ Seen /\ UNCHANGED <<os, reach, at, todo, op, cache, reader, off, fails, acts>>

LoseManager ==
  /\ os = "linux" /\ Elsewhere /\ reach /\ reach' = FALSE
  /\ UNCHANGED <<os, host, at, todo, op, cache, reader, off, since, fails, acts>>

\* An editor saves ~/.myshellrc in another encoding, or as UTF-8 again.
Reencode ==
  /\ Elsewhere /\ host' = [host EXCEPT !.utf8 = ~@]
  /\ UNCHANGED <<os, reach, at, todo, op, cache, reader, off, since, fails, acts>>

Kill ==
  /\ at \notin {"idle", "ended", "escaped"} /\ at' = "idle" /\ todo' = <<>> /\ op' = Idle
  /\ cache' = [value |-> FALSE, fresh |-> FALSE, gen |-> 0]
  /\ reader' = [pc |-> "idle", gen |-> 0, value |-> FALSE] /\ since' = {State(host)}
  /\ UNCHANGED <<os, host, reach, off, fails, acts, outside>>

Next ==
  \/ Remove \/ Call \/ Suppressed \/ ApplyRaises \/ WriteRaises \/ Written \/ RegisterRaises \/ Rescheduled
  \/ UndoRaises \/ Undone \/ Registered \/ RecordRaises \/ RecordEscapes \/ Recorded \/ TakeOver
  \/ UnregisterRaises \/ Unregistered \/ DeleteRaises \/ Deleted \/ Cleaned \/ Return
  \/ ReadBegins \/ Probe \/ Store \/ Expire \/ Login \/ UserStops \/ LoseManager
  \/ Reencode \/ Kill
  \/ \E v \in Versions : TurnOn(v) \/ EnsureDefault(v) \/ Reschedule(v)

Spec == Init /\ [][Next]_vars

-----------------------------------------------------------------------------
Contents == Versions \cup {None}

TypeOK ==
  /\ host.file \in [Files -> Contents] /\ host.loaded \in [Files -> Contents]
  /\ host.rival \in {"none", "running", "disabled"}
  /\ at \in {"idle", "apply", "write", "register", "undo", "record", "rival", "unregister",
             "delete", "clean", "ended", "escaped"}
  /\ \A i \in DOMAIN todo : todo[i].calls # <<>> /\ todo[i].onError \in {"raise", "skip"}
  /\ since \subseteq BOOLEAN /\ since # {}
  /\ fails \in 0..MaxFailures /\ acts \in 0..MaxActions /\ outside \in 0..MaxOutside

\* What is registered is what the files say.
Agree(h) == h.loaded = Read(h)

\* Nothing is left to bring the daemon back and, of a manager that was reached, to run it.
Removed(h, reached) ==
  /\ h.file = NoFiles /\ ~h.link
  /\ reached => ~h.running /\ (os = "mac" => h.loaded = NoFiles)

(***************************************************************************)
(* An apply, a remove or a reschedule that raised leaves the files as they *)
(* were, and the registration in agreement with them, unless a call of its *)
(* own recovery raised too or the manager was out of reach; and a first    *)
(* apply leaves nothing that it created.  The exception is an error that   *)
(* puts nothing back: the record's UnicodeDecodeError escapes the change.  *)
(* It never leaves half of one, though: an apply that ends this way has    *)
(* written and registered everything, and a remove has deleted everything. *)
(***************************************************************************)
FailureRestores ==
  /\ at = "ended" /\ op.error /\ ~op.unrepaired /\ Agree(op.before) =>
       /\ host.file = op.before.file
       /\ reach => Agree(host)
       /\ op.kind = "apply" /\ ~UnitsPresent(op.before) =>
            /\ host.wrapper = op.before.wrapper /\ host.log = op.before.log
            /\ host.link => op.before.link
  /\ at = "escaped" =>
       \/ op.kind = "apply" /\ UnitsPresent(host) /\ Agree(host) /\ host.wrapper
          /\ (os = "linux" => host.link /\ host.running)
       \/ op.kind = "remove" /\ Removed(host, op.reached)

(***************************************************************************)
(* A daemon that was turned off is off and stays off: no file brings it    *)
(* back at the next login, and the next launch does not apply the default  *)
(* again.  Where one of these fails the user was warned: of a manager out  *)
(* of reach, and of a decision that was not recorded.                      *)
(***************************************************************************)
OffStaysOff ==
  off.is => /\ Removed(host, off.reached)
            /\ off.warned \/ host.marker

(***************************************************************************)
(* Another cleanup job is disabled only while ours is registered and       *)
(* running: a machine never ends up with none (D-02).                      *)
(***************************************************************************)
RivalYields == host'.rival # host.rival => host.running /\ host.link /\ UnitsPresent(host)

(***************************************************************************)
(* A memoised timer state that counts as fresh is one the timer has had    *)
(* since the last change ended: a probe that began before it and answers   *)
(* after it is not stored (WR-03).                                         *)
(***************************************************************************)
CacheIsCurrent == cache.fresh => cache.value \in since
=============================================================================
