------------------------------- MODULE Screens -------------------------------
(***************************************************************************)
(* The wizard's event loop (wizard_app.py, with execute_screen.py and      *)
(* catalog_tui.py): one thread handles keys and messages, one handler at a *)
(* time, while worker threads change the machine, refresh the tool state   *)
(* or read it, and report back with a message.                             *)
(*                                                                         *)
(* A worker is "running" until its thread is through and "posted" until    *)
(* its message is handled.  The version service is the one of module       *)
(* Refresh, seen from outside: invalidate() makes every published state    *)
(* read as still being checked, and drops the pass under way.  Counters    *)
(* that are only compared are flags: the epoch of the published states and *)
(* of a pass (still the service's?), the generation of a read (the current *)
(* one's?), what an audit of pnpm's globals saw (the last reinstall?).     *)
(***************************************************************************)
EXTENDS Naturals, FiniteSets

CONSTANTS
  MaxMutations,   \* worker mutations the user and the launch begin
  MaxEscapes,     \* waits for the state check the user cancels
  KeysRace,       \* TRUE: a key is handled between two hops of one message
  Tours,          \* the sets of views a session goes to
  Unknown         \* what a read that failed knows: a blank cell

Views == {"catalog", "doctor", "uninstall", "policies"}

ASSUME BoundsAssumption ==
  /\ MaxMutations \in Nat /\ MaxEscapes \in Nat /\ KeysRace \in BOOLEAN
  /\ Unknown \notin BOOLEAN /\ Tours \subseteq SUBSET Views

Workers == {"daemon", "toggle", "update", "install", "removal", "globals"}
Answers == BOOLEAN \cup {Unknown}

VARIABLES
  tour,       \* the views this session goes to
  app,        \* up, waiting (the quit waits for a removal's thread), over, exited, ...
  holder,     \* _mutation_holder: the worker it names, or "none"
  work,       \* every worker: idle, running, posted (install: bubbling)
  said,       \* what the holder's worker, or its message, carries
  begun,      \* how many mutations have begun
  ui,         \* current_view, the modal on top of it, and what it shows
  current,    \* the published states are of the service's epoch
  pass,       \* the refresh worker, _refresh_pending, RefreshRequested posted
  ex,         \* the ExecuteScreen
  waiters, settled, \* _publication_waiters; the StateSettled messages posted
  job,        \* the machine's scheduled job
  row, reads, \* its row on Policies; the job-state reads in flight
  doctor, audits  \* Doctor's globals report; its audits in flight

lock    == <<holder, work, said, begun>>
plan    == <<ex, waiters, settled>>
service == <<current, pass>>
policy  == <<row, reads>>
globals == <<doctor, audits>>
vars == <<tour, app, lock, ui, service, plan, job, policy, globals>>

\* A read in flight: of the current generation or not, and what it saw at its start.
Read == [fresh : BOOLEAN, val : BOOLEAN]

TypeOK ==
  /\ tour \in Tours
  /\ app \in {"up", "waiting", "over", "exited", "cut", "crashed"}
  /\ holder \in Workers \cup {"none"}
  /\ work \in [Workers -> {"idle", "running", "posted", "bubbling"}]
  /\ said \in Answers /\ begun \in 0..MaxMutations + 1
  /\ ui \in [view : Views, shown : BOOLEAN,
             modal : {"none", "deciding", "execute", "confirm", "time"}]
  /\ current \in BOOLEAN /\ job \in BOOLEAN
  /\ pass \in [at : {"idle", "asked", "reading", "published", "finished"},
               valid : BOOLEAN, error : BOOLEAN, pending : BOOLEAN, asked : BOOLEAN]
  /\ ex \in [started : {"no", "posted", "yes"}, finished : BOOLEAN, ran : BOOLEAN,
             wanted : BOOLEAN, cancelled : BOOLEAN, waiting : BOOLEAN,
             token : 0..MaxEscapes, wait : BOOLEAN]
  /\ waiters \subseteq 0..MaxEscapes
  /\ settled \subseteq [token : 0..MaxEscapes, error : BOOLEAN]
  /\ row \in Answers /\ reads \subseteq Read
  /\ doctor \in [report : Answers, auditing : BOOLEAN, done : BOOLEAN]
  /\ audits \subseteq Read

Closed == [started |-> "no", finished |-> FALSE, ran |-> FALSE, wanted |-> FALSE,
           cancelled |-> FALSE, waiting |-> FALSE, token |-> 0, wait |-> FALSE]

Idle == [at |-> "idle", valid |-> FALSE, error |-> FALSE, pending |-> FALSE, asked |-> FALSE]

Unasked == [report |-> Unknown, auditing |-> FALSE, done |-> FALSE]

\* on_mount: the launch pass is asked for, and the launch daemon apply, when it
\* is wired, has held the lock since the constructor.
Init ==
  /\ tour \in Tours /\ app = "up"
  /\ \/ holder = "none" /\ work = [w \in Workers |-> "idle"] /\ begun = 0
     \/ /\ MaxMutations > 0 /\ begun = 1
        /\ holder = "daemon"
        /\ work = [w \in Workers |-> IF w = "daemon" THEN "running" ELSE "idle"]
  /\ said = Unknown
  /\ ui = [view |-> "catalog", modal |-> "none", shown |-> FALSE]
  /\ current = FALSE
  /\ pass = [Idle EXCEPT !.at = "asked"]
  /\ ex = Closed /\ waiters = {} /\ settled = {}
  /\ job \in BOOLEAN /\ row = Unknown /\ reads = {}
  /\ doctor = Unasked
  /\ audits = {}

Up          == app \in {"up", "waiting", "over"}
Quitting    == app \in {"waiting", "over"}

\* A key press: between the hops of a message only when KeysRace.
Hopping == \/ ui.modal = "deciding" \/ ex.started = "posted"
           \/ work["install"] = "bubbling" \/ pass.asked
Key         == Up /\ (KeysRace \/ ~Hopping)
OnScreen(v) == Key /\ ui.view = v /\ ui.modal = "none"
Free        == holder = "none"

-----------------------------------------------------------------------------
(***************************************************************************)
(* Rendering.  A superseded read keeps running; its answer is dropped when *)
(* it lands.                                                               *)
(***************************************************************************)
Superseded(S)     == {[r EXCEPT !.fresh = FALSE] : r \in S}
Restarted(S, val) == Superseded(S) \cup {[fresh |-> TRUE, val |-> val]}

\* state_refreshed of a view: the published state, and on Policies a read of the
\* scheduled jobs, whose row keeps its last answer meanwhile.
StateRefreshed(view) ==
  /\ ui' = [view EXCEPT !.shown = TRUE]
  /\ reads' = IF view.view = "policies" THEN Restarted(reads, job') ELSE reads

\* _render_published: the visible view only; one under a modal waits for its resume.
RenderPublished ==
  IF ui.modal \in {"none", "deciding"} THEN StateRefreshed(ui) ELSE UNCHANGED <<ui, reads>>

\* on_screen_resume: a modal closed over the view.
Resumed == StateRefreshed([ui EXCEPT !.modal = "none"])

StartAudit(d) ==
  /\ doctor' = [d EXCEPT !.auditing = TRUE]
  /\ audits' = Restarted(audits, TRUE)

\* show_view and enter_view.
ShowView(v) ==
  /\ Key /\ ui.modal = "none" /\ v \in tour \ {ui.view}
  /\ UNCHANGED job
  /\ StateRefreshed([ui EXCEPT !.view = v])
  /\ row' = IF v = "policies" THEN Unknown ELSE row
  /\ IF v = "doctor" /\ work["globals"] = "idle" THEN StartAudit(doctor)
                                                 ELSE UNCHANGED globals
  /\ UNCHANGED <<tour, app, lock, service, plan>>

-----------------------------------------------------------------------------
(***************************************************************************)
(* The refresh pass.                                                       *)
(***************************************************************************)

\* Mutant of RequestRefresh: a request during a pass is answered by that pass.
RequestDropped(p) == IF p.at = "idle" THEN [p EXCEPT !.at = "asked"] ELSE p

RequestRefresh(p) == IF p.at = "idle" THEN [p EXCEPT !.at = "asked"]
                                      ELSE [p EXCEPT !.pending = TRUE]

\* RefreshRequested, posted by a refusal or by Doctor.
Ask(p) == [p EXCEPT !.asked = TRUE]

\* invalidate(): what was published reads as unknown, the pass under way is dropped.
Invalidated == current' = FALSE /\ pass' = [pass EXCEPT !.valid = FALSE]

OnRefreshRequested ==
  /\ Up /\ pass.asked
  /\ pass' = RequestRefresh([pass EXCEPT !.asked = FALSE])
  /\ UNCHANGED <<tour, app, lock, ui, current, plan, job, policy, globals>>

PassBegins ==
  /\ Up /\ pass.at = "asked"
  /\ pass' = [pass EXCEPT !.at = "reading", !.valid = TRUE]
  /\ UNCHANGED <<tour, app, lock, ui, current, plan, job, policy, globals>>

\* A pass an invalidate() overtook publishes nothing, and is no error.
PassPublishes ==
  /\ Up /\ pass.at = "reading"
  /\ pass' = [pass EXCEPT !.at = "published", !.error = FALSE, !.valid = FALSE]
  /\ current' = (current \/ pass.valid)
  /\ ui' = [ui EXCEPT !.shown = @ /\ ~pass.valid]
  /\ UNCHANGED <<tour, app, lock, plan, job, policy, globals>>

PassFails ==
  /\ Up /\ pass.at = "reading"
  /\ pass' = [pass EXCEPT !.at = "published", !.error = TRUE, !.valid = FALSE]
  /\ UNCHANGED <<tour, app, lock, ui, current, plan, job, policy, globals>>

\* Its message comes behind one that already bubbles: the app's queue is in order.
OnRefreshPublished ==
  /\ Up /\ pass.at = "published" /\ work["install"] # "bubbling"
  /\ pass' = [pass EXCEPT !.at = "finished"]
  /\ UNCHANGED job /\ RenderPublished
  /\ UNCHANGED <<tour, app, lock, current, plan, row, globals>>

\* The waiters hear of the pass.
Answered ==
  /\ settled' = settled \cup {[token |-> t, error |-> pass.error] : t \in waiters}
  /\ waiters' = {}

\* Mutant of OnRefreshFinished: a failed pass leaves its waiters waiting.
OnlySuccessAnswers ==
  /\ Up /\ pass.at = "finished"
  /\ IF pass.pending /\ ~Quitting
       THEN pass' = [pass EXCEPT !.at = "asked", !.pending = FALSE]
       ELSE pass' = [pass EXCEPT !.at = "idle", !.pending = FALSE]
  /\ IF pass'.at = "idle" /\ ~pass.error THEN Answered ELSE UNCHANGED <<waiters, settled>>
  /\ UNCHANGED <<tour, app, lock, ui, current, ex, job, policy, globals>>

\* One more pass when one was asked for meanwhile; the waiters hear of the last.
OnRefreshFinished ==
  /\ Up /\ pass.at = "finished"
  /\ IF pass.pending /\ ~Quitting
       THEN pass' = [pass EXCEPT !.at = "asked", !.pending = FALSE]
            /\ UNCHANGED <<waiters, settled>>
       ELSE pass' = [pass EXCEPT !.at = "idle", !.pending = FALSE] /\ Answered
  /\ UNCHANGED <<tour, app, lock, ui, current, ex, job, policy, globals>>

-----------------------------------------------------------------------------
(***************************************************************************)
(* The mutation lock.                                                      *)
(***************************************************************************)
Begin(w, words) ==
  /\ begun < MaxMutations /\ begun' = begun + 1
  /\ holder' = w
  /\ work' = [work EXCEPT ![w] = "running"]
  /\ said' = words

\* The thread of w is through and posts its message.
Posts(w, words) ==
  /\ Up /\ work[w] = "running"
  /\ work' = [work EXCEPT ![w] = "posted"]
  /\ said' = words
  /\ UNCHANGED <<holder, begun>>

\* end_mutation, in the handler of that message.
End(w) ==
  /\ Up /\ work[w] = "posted"
  /\ holder' = "none"
  /\ work' = [work EXCEPT ![w] = "idle"]
  /\ said' = Unknown
  /\ UNCHANGED begun

\* The process is gone: what its screens held goes with it, its threads do not.
Leaves(how) ==
  /\ app' = how
  /\ ui' = [view |-> "catalog", modal |-> "none", shown |-> FALSE]
  /\ current' = FALSE /\ pass' = Idle
  /\ ex' = Closed /\ waiters' = {} /\ settled' = {}
  /\ row' = Unknown /\ reads' = {} /\ doctor' = Unasked /\ audits' = {}
  /\ UNCHANGED <<tour, lock, job>>

\* refuse_if_mutating: a mutating key while the lock is held.
Refused ==
  /\ Key /\ ui.modal = "none" /\ ~Free /\ ~pass.asked
  /\ pass' = Ask(pass)
  /\ UNCHANGED <<tour, app, lock, ui, current, plan, job, policy, globals>>

-----------------------------------------------------------------------------
(***************************************************************************)
(* The launch daemon apply and the scheduled job's row on Policies.        *)
(***************************************************************************)
DaemonWorks ==
  /\ \E on \in {job, TRUE} :
       job' = on /\ \E live \in {on, Unknown} : Posts("daemon", live)
  /\ UNCHANGED <<tour, app, ui, service, plan, policy, globals>>

\* refresh_daemon_state: an answer that could not be resolved keeps the row, and
\* every older read is superseded; a visible Uninstall or catalog is repainted.
OnDaemonDefaultApplied ==
  /\ End("daemon")
  /\ row' = IF said = Unknown THEN row ELSE said
  /\ \/ reads' = Restarted(reads, job)
     \/ ui.view # "policies" /\ reads' = Superseded(reads)   \* Policies never mounted
  /\ ui' = IF ui.view # "policies" /\ ui.modal \in {"none", "deciding"}
             THEN [ui EXCEPT !.shown = TRUE] ELSE ui
  /\ UNCHANGED <<tour, app, service, plan, job, globals>>

\* action_toggle_policy on a scheduled job: the worker turns what the row shows.
ToggleJob ==
  /\ OnScreen("policies") /\ Free /\ row # Unknown
  /\ Begin("toggle", row)
  /\ UNCHANGED <<tour, app, ui, service, plan, job, policy, globals>>

\* A failed change leaves the job as it was or changed.
ToggleWorks ==
  /\ Up /\ work["toggle"] = "running"
  /\ \/ Posts("toggle", ~said) /\ job' = ~said
     \/ Posts("toggle", Unknown) /\ job' \in BOOLEAN
  /\ UNCHANGED <<tour, app, ui, service, plan, policy, globals>>

\* Mutant of OnPolicyToggled: only a change that went through asks for a pass.
ToggledRefreshesIfDone ==
  /\ End("toggle")
  /\ row' = IF said = Unknown THEN row ELSE said
  /\ reads' = Superseded(reads)
  /\ pass' = IF said = Unknown THEN pass ELSE RequestRefresh(pass)
  /\ UNCHANGED <<tour, app, ui, current, plan, job, globals>>

\* _finish_toggle: a failed change keeps the row, and the pass it asks for
\* reads the job again.
OnPolicyToggled ==
  /\ End("toggle")
  /\ row' = IF said = Unknown THEN row ELSE said
  /\ reads' = Superseded(reads)
  /\ pass' = RequestRefresh(pass)
  /\ UNCHANGED <<tour, app, ui, current, plan, job, globals>>

\* t: the picker opens over a free lock ...
PickTime ==
  /\ OnScreen("policies") /\ Free /\ row = TRUE
  /\ ui' = [ui EXCEPT !.modal = "time"]
  /\ UNCHANGED <<tour, app, lock, service, plan, job, policy, globals>>

\* ... and its answer looks at the lock again; a failed change may stop the job.
TimePicked ==
  /\ Key /\ ui.modal = "time"
  /\ IF Free THEN job' \in {job, FALSE} /\ UNCHANGED pass
             ELSE UNCHANGED job /\ pass' = Ask(pass)
  /\ Resumed
  /\ UNCHANGED <<tour, app, lock, current, plan, row, globals>>

\* on_job_states_read: only of the current generation; read at any time since.
OnJobStatesRead ==
  /\ Up
  /\ \E r \in reads, answer \in Answers :
       /\ answer \in {r.val, job, Unknown}
       /\ reads' = reads \ {r}
       /\ row' = IF r.fresh THEN answer ELSE row
  /\ UNCHANGED <<tour, app, lock, ui, service, plan, job, globals>>

-----------------------------------------------------------------------------
(***************************************************************************)
(* The Doctor screen: the audit of pnpm's globals and their reinstall.     *)
(***************************************************************************)

\* Mutant of OnGlobalsAudited: the answer of a superseded audit is taken.
AuditedAnyGeneration ==
  /\ Up
  /\ \E r \in audits, answer \in {TRUE, Unknown} \cup {s.val : s \in audits} :
       /\ answer \in {r.val, TRUE, Unknown}
       /\ audits' = audits \ {r}
       /\ doctor' = [doctor EXCEPT !.report = answer, !.auditing = FALSE]
       /\ UNCHANGED pass
  /\ UNCHANGED <<tour, app, lock, ui, current, plan, job, policy>>

\* Evidence that changed what is stored asks for a pass.
OnGlobalsAudited ==
  /\ Up
  /\ \E r \in audits, answer \in Answers :
       /\ answer \in {r.val, TRUE, Unknown}
       /\ audits' = audits \ {r}
       /\ IF r.fresh
            THEN /\ doctor' = [doctor EXCEPT !.report = answer, !.auditing = FALSE]
                 /\ pass' \in {pass} \cup (IF answer # Unknown /\ ~Quitting
                                             THEN {RequestRefresh(pass)} ELSE {})
            ELSE UNCHANGED <<doctor, pass>>
  /\ UNCHANGED <<tour, app, lock, ui, current, plan, job, policy>>

\* r, refused while an audit is under way, before one or when it read nothing.
ReinstallGlobals ==
  /\ OnScreen("doctor") /\ Free /\ ~doctor.done
  /\ IF doctor.auditing
       THEN ~pass.asked /\ pass' = Ask(pass) /\ UNCHANGED <<lock, globals>>
     ELSE IF doctor.report = Unknown
       THEN StartAudit(doctor) /\ pass' = Ask(pass) /\ UNCHANGED lock
     ELSE Begin("globals", Unknown) /\ UNCHANGED <<pass, globals>>
  /\ UNCHANGED <<tour, app, ui, current, plan, job, policy>>

\* pnpm may write before it fails, so the cache is invalidated either way; what
\* an audit saw before is no longer what pnpm has.
ReinstallWorks ==
  /\ \E ok \in BOOLEAN : Posts("globals", ok)
  /\ Invalidated
  /\ audits' = {[r EXCEPT !.val = FALSE] : r \in audits}
  /\ doctor' = [doctor EXCEPT !.report = IF @ = Unknown THEN @ ELSE FALSE]
  /\ UNCHANGED <<tour, app, ui, plan, job, policy>>

OnGlobalsReinstalled ==
  /\ End("globals")
  /\ StartAudit([doctor EXCEPT !.done = said])
  /\ pass' = Ask(pass)
  /\ UNCHANGED <<tour, app, ui, current, plan, job, policy>>

-----------------------------------------------------------------------------
(***************************************************************************)
(* A direct update, u on a catalog row.                                    *)
(***************************************************************************)
\* Mutant of UpdateTool: the key does not look at the lock.
UpdateUnguarded ==
  /\ Key /\ ui.view = "catalog" /\ ui.modal \in {"none", "deciding"}
  /\ current /\ Begin("update", Unknown) /\ UNCHANGED pass
  /\ UNCHANGED <<tour, app, ui, current, plan, job, policy, globals>>

UpdateTool ==
  /\ Key /\ ui.view = "catalog" /\ ui.modal \in {"none", "deciding"} /\ Free
  /\ \/ ~pass.asked /\ pass' = Ask(pass) /\ UNCHANGED lock   \* its state forbids it
     \/ current /\ Begin("update", Unknown) /\ UNCHANGED pass
  /\ UNCHANGED <<tour, app, ui, current, plan, job, policy, globals>>

\* run() invalidates when it changed something, also when it then failed.
UpdateWorks ==
  /\ Posts("update", Unknown)
  /\ Invalidated \/ UNCHANGED service
  /\ UNCHANGED <<tour, app, ui, plan, job, policy, globals>>

OnToolUpdated ==
  /\ End("update")
  /\ UNCHANGED job /\ RenderPublished
  /\ pass' = RequestRefresh(pass)
  /\ UNCHANGED <<tour, app, current, plan, row, globals>>

-----------------------------------------------------------------------------
(***************************************************************************)
(* The install run: the catalog's accept, the ExecuteScreen, its close.    *)
(***************************************************************************)
Replanned(e) == [e EXCEPT !.wait = ~current]   \* a WAIT row

\* _await_state: join the pass under way or start one.
Awaiting(e) ==
  IF e.waiting THEN ex' = e /\ UNCHANGED <<waiters, pass>>
  ELSE /\ ex' = [e EXCEPT !.waiting = TRUE]
       /\ waiters' = waiters \cup {e.token}
       /\ pass' = IF pass.at = "idle" THEN RequestRefresh(pass) ELSE pass

\* Decided pushes the ExecuteScreen; a row with no state yet starts its wait.
Opened ==
  /\ ui' = [ui EXCEPT !.modal = "execute"]
  /\ settled' = {}
  /\ IF current THEN ex' = Closed /\ UNCHANGED <<waiters, pass>>
                ELSE Awaiting(Replanned(Closed))

Accept ==
  /\ OnScreen("catalog") /\ Free /\ begun < MaxMutations
  /\ ui' = [ui EXCEPT !.modal = "deciding"]
  /\ UNCHANGED <<tour, app, lock, service, plan, job, policy, globals>>

Decided ==
  /\ Up /\ ui.modal = "deciding"
  /\ Opened
  /\ UNCHANGED <<tour, app, lock, current, job, policy, globals>>

\* _begin_run: the worker starts and InstallRunStarted is posted.
Started(e) ==
  /\ ex' = [e EXCEPT !.started = "posted"]
  /\ begun' = begun + 1
  /\ work' = [work EXCEPT !["install"] = "running"]
  /\ UNCHANGED <<holder, said>>

\* enter, before the run.
Enter ==
  /\ Key /\ ui.modal = "execute" /\ ex.started = "no"
  /\ LET e == IF ex.cancelled THEN [ex EXCEPT !.cancelled = FALSE] ELSE Replanned(ex)
     IN  IF ~e.wait THEN Started(e) /\ UNCHANGED <<waiters, pass>>
         ELSE /\ IF e.wanted THEN ex' = e /\ UNCHANGED <<waiters, pass>>
                             ELSE Awaiting([e EXCEPT !.wanted = TRUE])
              /\ UNCHANGED lock
  /\ UNCHANGED <<tour, app, ui, current, settled, job, policy, globals>>

\* The answer e's wait was for.
Settles(e, error) ==
  IF e.started = "no" /\ ~error /\ e.wanted /\ ~Replanned(e).wait
    THEN Started([Replanned(e) EXCEPT !.waiting = FALSE, !.wanted = FALSE])
    ELSE /\ ex' = [(IF error THEN e ELSE Replanned(e))
                     EXCEPT !.waiting = FALSE, !.wanted = FALSE]
         /\ UNCHANGED lock

\* on_state_settled: the answer to a wait that was cancelled is dropped.
OnStateSettled ==
  /\ Up /\ ui.modal = "execute"
  /\ \E m \in settled :
       /\ settled' = settled \ {m}
       /\ IF m.token = ex.token THEN Settles(ex, m.error) ELSE UNCHANGED <<ex, lock>>
  /\ UNCHANGED <<tour, app, ui, service, waiters, job, policy, globals>>

\* esc while the start waits for the state check.
CancelWait ==
  /\ Key /\ ui.modal = "execute" /\ ex.wanted /\ ex.token < MaxEscapes
  /\ ex' = [ex EXCEPT !.token = @ + 1, !.waiting = FALSE, !.wanted = FALSE,
                      !.cancelled = TRUE]
  /\ UNCHANGED <<tour, app, lock, ui, service, waiters, settled, job, policy, globals>>

\* The second take raises in a message handler: the app goes down.
OnInstallRunStarted ==
  /\ Up /\ ex.started = "posted"
  /\ IF Free THEN /\ holder' = "install"
                  /\ ex' = [ex EXCEPT !.started = "yes"]
                  /\ UNCHANGED <<tour, app, work, said, begun, ui, service, waiters,
                                 settled, job, policy, globals>>
             ELSE Leaves("crashed")

\* The run's rows; an UPDATE row that ran has invalidated by then.
\* (InstallRunStarted is posted first, and its handler runs first.)
InstallWorks ==
  /\ ex.started = "yes"
  /\ \E ran \in BOOLEAN :
       /\ Posts("install", ran)
       /\ UNCHANGED service \/ (ran /\ Invalidated)
  /\ UNCHANGED <<tour, app, ui, plan, job, policy, globals>>

\* The screen's handler; the message bubbles on to the app.
ScreenRunFinished ==
  /\ Up /\ work["install"] = "posted"
  /\ ex' = [ex EXCEPT !.finished = TRUE, !.ran = said]
  /\ work' = [work EXCEPT !["install"] = "bubbling"]
  /\ UNCHANGED <<tour, app, holder, said, begun, ui, service, waiters, settled, job, policy, globals>>

\* The app's, after the screen's.
OnInstallRunFinished ==
  /\ Up /\ work["install"] = "bubbling"
  /\ holder' = "none" /\ said' = Unknown
  /\ work' = [work EXCEPT !["install"] = "idle"]
  /\ IF said THEN Invalidated ELSE UNCHANGED service
  /\ UNCHANGED <<tour, app, begun, ui, plan, job, policy, globals>>

\* enter or esc once finished, esc before a run: _install_closed.
Close ==
  /\ Key /\ ui.modal = "execute"
  /\ ex.finished \/ (ex.started = "no" /\ ~ex.wanted)
  /\ ex' = Closed /\ waiters' = {} /\ settled' = {}
  /\ UNCHANGED job /\ Resumed
  /\ pass' = IF ex.finished /\ ex.ran THEN RequestRefresh(pass) ELSE pass
  /\ UNCHANGED <<tour, app, lock, current, row, globals>>

-----------------------------------------------------------------------------
(***************************************************************************)
(* The removal, and the quit that waits for it.                            *)
(***************************************************************************)
AskRemoval ==
  /\ OnScreen("uninstall") /\ Free
  /\ ui' = [ui EXCEPT !.modal = "confirm"]
  /\ UNCHANGED <<tour, app, lock, service, plan, job, policy, globals>>

\* _apply_removal looks at the lock again: the modal can outlive its first look.
ConfirmRemoval ==
  /\ Key /\ ui.modal = "confirm"
  /\ IF Free THEN Begin("removal", Unknown) /\ UNCHANGED pass
             ELSE pass' = Ask(pass) /\ UNCHANGED lock
  /\ UNCHANGED job /\ Resumed
  /\ UNCHANGED <<tour, app, current, plan, row, globals>>

CancelRemoval ==
  /\ Key /\ ui.modal = "confirm"
  /\ UNCHANGED job /\ Resumed
  /\ UNCHANGED <<tour, app, lock, service, plan, row, globals>>

\* Tools, with the invalidate behind them, and the environment rows.
RemovalWorks ==
  /\ Posts("removal", Unknown)
  /\ job' \in {job, FALSE}
  /\ Invalidated \/ UNCHANGED service
  /\ app' = IF app = "waiting" THEN "over" ELSE app
  /\ UNCHANGED <<tour, ui, plan, policy, globals>>

OnRemovalFinished ==
  /\ End("removal")
  /\ pass' = IF Quitting THEN pass ELSE RequestRefresh(pass)
  /\ UNCHANGED <<tour, app, ui, current, plan, job, policy, globals>>

\* q, ctrl+q, and ctrl+c the first time: exit, or wait for the removal's thread.
Quit ==
  /\ Key
  /\ IF holder # "removal" THEN Leaves("exited")
     ELSE /\ app' = IF work["removal"] = "running" THEN "waiting" ELSE "over"
          /\ UNCHANGED <<tour, lock, ui, service, plan, job, policy, globals>>

\* ctrl+c again.
HardAbort == Quitting /\ holder = "removal" /\ Leaves("cut")

\* _exit_when_done.
ExitWhenDone == app = "over" /\ Leaves("exited")

-----------------------------------------------------------------------------
Pass == PassBegins \/ PassPublishes \/ PassFails \/ OnRefreshPublished \/ OnRefreshFinished

Threads ==
  \/ DaemonWorks \/ ToggleWorks \/ UpdateWorks \/ InstallWorks \/ RemovalWorks
  \/ ReinstallWorks

Messages ==
  \/ OnRefreshRequested \/ OnDaemonDefaultApplied \/ OnPolicyToggled \/ OnJobStatesRead
  \/ OnGlobalsAudited \/ OnGlobalsReinstalled \/ OnToolUpdated
  \/ Decided \/ OnInstallRunStarted \/ ScreenRunFinished \/ OnInstallRunFinished
  \/ OnRemovalFinished \/ ExitWhenDone

Keys ==
  \/ \E v \in Views : ShowView(v)
  \/ Refused \/ ToggleJob \/ PickTime \/ TimePicked \/ ReinstallGlobals
  \/ UpdateTool \/ Accept \/ Enter \/ CancelWait \/ Close
  \/ AskRemoval \/ ConfirmRemoval \/ CancelRemoval \/ Quit \/ HardAbort

Next == Pass \/ OnStateSettled \/ Threads \/ Messages \/ Keys

Spec == Init /\ [][Next]_vars

\* A pass ends (its subprocesses are bounded) and the loop handles every message.
FairSpec == Spec /\ WF_vars(Pass) /\ WF_vars(OnStateSettled) /\ WF_vars(OnInstallRunFinished)

-----------------------------------------------------------------------------
(***************************************************************************)
(* One mutating thread at a time, the lock names it from its start to the  *)
(* handler of its message, and nobody else holds it: never leaked, never   *)
(* released for another (begin_mutation: "a second take would let one      *)
(* end_mutation release both").                                            *)
(***************************************************************************)
LockNamesTheThread ==
  Up /\ ex.started # "posted" => \A w \in Workers : work[w] # "idle" <=> holder = w

Quiet == app = "up" /\ Free /\ ui.modal = "none" /\ pass.at = "idle" /\ ~pass.asked

(***************************************************************************)
(* Once nothing is running or queued, the view shows the states of the     *)
(* last epoch: no mutation leaves the rows reading "still being checked",  *)
(* whatever pass was under way when it ended.  A failed pass is excused:   *)
(* its line says so.                                                       *)
(***************************************************************************)
QuietMeansPublished == Quiet /\ ~pass.error => current /\ ui.shown

(***************************************************************************)
(* A policy row that shows an answer shows the machine's, once the change, *)
(* the reads and the pass behind them are through: no read begun before a  *)
(* change paints over it.                                                  *)
(***************************************************************************)
RowIsCurrent == Quiet /\ ui.view = "policies" /\ reads = {} => row \in {job, Unknown}

(***************************************************************************)
(* The globals report a reinstall would act on is from after the previous  *)
(* reinstall, whatever older audit lands in between.                       *)
(***************************************************************************)
ReportFollowsReinstall ==
  Up /\ ~doctor.auditing /\ work["globals"] = "idle" => doctor.report # FALSE

(***************************************************************************)
(* The app-wide lock does what it is there for: it names a live thread,    *)
(* quitting never cuts a removal off, and a run never starts on a plan the *)
(* machine has moved on from, nor by the answer to a wait that was         *)
(* cancelled.                                                              *)
(***************************************************************************)
LockGuardsTheWork ==
  [][/\ LockNamesTheThread'
     /\ app = "up" /\ app' = "exited" => work["removal"] # "running"
     /\ ex.started = "no" /\ ex'.started # "no" => ~ex'.wait /\ current]_vars

(***************************************************************************)
(* Whoever waits for the state check hears: by its own pass, or by the one *)
(* behind it.                                                              *)
(***************************************************************************)
WaitIsAnswered == ex.waiting ~> ~ex.waiting \/ ~Up
=============================================================================
