---------------------------- MODULE ScreensProofs ----------------------------
(***************************************************************************)
(* Machine-checked proofs about Screens, for any number of mutations and   *)
(* of cancelled waits, any tours, and whether or not a key is handled      *)
(* between two hops of a message: what the app-wide lock guards, what the  *)
(* globals report is about, and what a row of Policies shows.  That a      *)
(* quiet view shows the present states needs that no key is.               *)
(***************************************************************************)
EXTENDS Screens, TLAPS

Others == Workers \ {"install"}

Shapes ==
  /\ work \in [Workers -> {"idle", "running", "posted", "bubbling"}]
  /\ holder \in Workers \cup {"none"}
  /\ DOMAIN ui = {"view", "shown", "modal"}
  /\ DOMAIN doctor = {"report", "auditing", "done"} /\ audits \subseteq Read
  /\ DOMAIN ex = DOMAIN Closed /\ ex.started \in {"no", "posted", "yes"}
  /\ ex.finished \in BOOLEAN /\ ex.wanted \in BOOLEAN /\ ex.cancelled \in BOOLEAN
  /\ ex.waiting \in BOOLEAN /\ ex.wait \in BOOLEAN /\ current \in BOOLEAN
  /\ ex.token \in Nat /\ waiters \subseteq Nat

\* Who works is who holds the lock; the run takes it in the handler of its first message.
LockInv ==
  /\ \A w \in Others : work[w] # "idle" <=> holder = w
  /\ IF ex.started = "posted" THEN holder # "install" /\ work["install"] = "running"
     ELSE work["install"] # "idle" <=> holder = "install"

\* The ExecuteScreen and its worker.
RunInv ==
  /\ ui.modal # "execute" => ex = Closed /\ waiters = {} /\ settled = {}
  /\ ui.modal \in {"deciding", "execute"} /\ ex.started = "no" => work["install"] = "idle"
  /\ work["install"] \in {"running", "posted"} => ex.started # "no" /\ ~ex.finished
  /\ work["install"] = "posted" => ex.started = "yes"
  /\ ex.finished => ex.started = "yes"

\* The present wait has one answer, on its way or to come; an earlier one has another token.
TokenInv ==
  /\ \A t \in waiters : t <= ex.token
  /\ \A m \in settled : m.token \in Nat /\ m.token <= ex.token
  /\ ex.token \in waiters => ex.waiting /\ \A m \in settled : m.token # ex.token
  /\ \A m, n \in settled : m.token = ex.token /\ n.token = ex.token => m = n /\ ex.waiting
  /\ ex.started = "no" /\ ex.wanted => ex.wait
  /\ ex.started = "no" /\ ex.cancelled => ex.wait /\ ~ex.waiting

\* What is known of the globals is from after the last reinstall, or its handler is to come.
AuditInv ==
  /\ \A r \in audits : r.fresh /\ ~r.val => work["globals"] = "posted"
  /\ doctor.report = FALSE => work["globals"] = "posted" \/ doctor.auditing

Safe == LockInv /\ RunInv /\ TokenInv /\ AuditInv

IInv == Shapes /\ (Up => Safe)

-----------------------------------------------------------------------------
(***************************************************************************)
(* What most steps have in common.                                         *)
(***************************************************************************)
\* The ExecuteScreen stays as it is, and the modal too or it is none of a run's.
Kept ==
  /\ UNCHANGED <<ex, waiters, settled>>
  /\ DOMAIN ui' = DOMAIN ui /\ current' \in BOOLEAN
  /\ \/ ui'.modal = ui.modal
     \/ ui.modal # "execute" /\ ui'.modal \notin {"execute", "deciding"}

LEMMA KeptRuns ==
  ASSUME RunInv, Kept, work'["install"] = work["install"] PROVE RunInv'
  BY DEF RunInv, Kept

LEMMA KeptTokens == ASSUME TokenInv, Kept PROVE TokenInv'
  BY DEF TokenInv, Kept

LEMMA KeptAudits ==
  ASSUME AuditInv, UNCHANGED globals, work'["globals"] = work["globals"] PROVE AuditInv'
  BY DEF AuditInv, globals

\* Nobody takes or leaves the lock.
LEMMA Framed ==
  ASSUME Shapes, Safe, Kept, UNCHANGED <<work, holder, globals>> PROVE Shapes' /\ Safe'
<1>1. LockInv'
  BY DEF Safe, LockInv, Kept
<1>2. RunInv' /\ TokenInv' /\ AuditInv'
  BY KeptRuns, KeptTokens, KeptAudits DEF Safe
<1>3. Shapes'
  BY DEF Shapes, Kept, globals
<1> QED
  BY <1>1, <1>2, <1>3 DEF Safe

\* The globals are looked at, and nothing else happens.
LEMMA Audited ==
  ASSUME Shapes, Safe, Kept, UNCHANGED <<work, holder>>, audits' \subseteq Read,
         DOMAIN doctor' = DOMAIN doctor, AuditInv'
  PROVE  Shapes' /\ Safe'
<1>1. LockInv'
  BY DEF Safe, LockInv, Kept
<1>2. RunInv' /\ TokenInv'
  BY KeptRuns, KeptTokens DEF Safe
<1>3. Shapes'
  BY DEF Shapes, Kept
<1> QED
  BY <1>1, <1>2, <1>3 DEF Safe

\* A thread other than the run's and the reinstall's ends, or its handler does.
LEMMA Posted ==
  ASSUME Shapes, Safe, Kept, UNCHANGED globals, NEW w \in Others \ {"globals"}, NEW words,
         Posts(w, words)
  PROVE  Shapes' /\ Safe'
<1>1. /\ work' = [work EXCEPT ![w] = "posted"] /\ work[w] = "running" /\ holder' = holder
      /\ w \in Workers /\ w # "install" /\ w # "globals"
  BY DEF Posts, Others
<1>2. work'["install"] = work["install"] /\ work'["globals"] = work["globals"]
  BY <1>1 DEF Shapes
<1>3. \A v \in Workers : work'[v] # "idle" <=> work[v] # "idle"
  BY <1>1 DEF Shapes
<1>4. LockInv'
  BY <1>1, <1>2, <1>3 DEF Safe, LockInv, Kept, Others
<1>5. RunInv' /\ TokenInv' /\ AuditInv'
  BY <1>2, KeptRuns, KeptTokens, KeptAudits DEF Safe
<1>6. Shapes'
  BY <1>1 DEF Shapes, Kept, globals
<1> QED
  BY <1>4, <1>5, <1>6 DEF Safe

LEMMA Ended ==
  ASSUME Shapes, Safe, Kept, UNCHANGED globals, NEW w \in Others \ {"globals"}, End(w)
  PROVE  Shapes' /\ Safe'
<1>1. /\ work' = [work EXCEPT ![w] = "idle"] /\ work[w] = "posted" /\ holder' = "none"
      /\ w \in Workers /\ w # "install" /\ w # "globals"
  BY DEF End, Others
<1>2. work'["install"] = work["install"] /\ work'["globals"] = work["globals"]
  BY <1>1 DEF Shapes, Workers
<1>3. holder = w
  BY <1>1 DEF Safe, LockInv, Others
<1>4. LockInv'
  <2>1. \A v \in Others : work'[v] = "idle"
    BY <1>1, <1>3 DEF Shapes, Safe, LockInv, Others
  <2>2. \A v \in Others : "none" # v
    BY DEF Others, Workers
  <2>3. ex' = ex
    BY DEF Kept
  <2> QED
    BY <1>1, <1>2, <1>3, <2>1, <2>2, <2>3 DEF Safe, LockInv
<1>5. RunInv' /\ TokenInv' /\ AuditInv'
  BY <1>2, KeptRuns, KeptTokens, KeptAudits DEF Safe
<1>6. Shapes'
  BY <1>1 DEF Shapes, Kept, globals
<1> QED
  BY <1>4, <1>5, <1>6 DEF Safe

\* A mutation of the main view takes the lock.
LEMMA Begun ==
  ASSUME Shapes, Safe, Kept, UNCHANGED globals, NEW w \in Others, NEW words, Free,
         Begin(w, words)
  PROVE  Shapes' /\ Safe'
<1>1. /\ work' = [work EXCEPT ![w] = "running"] /\ holder' = w /\ holder = "none"
      /\ w \in Workers /\ w # "install"
  BY DEF Begin, Free, Others
<1>2. work'["install"] = work["install"]
  BY <1>1 DEF Shapes
<1>3. \A v \in Others : work[v] = "idle" /\ "none" # v
  BY <1>1 DEF Safe, LockInv, Others, Workers
<1>4. LockInv'
  <2>1. \A v \in Others : work'[v] # "idle" <=> v = w
    BY <1>1, <1>3 DEF Shapes, Others
  <2>2. ex' = ex
    BY DEF Kept
  <2> QED
    BY <1>1, <1>2, <2>1, <2>2 DEF Safe, LockInv
<1>5. RunInv' /\ TokenInv'
  BY <1>2, KeptRuns, KeptTokens DEF Safe
<1>6. AuditInv'
  <2>1. work["globals"] = "idle"
    BY <1>3 DEF Others, Workers
  <2> QED
    BY <2>1 DEF Safe, AuditInv, globals
<1>7. Shapes'
  BY <1>1 DEF Shapes, Kept, globals
<1> QED
  BY <1>4, <1>5, <1>6, <1>7 DEF Safe

\* Everything of the screens goes with the process.
LEMMA Left ==
  ASSUME Shapes, NEW how \in {"exited", "cut", "crashed"}, Leaves(how) PROVE Shapes' /\ ~Up'
  BY DEF Shapes, Leaves, Closed, Unasked, Up, lock

LEMMA RestartedReads ==
  ASSUME NEW S \in SUBSET Read
  PROVE  /\ Restarted(S, TRUE) \subseteq Read
         /\ \A r \in Restarted(S, TRUE) : r.fresh => r.val
<1>1. \A r \in Read : [r EXCEPT !.fresh = FALSE] \in Read /\ ~[r EXCEPT !.fresh = FALSE].fresh
  BY DEF Read
<1>2. Superseded(S) \subseteq Read /\ \A r \in Superseded(S) : ~r.fresh
  BY <1>1 DEF Superseded
<1>3. [fresh |-> TRUE, val |-> TRUE] \in Read /\ [fresh |-> TRUE, val |-> TRUE].val
  BY DEF Read
<1> QED
  BY <1>2, <1>3 DEF Restarted

LEMMA Restart ==
  ASSUME Shapes, NEW d, DOMAIN d = DOMAIN doctor, StartAudit(d)
  PROVE  audits' \subseteq Read /\ DOMAIN doctor' = DOMAIN doctor /\ AuditInv'
<1>1. audits' \subseteq Read /\ \A r \in audits' : r.fresh => r.val
  BY RestartedReads DEF Shapes, StartAudit
<1>2. DOMAIN doctor' = DOMAIN doctor /\ doctor'.auditing = TRUE
  BY DEF StartAudit, Shapes
<1> QED
  BY <1>1, <1>2 DEF AuditInv

\* A view that renders what is published.
LEMMA Rendered ==
  ASSUME Shapes, RenderPublished PROVE DOMAIN ui' = DOMAIN ui /\ ui'.modal = ui.modal
  BY DEF Shapes, RenderPublished, StateRefreshed

LEMMA ModalClosed ==
  ASSUME Shapes, Resumed PROVE DOMAIN ui' = DOMAIN ui /\ ui'.modal = "none"
  BY DEF Shapes, Resumed, StateRefreshed

-----------------------------------------------------------------------------
(***************************************************************************)
(* The start of a run, and the wait before it.                             *)
(***************************************************************************)
\* The screen that goes on with e: the same wait, or a new one.
Screen(e) ==
  /\ DOMAIN e = DOMAIN Closed /\ e.started = ex.started /\ e.finished = ex.finished
  /\ e.token = ex.token /\ e.waiting = ex.waiting
  /\ e.wanted \in BOOLEAN /\ e.cancelled \in BOOLEAN /\ e.wait \in BOOLEAN

LEMMA ReplannedScreen ==
  ASSUME Shapes, ~ex.cancelled
  PROVE  /\ Screen(Replanned(ex)) /\ ~Replanned(ex).cancelled
         /\ Replanned(ex).wait = ~current /\ Replanned(ex).wanted = ex.wanted
  BY DEF Shapes, Screen, Replanned, Closed

\* The worker of the run starts.
LEMMA RunStarts ==
  ASSUME Shapes, Safe, NEW e, DOMAIN e = DOMAIN Closed, ex.started = "no",
         e.finished = ex.finished, e.token = ex.token, e.wanted \in BOOLEAN,
         e.cancelled \in BOOLEAN, e.wait \in BOOLEAN, e.waiting \in BOOLEAN,
         ui.modal = "execute", Started(e),
         UNCHANGED <<ui, current, waiters, doctor, audits>>, settled' \subseteq settled,
         \/ e.waiting = ex.waiting
         \/ ex.token \notin waiters /\ \A m \in settled' : m.token # ex.token
  PROVE  Shapes' /\ Safe'
<1>1. /\ work' = [work EXCEPT !["install"] = "running"] /\ holder' = holder
      /\ ex' = [e EXCEPT !.started = "posted"]
  BY DEF Started
<1>2. /\ DOMAIN ex' = DOMAIN Closed /\ ex'.started = "posted" /\ ex'.finished = ex.finished
      /\ ex'.token = ex.token /\ ex'.waiting = e.waiting /\ ex'.wanted = e.wanted
      /\ ex'.cancelled = e.cancelled /\ ex'.wait = e.wait
  BY <1>1 DEF Closed
<1>3. "install" \in Workers /\ "globals" \in Workers /\ "globals" # "install"
  BY DEF Workers
<1>4. /\ work'["install"] = "running"
      /\ \A v \in Workers \ {"install"} : work'[v] = work[v]
  BY <1>1, <1>3 DEF Shapes
<1>5. work["install"] = "idle" /\ ~ex.finished
  BY DEF Safe, RunInv
<1>6. Shapes'
  BY <1>1, <1>2 DEF Shapes
<1>7. LockInv'
  BY <1>1, <1>2, <1>4, <1>5 DEF Safe, LockInv, Others
<1>8. RunInv'
  BY <1>2, <1>4, <1>5 DEF Safe, RunInv
<1>9. TokenInv'
  BY <1>2 DEF Safe, TokenInv
<1>10. AuditInv'
  BY <1>3, <1>4 DEF Safe, AuditInv
<1> QED
  BY <1>6, <1>7, <1>8, <1>9, <1>10 DEF Safe

\* The screen changes, its worker does not.
LEMMA ScreenChanges ==
  ASSUME Shapes, Safe, ui.modal = "execute", ex'.started = ex.started,
         DOMAIN ex' = DOMAIN Closed, ex'.finished = ex.finished, ex'.token = ex.token,
         ex'.wanted \in BOOLEAN, ex'.cancelled \in BOOLEAN, ex'.wait \in BOOLEAN,
         ex'.waiting \in BOOLEAN, waiters' \subseteq Nat, TokenInv',
         UNCHANGED <<work, holder, ui, current, doctor, audits>>
  PROVE  Shapes' /\ Safe'
<1>1. Shapes'
  BY DEF Shapes
<1>2. LockInv' /\ AuditInv'
  BY DEF Safe, LockInv, AuditInv
<1>3. RunInv'
  BY DEF Safe, RunInv
<1> QED
  BY <1>1, <1>2, <1>3 DEF Safe

\* A wait begins, or goes on.
LEMMA WaitStep ==
  ASSUME Shapes, Safe, NEW e, Screen(e), ex.started = "no", ui.modal = "execute",
         e.wait, ~e.cancelled,
         UNCHANGED <<work, holder, ui, current, doctor, audits, settled>>,
         \/ ex' = e /\ waiters' = waiters
         \/ Awaiting(e)
  PROVE  Shapes' /\ Safe'
<1>1. \/ ex' = e /\ waiters' = waiters
      \/ /\ ~e.waiting /\ ex' = [e EXCEPT !.waiting = TRUE]
         /\ waiters' = waiters \cup {e.token}
  BY DEF Awaiting
<1>2. /\ DOMAIN ex' = DOMAIN Closed /\ ex'.started = ex.started /\ ex'.finished = ex.finished
      /\ ex'.token = ex.token /\ ex'.wanted = e.wanted /\ ex'.cancelled = e.cancelled
      /\ ex'.wait = e.wait
  BY <1>1 DEF Closed, Screen
<1>3. \/ waiters' = waiters /\ ex'.waiting = ex.waiting
      \/ ~ex.waiting /\ ex'.waiting = TRUE /\ waiters' = waiters \cup {ex.token}
  BY <1>1 DEF Closed, Screen
<1>4. waiters' \subseteq Nat /\ ex'.waiting \in BOOLEAN
  BY <1>3 DEF Shapes
<1>5. TokenInv'
  <2>1. \A t \in waiters' : t <= ex'.token
    <3>1. ex.token \in Nat /\ waiters \subseteq Nat /\ \A t \in waiters : t <= ex.token
      BY DEF Safe, TokenInv, Shapes
    <3>2. \A t \in waiters' : t \in waiters \/ t = ex.token
      BY <1>3
    <3>3. ex'.token = ex.token /\ ex.token <= ex.token
      BY <1>2, <3>1
    <3> QED
      BY <3>1, <3>2, <3>3, Zenon
  <2>2. \A m \in settled' : m.token \in Nat /\ m.token <= ex'.token
    BY <1>2 DEF Safe, TokenInv
  <2>3. ~ex.waiting => \A m \in settled' : m.token # ex.token
    BY DEF Safe, TokenInv
  <2>4. ex'.token \in waiters' => ex'.waiting /\ \A m \in settled' : m.token # ex'.token
    BY <1>2, <1>3, <2>3 DEF Safe, TokenInv
  <2>5. \A m, n \in settled' : m.token = ex'.token /\ n.token = ex'.token => m = n /\ ex'.waiting
    BY <1>2, <1>3, <2>3 DEF Safe, TokenInv
  <2> QED
    BY <1>2, <2>1, <2>2, <2>4, <2>5 DEF TokenInv
<1>6. ex'.wanted \in BOOLEAN /\ ex'.cancelled \in BOOLEAN /\ ex'.wait \in BOOLEAN
  BY <1>2 DEF Screen
<1> QED
  BY <1>2, <1>4, <1>5, <1>6, ScreenChanges

LEMMA EnterStep == ASSUME Shapes, Safe, Enter PROVE Shapes' /\ Safe'
<1> DEFINE e == IF ex.cancelled THEN [ex EXCEPT !.cancelled = FALSE] ELSE Replanned(ex)
<1>1. /\ ui.modal = "execute" /\ ex.started = "no"
      /\ UNCHANGED <<ui, current, settled, doctor, audits>>
  BY DEF Enter, globals
<1>2. /\ IF ~e.wait THEN Started(e) /\ UNCHANGED <<waiters, pass>>
         ELSE /\ IF e.wanted THEN ex' = e /\ UNCHANGED <<waiters, pass>>
                             ELSE Awaiting([e EXCEPT !.wanted = TRUE])
              /\ UNCHANGED lock
  BY DEF Enter
<1>3. Screen(e) /\ ~e.cancelled
  <2>1. CASE ex.cancelled
    BY <2>1 DEF Screen, Shapes, Closed
  <2>2. CASE ~ex.cancelled
    BY <2>2, ReplannedScreen
  <2> QED
    BY <2>1, <2>2
<1> HIDE DEF e
<1>4. CASE ~e.wait
  BY <1>1, <1>2, <1>3, <1>4, RunStarts DEF Screen, Shapes
<1>5. CASE e.wait /\ e.wanted
  BY <1>1, <1>2, <1>3, <1>5, WaitStep DEF lock
<1>6. CASE e.wait /\ ~e.wanted
  <2> DEFINE f == [e EXCEPT !.wanted = TRUE]
  <2>1. Screen(f) /\ ~f.cancelled /\ f.wait
    BY <1>3, <1>6 DEF Screen, Closed
  <2>2. Awaiting(f) /\ UNCHANGED <<work, holder>>
    BY <1>2, <1>6 DEF lock
  <2> HIDE DEF f
  <2> QED
    BY <1>1, <2>1, <2>2, WaitStep
<1> QED
  BY <1>3, <1>4, <1>5, <1>6 DEF Screen

\* The answer of an earlier wait is dropped; the one of the present wait ends it.
LEMMA SettledStep == ASSUME Shapes, Safe, OnStateSettled PROVE Shapes' /\ Safe'
<1>1. PICK m \in settled :
        /\ settled' = settled \ {m}
        /\ IF m.token = ex.token THEN Settles(ex, m.error) ELSE UNCHANGED <<ex, lock>>
  BY DEF OnStateSettled
<1>2. ui.modal = "execute" /\ UNCHANGED <<ui, current, waiters, doctor, audits>>
  BY DEF OnStateSettled, service, globals
<1>3. CASE m.token # ex.token
  <2>1. UNCHANGED <<ex, work, holder>>
    BY <1>1, <1>3 DEF lock
  <2>2. TokenInv'
    BY <1>1, <1>2, <2>1 DEF Safe, TokenInv
  <2> QED
    BY <1>2, <2>1, <2>2, ScreenChanges DEF Shapes
<1>4. CASE m.token = ex.token
  <2>1. ex.waiting /\ ex.token \notin waiters /\ \A n \in settled' : n.token # ex.token
    BY <1>1, <1>4 DEF Safe, TokenInv
  <2>2. CASE ex.started = "no" /\ ~m.error /\ ex.wanted /\ ~Replanned(ex).wait
    <3> DEFINE e == [Replanned(ex) EXCEPT !.waiting = FALSE, !.wanted = FALSE]
    <3>1. Started(e)
      BY <1>1, <1>4, <2>2 DEF Settles
    <3>2. /\ DOMAIN e = DOMAIN Closed /\ e.finished = ex.finished /\ e.token = ex.token
          /\ e.wanted = FALSE /\ e.waiting = FALSE /\ e.cancelled = ex.cancelled
          /\ e.wait = ~current
      BY DEF Replanned, Shapes, Closed
    <3>3. e.cancelled \in BOOLEAN /\ e.wait \in BOOLEAN /\ settled' \subseteq settled
      BY <1>1, <3>2 DEF Shapes
    <3> HIDE DEF e
    <3> QED
      BY <1>2, <2>1, <2>2, <3>1, <3>2, <3>3, RunStarts
  <2>3. CASE ~(ex.started = "no" /\ ~m.error /\ ex.wanted /\ ~Replanned(ex).wait)
    <3>1. /\ ex' = [(IF m.error THEN ex ELSE Replanned(ex))
                      EXCEPT !.waiting = FALSE, !.wanted = FALSE]
          /\ UNCHANGED <<work, holder>>
      BY <1>1, <1>4, <2>3 DEF Settles, lock
    <3>2. /\ DOMAIN ex' = DOMAIN Closed /\ ex'.started = ex.started
          /\ ex'.finished = ex.finished /\ ex'.token = ex.token /\ ex'.wanted = FALSE
          /\ ex'.waiting = FALSE /\ ex'.cancelled = ex.cancelled /\ ex'.wait \in {ex.wait, ~current}
      BY <3>1 DEF Replanned, Shapes, Closed
    <3>3. ex'.wait \in BOOLEAN
      BY <3>2 DEF Shapes
    <3>4. TokenInv'
      BY <1>1, <1>2, <2>1, <3>2 DEF Safe, TokenInv
    <3> QED
      BY <1>2, <3>1, <3>2, <3>3, <3>4, ScreenChanges DEF Shapes
  <2> QED
    BY <2>2, <2>3
<1> QED
  BY <1>3, <1>4

-----------------------------------------------------------------------------
(***************************************************************************)
(* One step per action.                                                    *)
(***************************************************************************)
LEMMA NextStep == Shapes /\ Safe /\ Next => Shapes' /\ (Up' => Safe')
<1> SUFFICES ASSUME Shapes, Safe, Next PROVE Shapes' /\ (Up' => Safe')
  OBVIOUS
<1>1. CASE PassBegins
  <2>1. Kept /\ UNCHANGED <<work, holder, globals>>
    BY <1>1 DEF PassBegins, Kept, Shapes, lock, service, plan, policy, globals
  <2> QED
    BY <2>1, Framed
<1>2. CASE PassPublishes
  <2>1. current' \in BOOLEAN
    <3>1. current' = (current \/ pass.valid)
      BY <1>2 DEF PassPublishes
    <3> QED
      BY <3>1
  <2>2. Kept /\ UNCHANGED <<work, holder, globals>>
    BY <1>2, <2>1 DEF PassPublishes, Kept, Shapes, lock, plan, policy, globals
  <2> QED
    BY <2>2, Framed
<1>3. CASE PassFails
  <2>1. Kept /\ UNCHANGED <<work, holder, globals>>
    BY <1>3 DEF PassFails, Kept, Shapes, lock, service, plan, policy, globals
  <2> QED
    BY <2>1, Framed
<1>4. CASE OnRefreshPublished
  <2>1. Kept /\ UNCHANGED <<work, holder, globals>>
    BY <1>4, Rendered DEF OnRefreshPublished, Kept, Shapes, lock, plan, globals
  <2> QED
    BY <2>1, Framed
<1>5. CASE OnRefreshFinished
  <2>1. /\ UNCHANGED <<work, holder, ui, current, ex, doctor, audits>>
        /\ \/ UNCHANGED <<waiters, settled>>
           \/ Answered
    BY <1>5 DEF OnRefreshFinished, lock, globals
  <2>2. CASE UNCHANGED <<waiters, settled>>
    BY <2>1, <2>2, Framed DEF Kept, Shapes, globals
  <2>3. CASE Answered
    <3>1. /\ settled' = settled \cup {[token |-> t, error |-> pass.error] : t \in waiters}
          /\ waiters' = {}
      BY <2>3 DEF Answered
    <3>2. Shapes'
      BY <2>1, <3>1 DEF Shapes
    <3>3. LockInv' /\ AuditInv'
      BY <2>1 DEF Safe, LockInv, AuditInv
    <3>4. RunInv'
      BY <2>1, <3>1 DEF Safe, RunInv
    <3>5. TokenInv'
      BY <2>1, <3>1 DEF Safe, TokenInv, Shapes
    <3> QED
      BY <3>2, <3>3, <3>4, <3>5 DEF Safe
  <2> QED
    BY <2>1, <2>2, <2>3
<1>6. CASE OnStateSettled
  BY <1>6, SettledStep
<1>7. CASE DaemonWorks
  <2>1. Kept /\ UNCHANGED globals
    BY <1>7 DEF DaemonWorks, Kept, Shapes, lock, service, plan, policy, globals
  <2>2. \E words : Posts("daemon", words)
    BY <1>7 DEF DaemonWorks
  <2>3. "daemon" \in Others \ {"globals"}
    BY DEF Others, Workers
  <2> QED
    BY <2>1, <2>2, <2>3, Posted
<1>8. CASE ToggleWorks
  <2>1. Kept /\ UNCHANGED globals
    BY <1>8 DEF ToggleWorks, Kept, Shapes, lock, service, plan, policy, globals
  <2>2. \E words : Posts("toggle", words)
    BY <1>8 DEF ToggleWorks
  <2>3. "toggle" \in Others \ {"globals"}
    BY DEF Others, Workers
  <2> QED
    BY <2>1, <2>2, <2>3, Posted
<1>9. CASE UpdateWorks
  <2>1. Kept /\ UNCHANGED globals
    BY <1>9 DEF UpdateWorks, Kept, Shapes, lock, service, plan, policy, globals, Invalidated
  <2>2. \E words : Posts("update", words)
    BY <1>9 DEF UpdateWorks
  <2>3. "update" \in Others \ {"globals"}
    BY DEF Others, Workers
  <2> QED
    BY <2>1, <2>2, <2>3, Posted
<1>10. CASE InstallWorks
  <2>1. /\ work' = [work EXCEPT !["install"] = "posted"] /\ work["install"] = "running"
        /\ holder' = holder /\ ex.started = "yes"
        /\ UNCHANGED <<ui, ex, waiters, settled, doctor, audits>>
        /\ current' \in {current, FALSE}
    BY <1>10 DEF InstallWorks, Posts, Invalidated, plan, globals, service
  <2>2. "install" \in Workers /\ "globals" \in Workers /\ "globals" # "install"
    BY DEF Workers
  <2>3. /\ work'["install"] = "posted" /\ \A v \in Workers \ {"install"} : work'[v] = work[v]
    BY <2>1, <2>2 DEF Shapes
  <2>4. Shapes'
    BY <2>1 DEF Shapes
  <2>5. LockInv' /\ RunInv'
    BY <2>1, <2>3 DEF Safe, LockInv, RunInv, Others
  <2>6. TokenInv' /\ AuditInv'
    BY <2>1, <2>2, <2>3 DEF Safe, TokenInv, AuditInv
  <2> QED
    BY <2>4, <2>5, <2>6 DEF Safe
<1>11. CASE RemovalWorks
  <2>1. Kept /\ UNCHANGED globals
    BY <1>11 DEF RemovalWorks, Kept, Shapes, lock, service, plan, policy, globals, Invalidated
  <2>2. \E words : Posts("removal", words)
    BY <1>11 DEF RemovalWorks
  <2>3. "removal" \in Others \ {"globals"}
    BY DEF Others, Workers
  <2> QED
    BY <2>1, <2>2, <2>3, Posted
<1>12. CASE ReinstallWorks
  <2>1. Kept
    BY <1>12 DEF ReinstallWorks, Invalidated, Kept, Shapes, plan
  <2>2. /\ work' = [work EXCEPT !["globals"] = "posted"] /\ work["globals"] = "running"
        /\ holder' = holder
    BY <1>12 DEF ReinstallWorks, Posts
  <2>3. "globals" \in Others /\ "install" \in Workers
    BY DEF Others, Workers
  <2>4. work'["install"] = work["install"] /\ work'["globals"] = "posted"
    BY <2>2, <2>3 DEF Shapes, Others
  <2>5. \A v \in Workers : work'[v] # "idle" <=> work[v] # "idle"
    BY <2>2 DEF Shapes
  <2>6. LockInv'
    BY <2>1, <2>2, <2>4, <2>5 DEF Safe, LockInv, Kept, Others
  <2>7. RunInv' /\ TokenInv'
    BY <2>1, <2>4, KeptRuns, KeptTokens DEF Safe
  <2>8. AuditInv'
    BY <2>4 DEF AuditInv
  <2>9. audits' \subseteq Read /\ DOMAIN doctor' = DOMAIN doctor
    <3>1. \A r \in Read : [r EXCEPT !.val = FALSE] \in Read
      BY DEF Read
    <3>2. audits' = {[r EXCEPT !.val = FALSE] : r \in audits} /\ DOMAIN doctor' = DOMAIN doctor
      BY <1>12 DEF ReinstallWorks
    <3> QED
      BY <3>1, <3>2 DEF Shapes
  <2>10. Shapes'
    BY <2>1, <2>2, <2>9 DEF Shapes, Kept
  <2> QED
    BY <2>6, <2>7, <2>8, <2>10 DEF Safe
<1>13. CASE OnRefreshRequested
  <2>1. Kept /\ UNCHANGED <<work, holder, globals>>
    BY <1>13 DEF OnRefreshRequested, Kept, Shapes, lock, service, plan, policy, globals
  <2> QED
    BY <2>1, Framed
<1>14. CASE OnDaemonDefaultApplied
  <2>1. Kept /\ UNCHANGED globals
    BY <1>14 DEF OnDaemonDefaultApplied, Kept, Shapes, lock, service, plan, policy, globals
  <2>2. End("daemon")
    BY <1>14 DEF OnDaemonDefaultApplied
  <2>3. "daemon" \in Others \ {"globals"}
    BY DEF Others, Workers
  <2> QED
    BY <2>1, <2>2, <2>3, Ended
<1>15. CASE OnPolicyToggled
  <2>1. Kept /\ UNCHANGED globals
    BY <1>15 DEF OnPolicyToggled, Kept, Shapes, lock, service, plan, policy, globals
  <2>2. End("toggle")
    BY <1>15 DEF OnPolicyToggled
  <2>3. "toggle" \in Others \ {"globals"}
    BY DEF Others, Workers
  <2> QED
    BY <2>1, <2>2, <2>3, Ended
<1>16. CASE OnJobStatesRead
  <2>1. Kept /\ UNCHANGED <<work, holder, globals>>
    BY <1>16 DEF OnJobStatesRead, Kept, Shapes, lock, service, plan, policy, globals
  <2> QED
    BY <2>1, Framed
<1>17. CASE OnGlobalsAudited
  <2>1. Kept /\ UNCHANGED <<work, holder>>
    BY <1>17 DEF OnGlobalsAudited, Kept, Shapes, lock, plan
  <2>2. PICK r \in audits, answer \in Answers :
          /\ answer \in {r.val, TRUE, Unknown}
          /\ audits' = audits \ {r}
          /\ IF r.fresh
               THEN doctor' = [doctor EXCEPT !.report = answer, !.auditing = FALSE]
               ELSE UNCHANGED doctor
    BY <1>17 DEF OnGlobalsAudited
  <2>3. audits' \subseteq Read /\ DOMAIN doctor' = DOMAIN doctor
    BY <2>2 DEF Shapes
  <2>4. AuditInv'
    <3>1. \A s \in audits' : s.fresh /\ ~s.val => work'["globals"] = "posted"
      BY <2>1, <2>2 DEF Safe, AuditInv
    <3>2. CASE r.fresh
      <4>1. doctor'.report = answer
        BY <2>2, <3>2 DEF Shapes
      <4>2. answer = FALSE => ~r.val
        BY <2>2, BoundsAssumption DEF BoundsAssumption, Shapes, Read
      <4> QED
        BY <2>1, <3>1, <3>2, <4>1, <4>2 DEF Safe, AuditInv
    <3>3. CASE ~r.fresh
      BY <2>1, <2>2, <3>1, <3>3 DEF Safe, AuditInv
    <3> QED
      BY <3>2, <3>3
  <2> QED
    BY <2>1, <2>3, <2>4, Audited
<1>18. CASE OnGlobalsReinstalled
  <2>1. Kept
    BY <1>18 DEF OnGlobalsReinstalled, Kept, Shapes, plan
  <2>2. /\ work' = [work EXCEPT !["globals"] = "idle"] /\ work["globals"] = "posted"
        /\ holder' = "none"
    BY <1>18 DEF OnGlobalsReinstalled, End
  <2>3. "globals" \in Others /\ "install" \in Workers /\ \A v \in Others : "none" # v
    BY DEF Others, Workers
  <2>4. holder = "globals" /\ work'["install"] = work["install"]
    BY <2>2, <2>3 DEF Shapes, Safe, LockInv, Others
  <2>5. \A v \in Others : work'[v] = "idle"
    BY <2>2, <2>4 DEF Shapes, Safe, LockInv, Others
  <2>6. LockInv'
    BY <2>1, <2>2, <2>3, <2>4, <2>5 DEF Safe, LockInv, Kept
  <2>7. RunInv' /\ TokenInv'
    BY <2>1, <2>4, KeptRuns, KeptTokens DEF Safe
  <2> DEFINE d == [doctor EXCEPT !.done = said]
  <2>8. DOMAIN d = DOMAIN doctor /\ StartAudit(d)
    BY <1>18 DEF OnGlobalsReinstalled
  <2>9. audits' \subseteq Read /\ DOMAIN doctor' = DOMAIN doctor /\ AuditInv'
    <3> HIDE DEF d
    <3> QED
      BY <2>8, Restart
  <2>10. Shapes'
    BY <2>1, <2>2, <2>9 DEF Shapes, Kept
  <2> QED
    BY <2>6, <2>7, <2>9, <2>10 DEF Safe
<1>19. CASE OnToolUpdated
  <2>1. Kept /\ UNCHANGED globals
    BY <1>19, Rendered DEF OnToolUpdated, Kept, Shapes, lock, service, plan, policy, globals
  <2>2. End("update")
    BY <1>19 DEF OnToolUpdated
  <2>3. "update" \in Others \ {"globals"}
    BY DEF Others, Workers
  <2> QED
    BY <2>1, <2>2, <2>3, Ended
<1>20. CASE Decided
  <2>1. /\ ui.modal = "deciding" /\ ui' = [ui EXCEPT !.modal = "execute"] /\ settled' = {}
        /\ UNCHANGED <<work, holder, current, doctor, audits>>
        /\ IF current THEN ex' = Closed /\ waiters' = waiters
           ELSE Awaiting(Replanned(Closed))
    BY <1>20 DEF Decided, Opened, lock, globals
  <2>2. ex = Closed /\ waiters = {} /\ work["install"] = "idle"
    BY <2>1 DEF Safe, RunInv, Closed
  <2>3. \/ ex' = Closed /\ waiters' = {}
        \/ /\ ex' = [Closed EXCEPT !.wait = TRUE, !.waiting = TRUE]
           /\ waiters' = {0}
    BY <2>1, <2>2 DEF Awaiting, Replanned, Closed, Shapes
  <2>4. /\ DOMAIN ex' = DOMAIN Closed /\ ex'.started = "no" /\ ex'.finished = FALSE
        /\ ex'.token = 0 /\ ex'.wanted = FALSE /\ ex'.cancelled = FALSE
        /\ ex'.waiting \in BOOLEAN /\ ex'.wait \in BOOLEAN /\ waiters' \subseteq {0}
        /\ 0 \in waiters' => ex'.waiting
    <3>1. CASE ex' = Closed /\ waiters' = {}
      BY <3>1 DEF Closed
    <3>2. CASE ex' = [Closed EXCEPT !.wait = TRUE, !.waiting = TRUE] /\ waiters' = {0}
      BY <3>2 DEF Closed
    <3> QED
      BY <2>3, <3>1, <3>2
  <2>5. Shapes'
    <3>1. DOMAIN ui' = DOMAIN ui /\ waiters' \subseteq Nat /\ ex'.token \in Nat
      BY <2>1, <2>4
    <3> QED
      BY <2>1, <2>4, <3>1 DEF Shapes
  <2>6. LockInv' /\ AuditInv'
    BY <2>1, <2>2, <2>4 DEF Safe, LockInv, AuditInv, Closed
  <2>7. RunInv'
    BY <2>1, <2>2, <2>4, <2>5 DEF Safe, RunInv, Shapes
  <2>8. TokenInv'
    BY <2>1, <2>3, <2>4 DEF TokenInv
  <2> QED
    BY <2>5, <2>6, <2>7, <2>8 DEF Safe
<1>21. CASE OnInstallRunStarted
  <2>1. CASE Free
    <3>1. /\ holder' = "install" /\ holder = "none" /\ ex.started = "posted"
          /\ UNCHANGED <<work, ui, current, waiters, settled, doctor, audits>>
      BY <1>21, <2>1 DEF OnInstallRunStarted, Free, service, globals
    <3>2. /\ DOMAIN ex' = DOMAIN ex /\ ex'.started = "yes" /\ ex'.finished = ex.finished
          /\ ex'.token = ex.token /\ ex'.waiting = ex.waiting /\ ex'.wanted = ex.wanted
          /\ ex'.cancelled = ex.cancelled /\ ex'.wait = ex.wait
      BY <1>21, <2>1 DEF OnInstallRunStarted, Shapes, Closed
    <3>3. ui.modal = "execute" /\ work["install"] = "running" /\ ~ex.finished
      BY <3>1 DEF Safe, LockInv, RunInv, Closed
    <3>4. "install" \in Workers /\ "none" \notin Workers
      BY DEF Workers
    <3>5. Shapes'
      BY <3>1, <3>2, <3>4 DEF Shapes
    <3>6. LockInv'
      BY <3>1, <3>2, <3>3, <3>4 DEF Safe, LockInv, Others
    <3>7. RunInv'
      BY <3>1, <3>2, <3>3 DEF Safe, RunInv
    <3>8. TokenInv' /\ AuditInv'
      BY <3>1, <3>2 DEF Safe, TokenInv, AuditInv
    <3> QED
      BY <3>5, <3>6, <3>7, <3>8 DEF Safe
  <2>2. CASE ~Free
    BY <1>21, <2>2, Left DEF OnInstallRunStarted
  <2> QED
    BY <2>1, <2>2
<1>22. CASE ScreenRunFinished
  <2>1. /\ work' = [work EXCEPT !["install"] = "bubbling"] /\ work["install"] = "posted"
        /\ UNCHANGED <<holder, ui, current, waiters, settled, doctor, audits>>
    BY <1>22 DEF ScreenRunFinished, service, globals
  <2>2. /\ DOMAIN ex' = DOMAIN ex /\ ex'.finished = TRUE /\ ex'.started = ex.started
        /\ ex'.token = ex.token /\ ex'.waiting = ex.waiting /\ ex'.wanted = ex.wanted
        /\ ex'.cancelled = ex.cancelled /\ ex'.wait = ex.wait
    BY <1>22 DEF ScreenRunFinished, Shapes, Closed
  <2>3. "install" \in Workers /\ "globals" \in Workers /\ "globals" # "install"
    BY DEF Workers
  <2>4. /\ work'["install"] = "bubbling"
        /\ \A v \in Workers \ {"install"} : work'[v] = work[v]
    BY <2>1, <2>3 DEF Shapes
  <2>5. ex.started = "yes" /\ ui.modal = "execute"
    BY <2>1 DEF Safe, RunInv, Closed
  <2>6. Shapes'
    BY <2>1, <2>2 DEF Shapes
  <2>7. LockInv' /\ RunInv'
    BY <2>1, <2>2, <2>4, <2>5 DEF Safe, LockInv, RunInv, Others
  <2>8. TokenInv' /\ AuditInv'
    BY <2>1, <2>2, <2>3, <2>4 DEF Safe, TokenInv, AuditInv
  <2> QED
    BY <2>6, <2>7, <2>8 DEF Safe
<1>23. CASE OnInstallRunFinished
  <2>1. /\ work' = [work EXCEPT !["install"] = "idle"] /\ work["install"] = "bubbling"
        /\ holder' = "none" /\ current' \in {current, FALSE}
        /\ UNCHANGED <<ex, ui, waiters, settled, doctor, audits>>
    BY <1>23 DEF OnInstallRunFinished, Invalidated, service, plan, globals
  <2>2. "install" \in Workers /\ "globals" \in Workers /\ "globals" # "install"
        /\ "none" \notin Workers
    BY DEF Workers
  <2>3. /\ work'["install"] = "idle" /\ \A v \in Workers \ {"install"} : work'[v] = work[v]
    BY <2>1, <2>2 DEF Shapes
  <2>4. ex.started # "posted" /\ holder = "install"
    BY <2>1 DEF Safe, LockInv
  <2>5. Shapes'
    BY <2>1 DEF Shapes
  <2>6. LockInv'
    BY <2>1, <2>2, <2>3, <2>4 DEF Safe, LockInv, Others
  <2>7. RunInv'
    BY <2>1, <2>3 DEF Safe, RunInv
  <2>8. TokenInv' /\ AuditInv'
    BY <2>1, <2>2, <2>3 DEF Safe, TokenInv, AuditInv
  <2> QED
    BY <2>5, <2>6, <2>7, <2>8 DEF Safe
<1>24. CASE OnRemovalFinished
  <2>1. Kept /\ UNCHANGED globals
    BY <1>24 DEF OnRemovalFinished, Kept, Shapes, lock, service, plan, policy, globals
  <2>2. End("removal")
    BY <1>24 DEF OnRemovalFinished
  <2>3. "removal" \in Others \ {"globals"}
    BY DEF Others, Workers
  <2> QED
    BY <2>1, <2>2, <2>3, Ended
<1>25. CASE ExitWhenDone
  BY <1>25, Left DEF ExitWhenDone
<1>26. CASE \E v \in Views : ShowView(v)
  <2>1. PICK v \in Views : ShowView(v)
    BY <1>26
  <2>2. Kept /\ UNCHANGED <<work, holder>>
    BY <2>1 DEF ShowView, StateRefreshed, Kept, Shapes, lock, service, plan
  <2>3. CASE UNCHANGED globals
    BY <2>2, <2>3, Framed
  <2>4. CASE StartAudit(doctor)
    BY <2>2, <2>4, Restart, Audited
  <2> QED
    BY <2>1, <2>3, <2>4 DEF ShowView
<1>27. CASE Refused
  <2>1. Kept /\ UNCHANGED <<work, holder, globals>>
    BY <1>27 DEF Refused, Kept, Shapes, lock, service, plan, policy, globals
  <2> QED
    BY <2>1, Framed
<1>28. CASE ToggleJob
  <2>1. Kept /\ UNCHANGED globals
    BY <1>28 DEF ToggleJob, Kept, Shapes, service, plan, policy, globals
  <2>2. Free /\ Begin("toggle", row) /\ "toggle" \in Others
    BY <1>28 DEF ToggleJob, Others, Workers
  <2> QED
    BY <2>1, <2>2, Begun
<1>29. CASE PickTime
  <2>1. Kept /\ UNCHANGED <<work, holder, globals>>
    BY <1>29 DEF PickTime, Kept, Shapes, lock, service, plan, policy, globals, OnScreen
  <2> QED
    BY <2>1, Framed
<1>30. CASE TimePicked
  <2>1. Kept /\ UNCHANGED <<work, holder, globals>>
    BY <1>30, ModalClosed DEF TimePicked, Kept, Shapes, lock, service, plan, policy, globals
  <2> QED
    BY <2>1, Framed
<1>31. CASE ReinstallGlobals
  <2>1. Kept
    BY <1>31 DEF ReinstallGlobals, Kept, Shapes, plan
  <2>2. \/ UNCHANGED <<lock, globals>>
        \/ StartAudit(doctor) /\ UNCHANGED lock
        \/ Free /\ Begin("globals", Unknown) /\ UNCHANGED globals
    BY <1>31 DEF ReinstallGlobals
  <2>3. CASE UNCHANGED <<lock, globals>>
    BY <2>1, <2>3, Framed DEF lock
  <2>4. CASE StartAudit(doctor) /\ UNCHANGED lock
    BY <2>1, <2>4, Restart, Audited DEF lock
  <2>5. CASE Free /\ Begin("globals", Unknown) /\ UNCHANGED globals
    <3>1. "globals" \in Others
      BY DEF Others, Workers
    <3> QED
      BY <2>1, <2>5, <3>1, Begun
  <2> QED
    BY <2>2, <2>3, <2>4, <2>5
<1>32. CASE UpdateTool
  <2>1. Kept /\ UNCHANGED globals
    BY <1>32 DEF UpdateTool, Kept, Shapes, plan, policy, globals
  <2>2. \/ Free /\ Begin("update", Unknown)
        \/ UNCHANGED lock
    BY <1>32 DEF UpdateTool
  <2>3. "update" \in Others
    BY DEF Others, Workers
  <2>4. CASE Free /\ Begin("update", Unknown)
    BY <2>1, <2>3, <2>4, Begun
  <2>5. CASE UNCHANGED lock
    BY <2>1, <2>5, Framed DEF lock
  <2> QED
    BY <2>2, <2>4, <2>5
<1>33. CASE Accept
  <2>1. ui'.modal = "deciding" /\ ui.modal = "none" /\ DOMAIN ui' = DOMAIN ui /\ holder = "none"
    BY <1>33 DEF Accept, OnScreen, Free, Shapes
  <2>2. UNCHANGED <<work, holder, ex, waiters, settled, doctor, audits, current>>
    BY <1>33 DEF Accept, lock, service, plan, globals
  <2>3. ex = Closed /\ work["install"] = "idle"
    BY <2>1 DEF Safe, RunInv, LockInv, Closed
  <2>4. Shapes' /\ LockInv' /\ TokenInv' /\ AuditInv'
    BY <2>1, <2>2 DEF Shapes, Safe, LockInv, TokenInv, AuditInv
  <2>5. RunInv'
    BY <2>1, <2>2, <2>3 DEF Safe, RunInv
  <2> QED
    BY <2>4, <2>5 DEF Safe
<1>34. CASE Enter
  BY <1>34, EnterStep
<1>35. CASE CancelWait
  <2>1. /\ ui.modal = "execute" /\ ex.wanted
        /\ UNCHANGED <<work, holder, ui, current, waiters, settled, doctor, audits>>
    BY <1>35 DEF CancelWait, lock, service, globals
  <2>2. /\ DOMAIN ex' = DOMAIN ex /\ ex'.token = ex.token + 1 /\ ex'.waiting = FALSE
        /\ ex'.wanted = FALSE /\ ex'.cancelled = TRUE /\ ex'.started = ex.started
        /\ ex'.finished = ex.finished /\ ex'.wait = ex.wait
    BY <1>35 DEF CancelWait, Shapes, Closed
  <2>3. Shapes'
    <3>1. ex'.token \in Nat /\ DOMAIN ex' = DOMAIN Closed
      BY <2>2 DEF Shapes
    <3> QED
      BY <2>1, <2>2, <3>1 DEF Shapes
  <2>4. LockInv' /\ RunInv' /\ AuditInv'
    BY <2>1, <2>2 DEF Safe, LockInv, RunInv, AuditInv
  <2>5. TokenInv'
    BY <2>1, <2>2 DEF Safe, TokenInv, Shapes
  <2> QED
    BY <2>3, <2>4, <2>5 DEF Safe
<1>36. CASE Close
  <2>1. /\ ui.modal = "execute" /\ (ex.finished \/ (ex.started = "no" /\ ~ex.wanted))
        /\ ex' = Closed /\ waiters' = {} /\ settled' = {}
        /\ UNCHANGED <<work, holder, current, doctor, audits>>
    BY <1>36 DEF Close, lock, globals
  <2>2. DOMAIN ui' = DOMAIN ui /\ ui'.modal = "none"
    BY <1>36, ModalClosed DEF Close
  <2>3. ex.started # "posted" /\ work["install"] \notin {"running", "posted"}
    BY <2>1 DEF Safe, RunInv
  <2>4. Shapes'
    BY <2>1, <2>2 DEF Shapes, Closed
  <2>5. LockInv' /\ RunInv'
    BY <2>1, <2>2, <2>3 DEF Safe, LockInv, RunInv, Closed
  <2>6. TokenInv' /\ AuditInv'
    BY <2>1 DEF Safe, TokenInv, AuditInv, Closed
  <2> QED
    BY <2>4, <2>5, <2>6 DEF Safe
<1>37. CASE AskRemoval
  <2>1. Kept /\ UNCHANGED <<work, holder, globals>>
    BY <1>37 DEF AskRemoval, Kept, Shapes, lock, service, plan, policy, globals, OnScreen
  <2> QED
    BY <2>1, Framed
<1>38. CASE ConfirmRemoval
  <2>1. Kept /\ UNCHANGED globals
    BY <1>38, ModalClosed DEF ConfirmRemoval, Kept, Shapes, plan, policy, globals
  <2>2. \/ Free /\ Begin("removal", Unknown)
        \/ UNCHANGED lock
    BY <1>38 DEF ConfirmRemoval
  <2>3. "removal" \in Others
    BY DEF Others, Workers
  <2>4. CASE Free /\ Begin("removal", Unknown)
    BY <2>1, <2>3, <2>4, Begun
  <2>5. CASE UNCHANGED lock
    BY <2>1, <2>5, Framed DEF lock
  <2> QED
    BY <2>2, <2>4, <2>5
<1>39. CASE CancelRemoval
  <2>1. Kept /\ UNCHANGED <<work, holder, globals>>
    BY <1>39, ModalClosed DEF CancelRemoval, Kept, Shapes, lock, service, plan, policy, globals
  <2> QED
    BY <2>1, Framed
<1>40. CASE Quit
  <2>1. CASE holder # "removal"
    BY <1>40, <2>1, Left DEF Quit
  <2>2. CASE holder = "removal"
    <3>1. Kept /\ UNCHANGED <<work, holder, globals>>
      BY <1>40, <2>2 DEF Quit, Kept, Shapes, lock, service, plan, policy, globals
    <3> QED
      BY <3>1, Framed
  <2> QED
    BY <2>1, <2>2
<1>41. CASE HardAbort
  BY <1>41, Left DEF HardAbort
<1> QED
  BY <1>1, <1>2, <1>3, <1>4, <1>5, <1>6, <1>7, <1>8, <1>9, <1>10, <1>11, <1>12, <1>13, <1>14,
     <1>15, <1>16, <1>17, <1>18, <1>19, <1>20, <1>21, <1>22, <1>23, <1>24, <1>25, <1>26,
     <1>27, <1>28, <1>29, <1>30, <1>31, <1>32, <1>33, <1>34, <1>35, <1>36, <1>37, <1>38,
     <1>39, <1>40, <1>41
  DEF Next, Pass, Threads, Messages, Keys

LEMMA NextIsUp == Next => Up
  BY DEF Next, Pass, Threads, Messages, Keys, Up, Key, OnScreen, Posts, End, Quitting,
     PassBegins, PassPublishes, PassFails, OnRefreshPublished, OnRefreshFinished, OnStateSettled,
     DaemonWorks, ToggleWorks, UpdateWorks, InstallWorks, RemovalWorks, ReinstallWorks,
     OnRefreshRequested, OnDaemonDefaultApplied, OnPolicyToggled, OnJobStatesRead,
     OnGlobalsAudited, OnGlobalsReinstalled, OnToolUpdated, Decided, OnInstallRunStarted,
     ScreenRunFinished, OnInstallRunFinished, OnRemovalFinished, ExitWhenDone, ShowView, Refused,
     ToggleJob, PickTime, TimePicked, ReinstallGlobals, UpdateTool, Accept, Enter, CancelWait,
     Close, AskRemoval, ConfirmRemoval, CancelRemoval, Quit, HardAbort

LEMMA InitInv == Init => IInv
<1> SUFFICES ASSUME Init PROVE IInv
  OBVIOUS
<1>1. ex = Closed /\ waiters = {} /\ settled = {} /\ doctor = Unasked /\ audits = {}
  BY DEF Init
<1>2. ui = [view |-> "catalog", modal |-> "none", shown |-> FALSE] /\ current = FALSE
  BY DEF Init
<1>3. \/ holder = "none" /\ work = [w \in Workers |-> "idle"]
      \/ holder = "daemon" /\ work = [w \in Workers |-> IF w = "daemon" THEN "running" ELSE "idle"]
  BY DEF Init
<1>4. Shapes
  BY <1>1, <1>2, <1>3 DEF Shapes, Closed, Unasked, Workers
<1>5. LockInv
  BY <1>1, <1>3 DEF LockInv, Others, Workers, Closed
<1>6. RunInv
  BY <1>1, <1>2, <1>3 DEF RunInv, Workers, Closed
<1>7. TokenInv
  BY <1>1 DEF TokenInv, Closed
<1>8. AuditInv
  BY <1>1, BoundsAssumption DEF AuditInv, Unasked, BoundsAssumption
<1> QED
  BY <1>4, <1>5, <1>6, <1>7, <1>8 DEF IInv, Safe

LEMMA Invariance == Spec => []IInv
<1>1. IInv /\ [Next]_vars => IInv'
  <2> SUFFICES ASSUME IInv, [Next]_vars PROVE IInv'
    OBVIOUS
  <2>1. CASE Next
    BY <2>1, NextIsUp, NextStep DEF IInv
  <2>2. CASE UNCHANGED vars
    BY <2>2 DEF vars, lock, plan, service, policy, globals, IInv, Shapes, Safe, Up, LockInv, RunInv,
       TokenInv, AuditInv
  <2> QED
    BY <2>1, <2>2
<1> QED
  BY <1>1, InitInv, PTL DEF Spec

-----------------------------------------------------------------------------
(***************************************************************************)
(* The report of pnpm's globals that a reinstall acts on is from after the *)
(* last reinstall (wizard_app.py, the generation of an audit).             *)
(***************************************************************************)
THEOREM ReportAlwaysFollows == Spec => []ReportFollowsReinstall
<1>1. IInv => ReportFollowsReinstall
  BY DEF IInv, Safe, AuditInv, ReportFollowsReinstall
<1> QED
  BY <1>1, Invariance, PTL

\* A run starts on a plan that was made from the present states.
LEMMA StartIsPlanned ==
  ASSUME Shapes, Safe, Next, ex.started = "no", ex'.started # "no"
  PROVE  ~ex'.wait /\ current
<1>1. Enter \/ OnStateSettled
  <2>1. ex' # ex /\ ex' # Closed
    BY DEF Closed
  <2>2. ~Pass /\ ~Threads
    BY <2>1 DEF Pass, Threads, PassBegins, PassPublishes, PassFails, OnRefreshPublished,
       OnRefreshFinished, DaemonWorks, ToggleWorks, UpdateWorks, InstallWorks, RemovalWorks,
       ReinstallWorks, plan
  <2>3. CASE Messages
    <3>1. CASE Decided
      <4>1. ex' \in {Closed, Replanned(Closed), [Replanned(Closed) EXCEPT !.waiting = TRUE]}
        BY <3>1 DEF Decided, Opened, Awaiting
      <4>2. ex'.started = "no"
        <5>1. CASE ex' = Closed
          BY <5>1 DEF Closed
        <5>2. CASE ex' = Replanned(Closed)
          BY <5>2 DEF Replanned, Closed
        <5>3. CASE ex' = [Replanned(Closed) EXCEPT !.waiting = TRUE]
          BY <5>3 DEF Replanned, Closed
        <5> QED
          BY <4>1, <5>1, <5>2, <5>3
      <4> QED
        BY <4>2
    <3>2. CASE OnInstallRunStarted \/ ScreenRunFinished
      <4>1. OnInstallRunStarted => ex.started = "posted"
        BY DEF OnInstallRunStarted
      <4>2. ScreenRunFinished => ex.started = "yes"
        BY DEF ScreenRunFinished, Safe, RunInv
      <4> QED
        BY <3>2, <4>1, <4>2
    <3>3. CASE \/ OnRefreshRequested \/ OnDaemonDefaultApplied \/ OnPolicyToggled
               \/ OnJobStatesRead \/ OnGlobalsAudited \/ OnGlobalsReinstalled \/ OnToolUpdated
               \/ OnInstallRunFinished \/ OnRemovalFinished \/ ExitWhenDone
      BY <2>1, <3>3 DEF OnRefreshRequested, OnDaemonDefaultApplied, OnPolicyToggled,
         OnJobStatesRead, OnGlobalsAudited, OnGlobalsReinstalled, OnToolUpdated,
         OnInstallRunFinished, OnRemovalFinished, ExitWhenDone, Leaves, plan
    <3> QED
      BY <2>3, <3>1, <3>2, <3>3 DEF Messages
  <2>4. CASE Keys
    <3>1. CASE CancelWait
      BY <3>1 DEF CancelWait, Shapes, Closed
    <3>2. CASE \/ \E v \in Views : ShowView(v)
               \/ Refused \/ ToggleJob \/ PickTime \/ TimePicked \/ ReinstallGlobals
               \/ UpdateTool \/ Accept \/ Close \/ AskRemoval \/ ConfirmRemoval
               \/ CancelRemoval \/ Quit \/ HardAbort
      BY <2>1, <3>2 DEF ShowView, Refused, ToggleJob, PickTime, TimePicked, ReinstallGlobals,
         UpdateTool, Accept, Close, AskRemoval, ConfirmRemoval, CancelRemoval, Quit, HardAbort,
         Leaves, plan
    <3> QED
      BY <2>4, <3>1, <3>2 DEF Keys
  <2> QED
    BY <2>2, <2>3, <2>4 DEF Next
<1>2. CASE Enter
  <2> DEFINE e == IF ex.cancelled THEN [ex EXCEPT !.cancelled = FALSE] ELSE Replanned(ex)
  <2>1. /\ IF ~e.wait THEN Started(e) /\ UNCHANGED <<waiters, pass>>
           ELSE /\ IF e.wanted THEN ex' = e /\ UNCHANGED <<waiters, pass>>
                               ELSE Awaiting([e EXCEPT !.wanted = TRUE])
                /\ UNCHANGED lock
    BY <1>2 DEF Enter
  <2>2. DOMAIN e = DOMAIN Closed /\ e.started = "no"
    BY DEF Replanned, Shapes, Closed
  <2>3. ex.cancelled => e.wait
    BY DEF Safe, TokenInv, Shapes, Closed
  <2>4. ~ex.cancelled => e.wait = ~current
    BY DEF Replanned, Shapes, Closed
  <2> HIDE DEF e
  <2>5. ~e.wait
    BY <2>1, <2>2 DEF Awaiting, Closed
  <2>6. ex' = [e EXCEPT !.started = "posted"]
    BY <2>1, <2>5 DEF Started
  <2>7. ex'.wait = e.wait
    BY <2>2, <2>6 DEF Closed
  <2> QED
    BY <2>3, <2>4, <2>5, <2>7
<1>3. CASE OnStateSettled
  <2>1. PICK m \in settled :
          IF m.token = ex.token THEN Settles(ex, m.error) ELSE UNCHANGED <<ex, lock>>
    BY <1>3 DEF OnStateSettled
  <2>2. Settles(ex, m.error)
    BY <2>1
  <2>3. CASE ex.started = "no" /\ ~m.error /\ ex.wanted /\ ~Replanned(ex).wait
    <3> DEFINE e == [Replanned(ex) EXCEPT !.waiting = FALSE, !.wanted = FALSE]
    <3>1. ex' = [e EXCEPT !.started = "posted"]
      BY <2>2, <2>3 DEF Settles, Started
    <3>2. DOMAIN e = DOMAIN Closed /\ e.wait = ~current /\ Replanned(ex).wait = ~current
      BY DEF Replanned, Shapes, Closed
    <3> HIDE DEF e
    <3>3. ex'.wait = e.wait
      BY <3>1, <3>2 DEF Closed
    <3> QED
      BY <2>3, <3>2, <3>3
  <2>4. CASE ~(ex.started = "no" /\ ~m.error /\ ex.wanted /\ ~Replanned(ex).wait)
    <3>1. ex' = [(IF m.error THEN ex ELSE Replanned(ex))
                   EXCEPT !.waiting = FALSE, !.wanted = FALSE]
      BY <2>2, <2>4 DEF Settles
    <3>2. ex'.started = ex.started
      BY <3>1 DEF Replanned, Shapes, Closed
    <3> QED
      BY <3>2
  <2> QED
    BY <2>3, <2>4
<1> QED
  BY <1>1, <1>2, <1>3

\* Quitting waits for the thread of a removal.
LEMMA QuitWaits ==
  ASSUME Shapes, Safe, Next, app = "up", app' = "exited"
  PROVE  work["removal"] # "running"
<1>1. Quit /\ holder # "removal"
  <2>1. app' # app
    OBVIOUS
  <2>2. ~Pass /\ ~OnStateSettled
    BY <2>1 DEF Pass, PassBegins, PassPublishes, PassFails, OnRefreshPublished, OnRefreshFinished,
       OnStateSettled
  <2>3. ~Threads
    BY DEF Threads, DaemonWorks, ToggleWorks, UpdateWorks, InstallWorks, RemovalWorks,
       ReinstallWorks
  <2>4. ~Messages
    BY DEF Messages, OnRefreshRequested, OnDaemonDefaultApplied, OnPolicyToggled,
       OnJobStatesRead, OnGlobalsAudited, OnGlobalsReinstalled, OnToolUpdated, Decided,
       OnInstallRunStarted, ScreenRunFinished, OnInstallRunFinished, OnRemovalFinished,
       ExitWhenDone, Leaves
  <2>5. CASE Keys
    BY <2>5 DEF Keys, ShowView, Refused, ToggleJob, PickTime, TimePicked, ReinstallGlobals,
       UpdateTool, Accept, Enter, CancelWait, Close, AskRemoval, ConfirmRemoval, CancelRemoval,
       Quit, HardAbort, Leaves
  <2> QED
    BY <2>2, <2>3, <2>4, <2>5 DEF Next
<1>2. "removal" \in Others
  BY DEF Others, Workers
<1> QED
  BY <1>1, <1>2 DEF Safe, LockInv

(***************************************************************************)
(* The app-wide lock names the one thread that changes the machine, a quit *)
(* never cuts a removal off, and a run starts only on a plan of the        *)
(* present states (begin_mutation, _quit_when_safe, _awaiting_state).      *)
(***************************************************************************)
THEOREM LockAlwaysGuards == Spec => LockGuardsTheWork
<1>1. IInv /\ IInv' /\ [Next]_vars =>
        [/\ LockNamesTheThread'
         /\ app = "up" /\ app' = "exited" => work["removal"] # "running"
         /\ ex.started = "no" /\ ex'.started # "no" => ~ex'.wait /\ current]_vars
  <2> SUFFICES ASSUME IInv, IInv', Next
               PROVE  /\ LockNamesTheThread'
                      /\ app = "up" /\ app' = "exited" => work["removal"] # "running"
                      /\ ex.started = "no" /\ ex'.started # "no" => ~ex'.wait /\ current
    OBVIOUS
  <2>1. LockNamesTheThread'
    BY DEF IInv, Safe, LockInv, LockNamesTheThread, Others
  <2>2. Shapes /\ Safe
    BY NextIsUp DEF IInv
  <2> QED
    BY <2>1, <2>2, QuitWaits, StartIsPlanned
<1> QED
  BY <1>1, Invariance, PTL DEF Spec, LockGuardsTheWork
-----------------------------------------------------------------------------
(***************************************************************************)
(* What the view shows once nothing is running or queued.                  *)
(***************************************************************************)
Passes == [at : {"idle", "asked", "reading", "published", "finished"},
           valid : BOOLEAN, error : BOOLEAN, pending : BOOLEAN, asked : BOOLEAN]
Covers == {"execute", "confirm", "time"}   \* modals under which the view is not painted
Painted == {"none", "deciding"}

Typed ==
  /\ pass \in Passes /\ (pass.at = "idle" => ~pass.pending)
  /\ ui \in [view : Views, shown : BOOLEAN, modal : Covers \cup Painted]
  /\ \A r \in reads : DOMAIN r = {"fresh", "val"}

\* A pass was asked for; the view will be painted: by a pass, or when a modal closes.
Asks(p) == p.asked \/ p.pending \/ p.at = "asked"
Renders == Asks(pass) \/ pass.at \in {"reading", "published"} \/ ui.modal \in Covers

ShownInv == ~ui.shown => pass.at \in {"asked", "reading", "published"} \/ ui.modal \in Covers

\* The row is the job's, or the read that is under way will find the job as it is; else
\* the view is yet to be painted, which reads the job, or a change is yet to be handled.
RowSettled ==
  /\ \A r \in reads : r.fresh => r.val = job
  /\ row \in {job, Unknown} \/ \E r \in reads : r.fresh
JobChanges == \E w \in {"daemon", "toggle", "removal"} : work[w] = "posted"
RowInv == ui.view = "policies" => RowSettled \/ Renders \/ JobChanges

\* The run's message says what its screen will know of it.
EndInv ==
  /\ work["install"] \in {"posted", "bubbling"} => said \in BOOLEAN
  /\ work["install"] = "bubbling" => ex.finished /\ ex.ran = said

\* A state that is not current will be asked for, or its pass failed, or whoever made it so
\* is yet to ask for a pass.
Refreshes ==
  \/ Asks(pass) \/ (pass.at = "reading" /\ pass.valid)
  \/ pass.error /\ pass.at \in {"published", "finished", "idle"}
Reports ==
  \/ \E w \in {"update", "removal", "globals"} : work[w] = "posted"
  \/ work["install"] = "posted" /\ said = TRUE
  \/ ex.finished /\ ex.ran = TRUE
CurrentInv == ~current => Refreshes \/ Reports

Quietly == Typed /\ ShownInv /\ RowInv /\ (~KeysRace => EndInv /\ CurrentInv)

\* A pass like p, of which more is asked.
More(p, q) ==
  /\ q \in Passes /\ (q.at = "idle" => ~q.pending)
  /\ q.error = p.error /\ q.valid = p.valid
  /\ q.at = p.at \/ (p.at = "idle" /\ q.at = "asked")
  /\ Asks(p) => Asks(q)

LEMMA MoreAsked ==
  ASSUME NEW p \in Passes, p.at = "idle" => ~p.pending
  PROVE  /\ More(p, p)
         /\ More(p, Ask(p)) /\ Asks(Ask(p))
         /\ More(p, RequestRefresh(p)) /\ Asks(RequestRefresh(p))
         /\ More(p, RequestRefresh([p EXCEPT !.asked = FALSE]))
         /\ Asks(RequestRefresh([p EXCEPT !.asked = FALSE]))
<1>1. /\ [p EXCEPT !.asked = TRUE] \in Passes
      /\ [p EXCEPT !.asked = TRUE].at = p.at /\ [p EXCEPT !.asked = TRUE].asked
      /\ [p EXCEPT !.asked = TRUE].pending = p.pending
      /\ [p EXCEPT !.asked = TRUE].error = p.error /\ [p EXCEPT !.asked = TRUE].valid = p.valid
  BY DEF Passes
<1>2. \A q \in Passes :
        /\ [q EXCEPT !.at = "asked"] \in Passes /\ [q EXCEPT !.at = "asked"].at = "asked"
        /\ [q EXCEPT !.at = "asked"].error = q.error /\ [q EXCEPT !.at = "asked"].valid = q.valid
        /\ [q EXCEPT !.pending = TRUE] \in Passes /\ [q EXCEPT !.pending = TRUE].at = q.at
        /\ [q EXCEPT !.pending = TRUE].pending
        /\ [q EXCEPT !.pending = TRUE].error = q.error /\ [q EXCEPT !.pending = TRUE].valid = q.valid
  BY DEF Passes
<1>3. /\ [p EXCEPT !.asked = FALSE] \in Passes
      /\ [p EXCEPT !.asked = FALSE].at = p.at /\ [p EXCEPT !.asked = FALSE].error = p.error
      /\ [p EXCEPT !.asked = FALSE].valid = p.valid
  BY DEF Passes
<1>4. More(p, p)
  BY DEF More
<1>5. More(p, Ask(p)) /\ Asks(Ask(p))
  BY <1>1 DEF More, Ask, Asks
<1>6. \A q \in Passes : q.at = p.at /\ q.error = p.error /\ q.valid = p.valid =>
        More(p, RequestRefresh(q)) /\ Asks(RequestRefresh(q))
  BY <1>2 DEF More, RequestRefresh, Asks
<1> QED
  BY <1>3, <1>4, <1>5, <1>6

\* The service drops the pass under way.
LEMMA DroppedPass ==
  ASSUME NEW p \in Passes
  PROVE  LET q == [p EXCEPT !.valid = FALSE]
         IN  q \in Passes /\ q.at = p.at /\ q.error = p.error /\ q.pending = p.pending /\ q.asked = p.asked
  BY DEF Passes

LEMMA RestartedFinds ==
  ASSUME NEW S, \A r \in S : DOMAIN r = {"fresh", "val"}, NEW v
  PROVE  /\ \A r \in Restarted(S, v) : DOMAIN r = {"fresh", "val"} /\ (r.fresh => r.val = v)
         /\ \E r \in Restarted(S, v) : r.fresh
         /\ \A r \in Superseded(S) : DOMAIN r = {"fresh", "val"} /\ ~r.fresh
<1>1. \A r \in Superseded(S) : DOMAIN r = {"fresh", "val"} /\ ~r.fresh
  BY DEF Superseded
<1>2. DOMAIN [fresh |-> TRUE, val |-> v] = {"fresh", "val"} /\ [fresh |-> TRUE, val |-> v].val = v
      /\ [fresh |-> TRUE, val |-> v].fresh
  OBVIOUS
<1> QED
  BY <1>1, <1>2 DEF Restarted

\* Whoever mutates is alone, and the run's message is not on its way.
LEMMA Alone ==
  ASSUME Shapes, Safe
  PROVE  /\ \A v, w \in Others : work[v] # "idle" /\ work[w] # "idle" => v = w
         /\ \A w \in Others : work[w] # "idle" => work["install"] \notin {"posted", "bubbling"}
         /\ Free => /\ \A w \in Others : work[w] = "idle"
                    /\ work["install"] \notin {"posted", "bubbling"}
         /\ "daemon" \in Others /\ "toggle" \in Others /\ "update" \in Others
         /\ "removal" \in Others /\ "globals" \in Others
<1>1. /\ "install" \notin Others /\ "none" \notin Workers /\ Others \subseteq Workers
      /\ "daemon" \in Others /\ "toggle" \in Others /\ "update" \in Others
      /\ "removal" \in Others /\ "globals" \in Others
  BY DEF Others, Workers
<1>2. \A v, w \in Others : work[v] # "idle" /\ work[w] # "idle" => v = w
  BY DEF Safe, LockInv
<1>3. \A w \in Others : work[w] # "idle" => work["install"] \notin {"posted", "bubbling"}
  <2> SUFFICES ASSUME NEW w \in Others, work[w] # "idle"
               PROVE  work["install"] \notin {"posted", "bubbling"}
    OBVIOUS
  <2>1. holder = w /\ w # "install"
    BY <1>1 DEF Safe, LockInv
  <2> QED
    BY <2>1 DEF Safe, LockInv
<1>4. Free => \A w \in Others : work[w] = "idle"
  BY <1>1 DEF Free, Safe, LockInv
<1>5. Free => work["install"] \notin {"posted", "bubbling"}
  BY <1>1 DEF Free, Safe, LockInv
<1> QED
  BY <1>1, <1>2, <1>3, <1>4, <1>5

\* No message is lost, and the run's stays as it is or starts.
WorkKept ==
  /\ \A w \in Others : work[w] = "posted" => work'[w] = "posted"
  /\ \/ work'["install"] = work["install"]
     \/ work'["install"] = "running" /\ work["install"] \notin {"posted", "bubbling"}
  /\ said' = said \/ work["install"] \notin {"posted", "bubbling"}

LEMMA BegunKeeps ==
  ASSUME Shapes, Safe, NEW w \in Others, NEW words, Free, Begin(w, words) PROVE WorkKept
<1>1. /\ work' = [work EXCEPT ![w] = "running"] /\ w # "install" /\ "install" \in Workers
      /\ Others \subseteq Workers
  BY DEF Begin, Others, Workers
<1>2. work'["install"] = work["install"]
  BY <1>1 DEF Shapes
<1> QED
  BY <1>2, Alone DEF WorkKept

LEMMA PostedKeeps ==
  ASSUME Shapes, Safe, NEW w \in Others, NEW words, Posts(w, words)
  PROVE  WorkKept /\ work'[w] = "posted"
<1>1. /\ work' = [work EXCEPT ![w] = "posted"] /\ work[w] = "running" /\ w # "install"
      /\ "install" \in Workers /\ Others \subseteq Workers
  BY DEF Posts, Others, Workers
<1>2. work'["install"] = work["install"] /\ work'[w] = "posted"
  BY <1>1 DEF Shapes
<1>3. \A v \in Others : work[v] = "posted" => work'[v] = "posted"
  BY <1>1 DEF Shapes
<1>4. work["install"] \notin {"posted", "bubbling"}
  BY <1>1, Alone
<1> QED
  BY <1>2, <1>3, <1>4 DEF WorkKept

\* The handler of a message of w: nobody else has one on its way.
LEMMA EndedAlone ==
  ASSUME Shapes, Safe, NEW w \in Others, End(w)
  PROVE  /\ work["install"] \notin {"posted", "bubbling"} /\ work'["install"] = work["install"]
         /\ \A v \in Others \ {w} : work[v] # "posted"
<1>1. /\ work' = [work EXCEPT ![w] = "idle"] /\ work[w] = "posted" /\ w # "install"
      /\ "install" \in Workers
  BY DEF End, Others, Workers
<1> QED
  BY <1>1, Alone DEF Shapes

-----------------------------------------------------------------------------
(***************************************************************************)
(* What most steps keep.                                                   *)
(***************************************************************************)
\* More is asked of the pass, and the view stays as it is or is covered.
ViewKept ==
  /\ More(pass, pass')
  /\ ui' \in [view : Views, shown : BOOLEAN, modal : Covers \cup Painted]
  /\ ui'.view = ui.view /\ ui'.shown = ui.shown
  /\ ui'.modal = ui.modal \/ ui'.modal \in Covers \/ ui.modal \in Painted
  /\ UNCHANGED <<reads, row, job>>

LEMMA ViewKeeps ==
  ASSUME Typed, ShownInv, RowInv, ViewKept, JobChanges => JobChanges'
  PROVE  Typed' /\ ShownInv' /\ RowInv'
<1>1. Typed'
  BY DEF Typed, ViewKept, More
<1>2. ShownInv'
  BY DEF ShownInv, ViewKept, More, Covers, Painted
<1>3. Renders => Renders'
  BY DEF Renders, ViewKept, More, Covers, Painted
<1>4. RowInv'
  BY <1>3 DEF RowInv, RowSettled, ViewKept
<1> QED
  BY <1>1, <1>2, <1>4

\* The view is painted, and on Policies the job is read.
ViewPainted ==
  /\ ui' \in [view : Views, shown : BOOLEAN, modal : Covers \cup Painted] /\ ui'.shown
  /\ IF ui'.view = "policies" THEN reads' = Restarted(reads, job') ELSE reads' = reads

LEMMA ViewPaints ==
  ASSUME Typed, ViewPainted, pass' \in Passes, pass'.at = "idle" => ~pass'.pending
  PROVE  Typed' /\ ShownInv' /\ RowInv'
<1>1. \A r \in reads' : DOMAIN r = {"fresh", "val"}
  BY RestartedFinds DEF Typed, ViewPainted
<1>2. Typed' /\ ShownInv'
  BY <1>1 DEF Typed, ShownInv, ViewPainted
<1>3. ui'.view = "policies" => RowSettled'
  BY RestartedFinds DEF Typed, ViewPainted, RowSettled
<1> QED
  BY <1>2, <1>3 DEF RowInv

LEMMA PaintedWhenResumed ==
  ASSUME Typed, Resumed PROVE ViewPainted
  BY DEF Typed, Resumed, StateRefreshed, ViewPainted, Painted, Covers

\* What is current stays so, and whoever is to ask for a pass still is.
CurrentKept ==
  /\ current' = current
  /\ \A w \in {"update", "removal", "globals"} : work[w] = "posted" => work'[w] = "posted"
  /\ \/ work'["install"] = work["install"]
     \/ work'["install"] = "running" /\ work["install"] \notin {"posted", "bubbling"}
  /\ said' = said \/ work["install"] \notin {"posted", "bubbling"}
  /\ ex'.finished = ex.finished /\ ex'.ran = ex.ran

LEMMA CurrentKeeps ==
  ASSUME EndInv, CurrentInv, CurrentKept, More(pass, pass') PROVE EndInv' /\ CurrentInv'
<1>1. EndInv'
  BY DEF EndInv, CurrentKept
<1>2. Reports => Reports'
  BY DEF Reports, CurrentKept
<1>3. Refreshes => Refreshes'
  BY DEF Refreshes, More, Asks
<1> QED
  BY <1>1, <1>2, <1>3 DEF CurrentInv, CurrentKept

LEMMA WorkIsKept ==
  ASSUME Shapes, Safe, WorkKept, current' = current, ex'.finished = ex.finished, ex'.ran = ex.ran
  PROVE  CurrentKept /\ (JobChanges => JobChanges')
  BY Alone DEF WorkKept, CurrentKept, JobChanges

\* The usual step: more is asked for, the view stays, no message is lost.
LEMMA QuietStep ==
  ASSUME Shapes, Safe, Quietly, ViewKept, WorkKept, current' = current,
         ex'.finished = ex.finished, ex'.ran = ex.ran
  PROVE  Quietly'
<1>1. CurrentKept /\ (JobChanges => JobChanges')
  BY WorkIsKept
<1>2. Typed' /\ ShownInv' /\ RowInv'
  BY <1>1, ViewKeeps DEF Quietly
<1>3. ~KeysRace => EndInv' /\ CurrentInv'
  BY <1>1, CurrentKeeps DEF Quietly, ViewKept
<1> QED
  BY <1>2, <1>3 DEF Quietly
-----------------------------------------------------------------------------
(***************************************************************************)
(* One step per action, while the app is up.                               *)
(***************************************************************************)
LEMMA PassQuiet ==
  ASSUME Shapes, Safe, Quietly, app = "up", Pass PROVE Quietly'
<1> USE DEF Quietly, Covers, Painted
<1>1. CASE PassBegins
  <2>1. /\ pass' = [pass EXCEPT !.at = "reading", !.valid = TRUE] /\ pass.at = "asked"
        /\ UNCHANGED <<ui, reads, row, job, current, ex, work, said>>
    BY <1>1 DEF PassBegins, lock, plan, policy
  <2>2. pass' \in Passes /\ pass'.at = "reading" /\ pass'.valid
    BY <2>1 DEF Typed, Passes
  <2>3. Typed' /\ ShownInv' /\ RowInv'
    BY <2>1, <2>2 DEF Typed, ShownInv, RowInv, Renders
  <2>4. EndInv /\ CurrentInv => EndInv' /\ CurrentInv'
    BY <2>1, <2>2 DEF EndInv, CurrentInv, Refreshes
  <2> QED
    BY <2>3, <2>4
<1>2. CASE PassPublishes
  <2>1. /\ pass' = [pass EXCEPT !.at = "published", !.error = FALSE, !.valid = FALSE]
        /\ pass.at = "reading" /\ current' = (current \/ pass.valid)
        /\ ui' = [ui EXCEPT !.shown = ui.shown /\ ~pass.valid]
        /\ UNCHANGED <<reads, row, job, ex, work, said>>
    BY <1>2 DEF PassPublishes, lock, plan, policy
  <2>2. /\ pass' \in Passes /\ pass'.at = "published" /\ pass'.asked = pass.asked
        /\ pass'.pending = pass.pending
    BY <2>1 DEF Typed, Passes
  <2>3. (ui.shown /\ ~pass.valid) \in BOOLEAN
    OBVIOUS
  <2>4. ui' \in [view : Views, shown : BOOLEAN, modal : Covers \cup Painted] /\ ui'.modal = ui.modal
    BY <2>1, <2>3 DEF Typed
  <2>5. Typed' /\ ShownInv' /\ RowInv'
    BY <2>1, <2>2, <2>4 DEF Typed, ShownInv, RowInv, Renders
  <2>6. ~current' => ~current /\ ~pass.valid
    BY <2>1
  <2>7. EndInv /\ CurrentInv => EndInv' /\ CurrentInv'
    BY <2>1, <2>2, <2>6 DEF EndInv, CurrentInv, Refreshes, Reports, Asks
  <2> QED
    BY <2>5, <2>7
<1>3. CASE PassFails
  <2>1. /\ pass' = [pass EXCEPT !.at = "published", !.error = TRUE, !.valid = FALSE]
        /\ UNCHANGED <<ui, reads, row, job, current, ex, work, said>>
    BY <1>3 DEF PassFails, lock, plan, policy
  <2>2. pass' \in Passes /\ pass'.at = "published" /\ pass'.error
    BY <2>1 DEF Typed, Passes
  <2>3. Typed' /\ ShownInv' /\ RowInv'
    BY <2>1, <2>2 DEF Typed, ShownInv, RowInv, Renders
  <2>4. EndInv /\ CurrentInv => EndInv' /\ CurrentInv'
    BY <2>1, <2>2 DEF EndInv, CurrentInv, Refreshes
  <2> QED
    BY <2>3, <2>4
<1>4. CASE OnRefreshPublished
  <2>1. /\ pass' = [pass EXCEPT !.at = "finished"] /\ pass.at = "published"
        /\ RenderPublished /\ UNCHANGED <<row, job, current, ex, work, said>>
    BY <1>4 DEF OnRefreshPublished, lock, plan
  <2>2. /\ pass' \in Passes /\ pass'.at = "finished" /\ pass'.asked = pass.asked
        /\ pass'.pending = pass.pending /\ pass'.error = pass.error
    BY <2>1 DEF Typed, Passes
  <2>5. Typed' /\ ShownInv' /\ RowInv'
    <3>1. CASE ui.modal \in Painted
      <4>1. ViewPainted
        BY <2>1, <3>1 DEF RenderPublished, StateRefreshed, ViewPainted, Typed
      <4> QED
        BY <2>2, <4>1, ViewPaints
    <3>2. CASE ui.modal \in Covers
      <4>1. UNCHANGED <<ui, reads>>
        BY <2>1, <3>2 DEF RenderPublished
      <4> QED
        BY <2>1, <2>2, <3>2, <4>1 DEF Typed, ShownInv, RowInv, Renders
    <3> QED
      BY <3>1, <3>2 DEF Typed
  <2>6. EndInv /\ CurrentInv => EndInv' /\ CurrentInv'
    BY <2>1, <2>2 DEF EndInv, CurrentInv, Refreshes, Reports, Asks
  <2> QED
    BY <2>5, <2>6
<1>5. CASE OnRefreshFinished
  <2>1. pass.at = "finished" /\ UNCHANGED <<ui, reads, row, job, current, ex, work, said>>
    BY <1>5 DEF OnRefreshFinished, lock, policy
  <2>2. IF pass.pending THEN pass' = [pass EXCEPT !.at = "asked", !.pending = FALSE]
                        ELSE pass' = [pass EXCEPT !.at = "idle", !.pending = FALSE]
    BY <1>5 DEF OnRefreshFinished, Quitting
  <2>3. /\ pass' \in Passes /\ pass'.at = IF pass.pending THEN "asked" ELSE "idle"
        /\ pass'.pending = FALSE /\ pass'.asked = pass.asked /\ pass'.error = pass.error
    BY <2>2 DEF Typed, Passes
  <2>4. Typed' /\ ShownInv'
    BY <2>1, <2>3 DEF Typed, ShownInv
  <2>5. Renders => Renders'
    BY <2>1, <2>3 DEF Renders, Asks
  <2>6. RowInv'
    BY <2>1, <2>5 DEF RowInv, RowSettled, JobChanges
  <2>7. EndInv /\ CurrentInv => EndInv' /\ CurrentInv'
    BY <2>1, <2>3 DEF EndInv, CurrentInv, Refreshes, Reports, Asks
  <2> QED
    BY <2>4, <2>6, <2>7
<1> QED
  BY <1>1, <1>2, <1>3, <1>4, <1>5 DEF Pass

\* A thread is through, and its message is on its way: it changed the job, or the states.
LEMMA ThreadPosted ==
  ASSUME Shapes, Safe, Quietly, NEW w \in Others, NEW words, Posts(w, words),
         UNCHANGED <<ui, reads, row, ex>>, job' = job \/ w \in {"daemon", "toggle", "removal"},
         UNCHANGED service \/ (Invalidated /\ w \in {"update", "removal", "globals"})
  PROVE  Quietly'
<1>1. WorkKept /\ work'[w] = "posted"
  BY PostedKeeps
<1>2. /\ pass' \in Passes /\ pass'.at = pass.at /\ pass'.error = pass.error
      /\ pass'.pending = pass.pending /\ pass'.asked = pass.asked
  BY DroppedPass DEF service, Invalidated, Quietly, Typed
<1>3. Typed' /\ ShownInv'
  BY <1>2 DEF Quietly, Typed, ShownInv
<1>4. JobChanges => JobChanges'
  BY <1>1, Alone DEF WorkKept, JobChanges
<1>5. Renders => Renders'
  BY <1>2 DEF Renders, Asks
<1>6. RowInv'
  <2>1. CASE job' = job
    BY <2>1, <1>4, <1>5 DEF Quietly, RowInv, RowSettled
  <2>2. CASE w \in {"daemon", "toggle", "removal"}
    BY <2>2, <1>1 DEF RowInv, JobChanges
  <2> QED
    BY <2>1, <2>2
<1>7. EndInv => EndInv'
  BY <1>1 DEF EndInv, WorkKept
<1>8. CurrentInv => CurrentInv'
  <2>1. CASE UNCHANGED service
    <3>1. Reports => Reports'
      BY <1>1, Alone DEF Reports, WorkKept
    <3> QED
      BY <2>1, <3>1 DEF CurrentInv, Refreshes, service
  <2>2. CASE w \in {"update", "removal", "globals"}
    BY <2>2, <1>1 DEF CurrentInv, Reports
  <2> QED
    BY <2>1, <2>2
<1> QED
  BY <1>3, <1>6, <1>7, <1>8 DEF Quietly

LEMMA ThreadsQuiet == ASSUME Shapes, Safe, Quietly, Threads PROVE Quietly'
<1>1. CASE DaemonWorks
  <2>1. UNCHANGED <<ui, reads, row, ex>> /\ UNCHANGED service
    BY <1>1 DEF DaemonWorks, plan, policy
  <2>2. \E words : Posts("daemon", words)
    BY <1>1 DEF DaemonWorks
  <2> QED
    BY <2>1, <2>2, Alone, ThreadPosted
<1>2. CASE ToggleWorks
  <2>1. UNCHANGED <<ui, reads, row, ex>> /\ UNCHANGED service
    BY <1>2 DEF ToggleWorks, plan, policy
  <2>2. \E words : Posts("toggle", words)
    BY <1>2 DEF ToggleWorks
  <2> QED
    BY <2>1, <2>2, Alone, ThreadPosted
<1>3. CASE UpdateWorks
  <2>1. UNCHANGED <<ui, reads, row, ex, job>> /\ Posts("update", Unknown)
    BY <1>3 DEF UpdateWorks, plan, policy
  <2>2. UNCHANGED service \/ Invalidated
    BY <1>3 DEF UpdateWorks
  <2> QED
    BY <2>1, <2>2, Alone, ThreadPosted
<1>4. CASE InstallWorks
  <2>1. PICK ran \in BOOLEAN : Posts("install", ran) /\ (UNCHANGED service \/ (ran /\ Invalidated))
    BY <1>4 DEF InstallWorks
  <2>2. UNCHANGED <<ui, reads, row, ex, job>>
    BY <1>4 DEF InstallWorks, plan, policy
  <2>3. "install" \in Workers /\ "install" \notin Others /\ Others \subseteq Workers
    BY DEF Others, Workers
  <2>4. /\ work["install"] = "running" /\ work'["install"] = "posted" /\ said' = ran
        /\ \A w \in Others : work'[w] = work[w]
    BY <2>1, <2>3 DEF Posts, Shapes
  <2>5. /\ pass' \in Passes /\ pass'.at = pass.at /\ pass'.error = pass.error
        /\ pass'.pending = pass.pending /\ pass'.asked = pass.asked
    BY <2>1, DroppedPass DEF service, Invalidated, Quietly, Typed
  <2>6. Typed' /\ ShownInv'
    BY <2>2, <2>5 DEF Quietly, Typed, ShownInv
  <2>7. Renders => Renders'
    BY <2>2, <2>5 DEF Renders, Asks
  <2>8. RowInv'
    BY <2>2, <2>4, <2>7, Alone DEF Quietly, RowInv, RowSettled, JobChanges
  <2>9. EndInv'
    BY <2>4 DEF EndInv
  <2>10. CurrentInv => CurrentInv'
    <3>1. Reports => Reports'
      BY <2>2, <2>4, Alone DEF Reports
    <3>2. CASE UNCHANGED service
      BY <3>1, <3>2 DEF CurrentInv, Refreshes, service
    <3>3. CASE ran
      BY <2>4, <3>3 DEF CurrentInv, Reports
    <3> QED
      BY <2>1, <3>2, <3>3
  <2> QED
    BY <2>6, <2>8, <2>9, <2>10 DEF Quietly
<1>5. CASE RemovalWorks
  <2>1. UNCHANGED <<ui, reads, row, ex>> /\ Posts("removal", Unknown)
    BY <1>5 DEF RemovalWorks, plan, policy
  <2>2. UNCHANGED service \/ Invalidated
    BY <1>5 DEF RemovalWorks
  <2> QED
    BY <2>1, <2>2, Alone, ThreadPosted
<1>6. CASE ReinstallWorks
  <2>1. UNCHANGED <<ui, reads, row, ex, job>> /\ Invalidated
    BY <1>6 DEF ReinstallWorks, plan, policy
  <2>2. \E words : Posts("globals", words)
    BY <1>6 DEF ReinstallWorks
  <2> QED
    BY <2>1, <2>2, Alone, ThreadPosted
<1> QED
  BY <1>1, <1>2, <1>3, <1>4, <1>5, <1>6 DEF Threads
\* A step that leaves the view and the work of the threads alone.
LEMMA AskQuiet ==
  ASSUME Shapes, Safe, Quietly, More(pass, pass'), WorkKept, UNCHANGED <<ui, reads, row, job, current>>,
         ex'.finished = ex.finished, ex'.ran = ex.ran
  PROVE  Quietly'
<1>1. ViewKept
  BY DEF Quietly, Typed, ViewKept
<1> QED
  BY <1>1, QuietStep

\* The handler of a message that asks for a pass.
LEMMA EndAsks ==
  ASSUME Shapes, Safe, Quietly, NEW w \in Others, End(w), More(pass, pass'), Asks(pass'),
         ex' = ex, Typed', ShownInv'
  PROVE  Quietly'
<1>1. RowInv'
  BY DEF RowInv, Renders
<1>2. EndInv' /\ CurrentInv'
  BY EndedAlone DEF EndInv, CurrentInv, Refreshes
<1> QED
  BY <1>1, <1>2 DEF Quietly

LEMMA SettledQuiet == ASSUME Shapes, Safe, Quietly, OnStateSettled PROVE Quietly'
<1>1. PICK m \in settled : IF m.token = ex.token THEN Settles(ex, m.error) ELSE UNCHANGED <<ex, lock>>
  BY DEF OnStateSettled
<1>2. ui.modal = "execute" /\ UNCHANGED <<ui, reads, row, job, current, pass>>
  BY DEF OnStateSettled, service, policy
<1>3. More(pass, pass')
  BY <1>2, MoreAsked DEF Quietly, Typed
<1>4. \/ ex' = ex /\ UNCHANGED lock
      \/ ex.started = "no" /\ Started([Replanned(ex) EXCEPT !.waiting = FALSE, !.wanted = FALSE])
      \/ /\ ex' = [ex EXCEPT !.waiting = FALSE, !.wanted = FALSE] /\ UNCHANGED lock
      \/ /\ ex' = [Replanned(ex) EXCEPT !.waiting = FALSE, !.wanted = FALSE] /\ UNCHANGED lock
  BY <1>1 DEF Settles
<1>5. ex'.finished = ex.finished /\ ex'.ran = ex.ran
  BY <1>4 DEF Started, Replanned, Shapes, Closed
<1>6. WorkKept
  <2>1. CASE UNCHANGED lock
    BY <2>1 DEF WorkKept, lock
  <2>2. CASE ex.started = "no" /\ work' = [work EXCEPT !["install"] = "running"] /\ said' = said
    <3>1. work["install"] = "idle" /\ "install" \in Workers /\ "install" \notin Others
          /\ Others \subseteq Workers
      BY <1>2, <2>2 DEF Safe, RunInv, Workers, Others
    <3> QED
      BY <2>2, <3>1 DEF WorkKept, Shapes
  <2> QED
    BY <1>4, <2>1, <2>2 DEF Started
<1> QED
  BY <1>2, <1>3, <1>5, <1>6, AskQuiet

LEMMA MessagesQuiet ==
  ASSUME Shapes, Safe, Quietly, app = "up", Messages, app' = "up" PROVE Quietly'
<1>0. pass \in Passes /\ (pass.at = "idle" => ~pass.pending)
  BY DEF Quietly, Typed
<1>1. CASE OnRefreshRequested
  <2>1. /\ pass' = RequestRefresh([pass EXCEPT !.asked = FALSE])
        /\ UNCHANGED <<ui, reads, row, job, current, ex, work, said>>
    BY <1>1 DEF OnRefreshRequested, lock, plan, policy
  <2> QED
    BY <1>0, <2>1, MoreAsked, AskQuiet DEF WorkKept
<1>2. CASE OnDaemonDefaultApplied
  <2>1. End("daemon") /\ UNCHANGED <<pass, current, ex, job>>
    BY <1>2 DEF OnDaemonDefaultApplied, service, plan
  <2>2. \/ reads' = Restarted(reads, job)
        \/ ui.view # "policies" /\ reads' = Superseded(reads)
    BY <1>2 DEF OnDaemonDefaultApplied
  <2>3. ui' \in {ui, [ui EXCEPT !.shown = TRUE]}
    BY <1>2 DEF OnDaemonDefaultApplied
  <2>4. /\ ui' \in [view : Views, shown : BOOLEAN, modal : Covers \cup Painted]
        /\ ui'.view = ui.view /\ ui'.modal = ui.modal /\ (ui'.shown = ui.shown \/ ui'.shown)
    BY <2>3 DEF Quietly, Typed
  <2>5. \A r \in reads' : DOMAIN r = {"fresh", "val"}
    <3>1. \A r \in reads : DOMAIN r = {"fresh", "val"}
      BY DEF Quietly, Typed
    <3>2. /\ \A r \in Restarted(reads, job) : DOMAIN r = {"fresh", "val"}
          /\ \A r \in Superseded(reads) : DOMAIN r = {"fresh", "val"}
      BY <3>1, RestartedFinds
    <3> QED
      BY <2>2, <3>2
  <2>6. Typed' /\ ShownInv'
    BY <2>1, <2>4, <2>5 DEF Quietly, Typed, ShownInv
  <2>7. RowInv'
    <3>1. \A r \in reads : DOMAIN r = {"fresh", "val"}
      BY DEF Quietly, Typed
    <3>2. /\ \A r \in Restarted(reads, job) : r.fresh => r.val = job
          /\ \E r \in Restarted(reads, job) : r.fresh
      BY <3>1, RestartedFinds
    <3>3. reads' = Restarted(reads, job) /\ job' = job => RowSettled'
      BY <3>2 DEF RowSettled
    <3> QED
      BY <2>1, <2>2, <2>4, <3>3 DEF RowInv
  <2>8. CurrentKept
    BY <2>1, EndedAlone, Alone DEF CurrentKept
  <2>9. EndInv /\ CurrentInv => EndInv' /\ CurrentInv'
    BY <1>0, <2>1, <2>8, MoreAsked, CurrentKeeps
  <2> QED
    BY <2>6, <2>7, <2>9 DEF Quietly
<1>3. CASE OnPolicyToggled
  <2>1. /\ End("toggle") /\ pass' = RequestRefresh(pass) /\ reads' = Superseded(reads)
        /\ UNCHANGED <<ui, ex>>
    BY <1>3 DEF OnPolicyToggled, plan
  <2>2. More(pass, pass') /\ Asks(pass')
    BY <1>0, <2>1, MoreAsked
  <2>3. Typed' /\ ShownInv'
    BY <2>1, <2>2, RestartedFinds DEF Quietly, Typed, ShownInv, More
  <2> QED
    BY <2>1, <2>2, <2>3, Alone, EndAsks
<1>4. CASE OnJobStatesRead
  <2>1. PICK r \in reads, answer \in Answers :
          /\ answer \in {r.val, job, Unknown}
          /\ reads' = reads \ {r}
          /\ row' = IF r.fresh THEN answer ELSE row
    BY <1>4 DEF OnJobStatesRead
  <2>2. UNCHANGED <<ui, ex, pass, current, job, work, said>>
    BY <1>4 DEF OnJobStatesRead, lock, service, plan
  <2>3. Typed' /\ ShownInv'
    BY <2>1, <2>2 DEF Quietly, Typed, ShownInv
  <2>4. RowSettled => RowSettled'
    <3> SUFFICES ASSUME RowSettled PROVE RowSettled'
      OBVIOUS
    <3>1. \A s \in reads' : s.fresh => s.val = job'
      BY <2>1, <2>2 DEF RowSettled
    <3>2. CASE r.fresh
      <4>1. row' = answer /\ r.val = job
        BY <2>1, <3>2 DEF RowSettled
      <4>2. row' \in {job, Unknown}
        BY <2>1, <4>1
      <4> QED
        BY <2>2, <3>1, <4>2 DEF RowSettled
    <3>3. CASE ~r.fresh
      <4>1. row' = row /\ \A s \in reads : s.fresh => s \in reads'
        BY <2>1, <3>3
      <4> QED
        BY <2>2, <3>1, <4>1 DEF RowSettled
    <3> QED
      BY <3>2, <3>3
  <2>5. RowInv'
    BY <2>2, <2>4 DEF Quietly, RowInv, Renders, JobChanges
  <2>6. EndInv /\ CurrentInv => EndInv' /\ CurrentInv'
    BY <2>2 DEF EndInv, CurrentInv, Refreshes, Reports
  <2> QED
    BY <2>3, <2>5, <2>6 DEF Quietly
<1>5. CASE OnGlobalsAudited
  <2>1. UNCHANGED <<ui, reads, row, job, current, ex, work, said>>
    BY <1>5 DEF OnGlobalsAudited, lock, plan, policy
  <2>2. pass' \in {pass, RequestRefresh(pass)}
    BY <1>5 DEF OnGlobalsAudited
  <2> QED
    BY <1>0, <2>1, <2>2, MoreAsked, AskQuiet DEF WorkKept
<1>6. CASE OnGlobalsReinstalled
  <2>1. End("globals") /\ pass' = Ask(pass) /\ UNCHANGED <<ui, ex, reads>>
    BY <1>6 DEF OnGlobalsReinstalled, plan, policy
  <2>2. More(pass, pass') /\ Asks(pass')
    BY <1>0, <2>1, MoreAsked
  <2>3. Typed' /\ ShownInv'
    BY <2>1, <2>2 DEF Quietly, Typed, ShownInv, More
  <2> QED
    BY <2>1, <2>2, <2>3, Alone, EndAsks
<1>7. CASE OnToolUpdated
  <2>1. /\ End("update") /\ pass' = RequestRefresh(pass) /\ RenderPublished
        /\ UNCHANGED <<ex, job>>
    BY <1>7 DEF OnToolUpdated, plan
  <2>2. More(pass, pass') /\ Asks(pass')
    BY <1>0, <2>1, MoreAsked
  <2>3. Typed' /\ ShownInv'
    <3>1. CASE ui.modal \in Painted
      <4>1. ViewPainted
        BY <2>1, <3>1 DEF RenderPublished, StateRefreshed, ViewPainted, Painted, Covers, Quietly, Typed
      <4> QED
        BY <2>2, <4>1, ViewPaints DEF Quietly, More
    <3>2. CASE ui.modal \in Covers
      <4>1. UNCHANGED <<ui, reads>>
        BY <2>1, <3>2 DEF RenderPublished, Covers
      <4> QED
        BY <2>2, <4>1 DEF Quietly, Typed, ShownInv, More
    <3> QED
      BY <3>1, <3>2 DEF Quietly, Typed
  <2> QED
    BY <2>1, <2>2, <2>3, Alone, EndAsks
<1>8. CASE Decided
  <2>1. /\ ui.modal = "deciding" /\ ui' = [ui EXCEPT !.modal = "execute"]
        /\ UNCHANGED <<work, said, current, reads, row, job>>
        /\ IF current THEN ex' = Closed /\ UNCHANGED <<waiters, pass>>
           ELSE Awaiting(Replanned(Closed))
    BY <1>8 DEF Decided, Opened, lock, policy
  <2>2. ex = Closed
    BY <2>1 DEF Safe, RunInv
  <2>3. /\ ex' = Closed \/ ex' = [Replanned(Closed) EXCEPT !.waiting = TRUE] \/ ex' = Replanned(Closed)
        /\ pass' \in {pass, RequestRefresh(pass)}
    BY <2>1 DEF Awaiting
  <2>4. ex'.finished = ex.finished /\ ex'.ran = ex.ran
    BY <2>2, <2>3 DEF Replanned, Closed
  <2>5. ViewKept
    BY <1>0, <2>1, <2>3, MoreAsked DEF ViewKept, Quietly, Typed, Covers
  <2> QED
    BY <2>1, <2>4, <2>5, QuietStep DEF WorkKept
<1>9. CASE OnInstallRunStarted
  <2>1. Free
    BY <1>9 DEF OnInstallRunStarted, Leaves
  <2>2. /\ ex' = [ex EXCEPT !.started = "yes"]
        /\ UNCHANGED <<ui, reads, row, job, current, pass, work, said>>
    BY <1>9, <2>1 DEF OnInstallRunStarted, service, policy
  <2>3. ex'.finished = ex.finished /\ ex'.ran = ex.ran
    BY <2>2
  <2> QED
    BY <1>0, <2>2, <2>3, MoreAsked, AskQuiet DEF WorkKept
<1>10. CASE ScreenRunFinished
  <2>1. /\ work' = [work EXCEPT !["install"] = "bubbling"] /\ work["install"] = "posted"
        /\ ex' = [ex EXCEPT !.finished = TRUE, !.ran = said]
        /\ UNCHANGED <<ui, reads, row, job, current, pass, said>>
    BY <1>10 DEF ScreenRunFinished, service, policy
  <2>2. "install" \in Workers /\ "install" \notin Others /\ Others \subseteq Workers
    BY DEF Workers, Others
  <2>3. work'["install"] = "bubbling" /\ \A w \in Others : work'[w] = work[w]
    BY <2>1, <2>2 DEF Shapes
  <2>4. ex'.finished = TRUE /\ ex'.ran = said
    BY <2>1 DEF Shapes, Closed
  <2>5. Typed' /\ ShownInv'
    BY <2>1 DEF Quietly, Typed, ShownInv
  <2>6. RowInv'
    BY <2>1, <2>3, Alone DEF Quietly, RowInv, RowSettled, Renders, JobChanges
  <2>7. EndInv /\ CurrentInv => EndInv' /\ CurrentInv'
    <3> SUFFICES ASSUME EndInv, CurrentInv PROVE EndInv' /\ CurrentInv'
      OBVIOUS
    <3>1. EndInv'
      BY <2>1, <2>3, <2>4 DEF EndInv
    <3>2. ~ex.finished
      BY <2>1 DEF Safe, RunInv
    <3>3. Reports => Reports'
      BY <2>1, <2>3, <2>4, <3>2, Alone DEF Reports
    <3> QED
      BY <2>1, <3>1, <3>3 DEF CurrentInv, Refreshes
  <2> QED
    BY <2>5, <2>6, <2>7 DEF Quietly
<1>11. CASE OnInstallRunFinished
  <2>1. /\ work' = [work EXCEPT !["install"] = "idle"] /\ work["install"] = "bubbling"
        /\ said' = Unknown /\ (IF said THEN Invalidated ELSE UNCHANGED service)
        /\ UNCHANGED <<ui, reads, row, job, ex>>
    BY <1>11 DEF OnInstallRunFinished, plan, policy
  <2>2. "install" \in Workers /\ "install" \notin Others /\ Others \subseteq Workers
    BY DEF Workers, Others
  <2>3. work'["install"] = "idle" /\ \A w \in Others : work'[w] = work[w]
    BY <2>1, <2>2 DEF Shapes
  <2>4. /\ pass' \in Passes /\ pass'.at = pass.at /\ pass'.error = pass.error
        /\ pass'.pending = pass.pending /\ pass'.asked = pass.asked
    BY <1>0, <2>1, DroppedPass DEF service, Invalidated
  <2>5. Typed' /\ ShownInv'
    BY <2>1, <2>4 DEF Quietly, Typed, ShownInv
  <2>6. RowInv'
    BY <2>1, <2>3, <2>4, Alone DEF Quietly, RowInv, RowSettled, Renders, Asks, JobChanges
  <2>7. EndInv'
    BY <2>3 DEF EndInv
  <2>8. EndInv /\ CurrentInv => CurrentInv'
    <3> SUFFICES ASSUME EndInv, CurrentInv PROVE CurrentInv'
      OBVIOUS
    <3>1. said \in BOOLEAN /\ ex.finished /\ ex.ran = said
      BY <2>1 DEF EndInv
    <3>2. CASE said = TRUE
      BY <2>1, <3>1, <3>2 DEF CurrentInv, Reports
    <3>3. CASE said = FALSE
      <4>1. Reports => Reports'
        BY <2>1, <2>3, Alone DEF Reports
      <4> QED
        BY <2>1, <3>3, <4>1 DEF CurrentInv, Refreshes, service
    <3> QED
      BY <3>1, <3>2, <3>3
  <2> QED
    BY <2>5, <2>6, <2>7, <2>8 DEF Quietly
<1>12. CASE OnRemovalFinished
  <2>1. End("removal") /\ pass' = RequestRefresh(pass) /\ UNCHANGED <<ui, ex, reads>>
    BY <1>12 DEF OnRemovalFinished, Quitting, plan, policy
  <2>2. More(pass, pass') /\ Asks(pass')
    BY <1>0, <2>1, MoreAsked
  <2>3. Typed' /\ ShownInv'
    BY <2>1, <2>2 DEF Quietly, Typed, ShownInv, More
  <2> QED
    BY <2>1, <2>2, <2>3, Alone, EndAsks
<1>13. CASE ExitWhenDone
  BY <1>13 DEF ExitWhenDone
<1> QED
  BY <1>1, <1>2, <1>3, <1>4, <1>5, <1>6, <1>7, <1>8, <1>9, <1>10, <1>11, <1>12, <1>13 DEF Messages
\* A modal closes over the view, or another view comes: it is painted.
LEMMA PaintQuiet ==
  ASSUME Shapes, Safe, Quietly, More(pass, pass'), ViewPainted, WorkKept, current' = current,
         ex'.finished = ex.finished, ex'.ran = ex.ran
  PROVE  Quietly'
<1>1. Typed' /\ ShownInv' /\ RowInv'
  BY ViewPaints DEF Quietly, More
<1>2. ~KeysRace => EndInv' /\ CurrentInv'
  BY WorkIsKept, CurrentKeeps DEF Quietly
<1> QED
  BY <1>1, <1>2 DEF Quietly

LEMMA EnterQuiet == ASSUME Shapes, Safe, Quietly, Enter PROVE Quietly'
<1> DEFINE e == IF ex.cancelled THEN [ex EXCEPT !.cancelled = FALSE] ELSE Replanned(ex)
<1>1. /\ ui.modal = "execute" /\ ex.started = "no"
      /\ UNCHANGED <<ui, reads, row, job, current>>
  BY DEF Enter, policy
<1>2. /\ IF ~e.wait THEN Started(e) /\ UNCHANGED <<waiters, pass>>
         ELSE /\ IF e.wanted THEN ex' = e /\ UNCHANGED <<waiters, pass>>
                             ELSE Awaiting([e EXCEPT !.wanted = TRUE])
              /\ UNCHANGED lock
  BY DEF Enter
<1>3. e.finished = ex.finished /\ e.ran = ex.ran /\ DOMAIN e = DOMAIN Closed
  BY DEF Replanned, Shapes, Closed
<1> HIDE DEF e
<1>4. /\ \/ ex' = e
         \/ ex' = [e EXCEPT !.started = "posted"]
         \/ ex' = [e EXCEPT !.wanted = TRUE]
         \/ ex' = [[e EXCEPT !.wanted = TRUE] EXCEPT !.waiting = TRUE]
      /\ pass' \in {pass, RequestRefresh(pass)}
  BY <1>2 DEF Awaiting, Started
<1>5. ex'.finished = ex.finished /\ ex'.ran = ex.ran
  BY <1>3, <1>4 DEF Closed
<1>6. More(pass, pass')
  BY <1>4, MoreAsked DEF Quietly, Typed
<1>7. WorkKept
  <2>1. CASE UNCHANGED lock
    BY <2>1 DEF WorkKept, lock
  <2>2. CASE work' = [work EXCEPT !["install"] = "running"] /\ said' = said
    <3>1. work["install"] = "idle" /\ "install" \in Workers /\ "install" \notin Others
          /\ Others \subseteq Workers
      BY <1>1 DEF Safe, RunInv, Workers, Others
    <3> QED
      BY <2>2, <3>1 DEF WorkKept, Shapes
  <2> QED
    BY <1>2, <2>1, <2>2 DEF Started
<1> QED
  BY <1>1, <1>5, <1>6, <1>7, AskQuiet

LEMMA CloseQuiet == ASSUME Shapes, Safe, Quietly, Close PROVE Quietly'
<1>1. /\ ui.modal = "execute" /\ (ex.finished \/ (ex.started = "no" /\ ~ex.wanted))
      /\ ex' = Closed /\ Resumed
      /\ pass' = IF ex.finished /\ ex.ran THEN RequestRefresh(pass) ELSE pass
      /\ UNCHANGED <<work, said, current, row, job>>
  BY DEF Close, lock
<1>2. More(pass, pass') /\ (ex.finished /\ ex.ran = TRUE => Asks(pass'))
  BY <1>1, MoreAsked DEF Quietly, Typed
<1>3. Typed' /\ ShownInv' /\ RowInv'
  BY <1>1, <1>2, PaintedWhenResumed, ViewPaints DEF Quietly, More
<1>4. ASSUME ~KeysRace, EndInv, CurrentInv PROVE EndInv' /\ CurrentInv'
  <2>1. work["install"] # "bubbling"
    BY <1>4 DEF Close, Key, Hopping
  <2>2. work["install"] # "posted"
    BY <1>1 DEF Safe, RunInv
  <2>3. EndInv'
    BY <1>1, <2>1, <2>2 DEF EndInv
  <2>4. CASE Asks(pass')
    BY <2>3, <2>4 DEF CurrentInv, Refreshes
  <2>5. CASE ~(ex.finished /\ ex.ran = TRUE)
    <3>1. Reports => Reports'
      BY <1>1, <2>5 DEF Reports
    <3>2. Refreshes => Refreshes'
      BY <1>2 DEF Refreshes, More, Asks
    <3> QED
      BY <1>1, <1>4, <2>3, <3>1, <3>2 DEF CurrentInv
  <2> QED
    BY <1>2, <2>4, <2>5
<1> QED
  BY <1>3, <1>4 DEF Quietly

LEMMA KeysQuiet ==
  ASSUME Shapes, Safe, Quietly, app = "up", Keys, app' = "up" PROVE Quietly'
<1>0. pass \in Passes /\ (pass.at = "idle" => ~pass.pending) /\ More(pass, pass)
      /\ More(pass, Ask(pass))
  BY MoreAsked DEF Quietly, Typed
<1>1. CASE \E v \in Views : ShowView(v)
  <2>1. PICK v \in Views : ShowView(v)
    BY <1>1
  <2>2. /\ StateRefreshed([ui EXCEPT !.view = v]) /\ UNCHANGED <<pass, work, said, current, ex, job>>
    BY <2>1 DEF ShowView, lock, service, plan
  <2>3. ViewPainted
    BY <2>2 DEF ViewPainted, StateRefreshed, Quietly, Typed
  <2> QED
    BY <1>0, <2>2, <2>3, PaintQuiet DEF WorkKept
<1>2. CASE Refused
  <2>1. UNCHANGED <<ui, reads, row, job, current, ex, work, said>> /\ pass' = Ask(pass)
    BY <1>2 DEF Refused, lock, plan, policy
  <2> QED
    BY <1>0, <2>1, AskQuiet DEF WorkKept
<1>3. CASE ToggleJob
  <2>1. UNCHANGED <<ui, reads, row, job, current, ex, pass>> /\ Free /\ Begin("toggle", row)
    BY <1>3 DEF ToggleJob, service, plan, policy
  <2>2. WorkKept
    BY <2>1, Alone, BegunKeeps
  <2> QED
    BY <1>0, <2>1, <2>2, AskQuiet
<1>4. CASE PickTime \/ Accept \/ AskRemoval
  <2>1. /\ ui.modal = "none" /\ UNCHANGED <<reads, row, job, current, ex, pass, work, said>>
        /\ \E m \in {"time", "deciding", "confirm"} : ui' = [ui EXCEPT !.modal = m]
    BY <1>4 DEF PickTime, Accept, AskRemoval, OnScreen, lock, service, plan, policy
  <2>2. ViewKept
    BY <1>0, <2>1 DEF ViewKept, Quietly, Typed, Covers, Painted
  <2> QED
    BY <2>1, <2>2, QuietStep DEF WorkKept
<1>5. CASE TimePicked
  <2>1. Resumed /\ pass' \in {pass, Ask(pass)} /\ UNCHANGED <<work, said, current, ex>>
    BY <1>5 DEF TimePicked, lock, plan
  <2>2. ViewPainted
    BY <2>1, PaintedWhenResumed DEF Quietly
  <2> QED
    BY <1>0, <2>1, <2>2, PaintQuiet DEF WorkKept
<1>6. CASE ReinstallGlobals
  <2>1. UNCHANGED <<ui, reads, row, job, current, ex>> /\ pass' \in {pass, Ask(pass)}
    BY <1>6 DEF ReinstallGlobals, plan, policy
  <2>2. UNCHANGED lock \/ (Free /\ Begin("globals", Unknown))
    BY <1>6 DEF ReinstallGlobals
  <2>3. WorkKept
    BY <2>2, Alone, BegunKeeps DEF WorkKept, lock
  <2> QED
    BY <1>0, <2>1, <2>3, AskQuiet
<1>7. CASE UpdateTool
  <2>1. UNCHANGED <<ui, reads, row, job, current, ex>> /\ pass' \in {pass, Ask(pass)}
    BY <1>7 DEF UpdateTool, plan, policy
  <2>2. UNCHANGED lock \/ (Free /\ Begin("update", Unknown))
    BY <1>7 DEF UpdateTool
  <2>3. WorkKept
    BY <2>2, Alone, BegunKeeps DEF WorkKept, lock
  <2> QED
    BY <1>0, <2>1, <2>3, AskQuiet
<1>8. CASE Enter
  BY <1>8, EnterQuiet
<1>9. CASE CancelWait
  <2>1. UNCHANGED <<ui, reads, row, job, current, pass, work, said>>
    BY <1>9 DEF CancelWait, lock, service, policy
  <2>2. ex'.finished = ex.finished /\ ex'.ran = ex.ran
    BY <1>9 DEF CancelWait, Shapes, Closed
  <2> QED
    BY <1>0, <2>1, <2>2, AskQuiet DEF WorkKept
<1>10. CASE Close
  BY <1>10, CloseQuiet
<1>11. CASE ConfirmRemoval
  <2>1. Resumed /\ pass' \in {pass, Ask(pass)} /\ UNCHANGED <<current, ex>>
    BY <1>11 DEF ConfirmRemoval, plan
  <2>2. UNCHANGED lock \/ (Free /\ Begin("removal", Unknown))
    BY <1>11 DEF ConfirmRemoval
  <2>3. WorkKept
    BY <2>2, Alone, BegunKeeps DEF WorkKept, lock
  <2>4. ViewPainted
    BY <2>1, PaintedWhenResumed DEF Quietly
  <2> QED
    BY <1>0, <2>1, <2>3, <2>4, PaintQuiet
<1>12. CASE CancelRemoval
  <2>1. Resumed /\ UNCHANGED <<work, said, current, ex, pass>>
    BY <1>12 DEF CancelRemoval, lock, service, plan
  <2>2. ViewPainted
    BY <2>1, PaintedWhenResumed DEF Quietly
  <2> QED
    BY <1>0, <2>1, <2>2, PaintQuiet DEF WorkKept
<1>13. CASE Quit \/ HardAbort
  BY <1>13 DEF Quit, HardAbort, Leaves, Quitting
<1> QED
  BY <1>1, <1>2, <1>3, <1>4, <1>5, <1>6, <1>7, <1>8, <1>9, <1>10, <1>11, <1>12, <1>13 DEF Keys

LEMMA StaysUp == Next /\ app' = "up" => app = "up"
  BY DEF Next, Pass, Threads, Messages, Keys, Leaves,
     PassBegins, PassPublishes, PassFails, OnRefreshPublished, OnRefreshFinished, OnStateSettled,
     DaemonWorks, ToggleWorks, UpdateWorks, InstallWorks, RemovalWorks, ReinstallWorks,
     OnRefreshRequested, OnDaemonDefaultApplied, OnPolicyToggled, OnJobStatesRead,
     OnGlobalsAudited, OnGlobalsReinstalled, OnToolUpdated, Decided, OnInstallRunStarted,
     ScreenRunFinished, OnInstallRunFinished, OnRemovalFinished, ExitWhenDone, ShowView, Refused,
     ToggleJob, PickTime, TimePicked, ReinstallGlobals, UpdateTool, Accept, Enter, CancelWait,
     Close, AskRemoval, ConfirmRemoval, CancelRemoval, Quit, HardAbort

LEMMA QuietInvariance == Spec => [](app = "up" => Quietly)
<1>1. Init => (app = "up" => Quietly)
  <2> SUFFICES ASSUME Init PROVE Quietly
    OBVIOUS
  <2>1. pass = [Idle EXCEPT !.at = "asked"] /\ ui = [view |-> "catalog", modal |-> "none", shown |-> FALSE]
        /\ reads = {} /\ work["install"] = "idle"
    BY DEF Init, Workers
  <2>2. pass \in Passes /\ pass.at = "asked"
    BY <2>1 DEF Idle, Passes
  <2>3. ui \in [view : Views, shown : BOOLEAN, modal : Covers \cup Painted] /\ ui.view = "catalog"
    BY <2>1 DEF Views, Painted
  <2> QED
    BY <2>1, <2>2, <2>3 DEF Quietly, Typed, ShownInv, RowInv, EndInv, CurrentInv, Refreshes, Asks
<1>2. IInv /\ (app = "up" => Quietly) /\ [Next]_vars => (app = "up" => Quietly)'
  <2> SUFFICES ASSUME IInv, app = "up" => Quietly, [Next]_vars, app' = "up" PROVE Quietly'
    OBVIOUS
  <2>1. CASE Next
    <3>1. app = "up" /\ Shapes /\ Safe /\ Quietly
      BY <2>1, StaysUp DEF IInv, Up
    <3> QED
      BY <2>1, <3>1, PassQuiet, SettledQuiet, ThreadsQuiet, MessagesQuiet, KeysQuiet DEF Next
  <2>2. CASE UNCHANGED vars
    BY <2>2 DEF vars, lock, service, plan, policy, Quietly, Typed, ShownInv, RowInv, RowSettled,
       Renders, JobChanges, EndInv, CurrentInv, Refreshes, Reports
  <2> QED
    BY <2>1, <2>2
<1> QED
  BY <1>1, <1>2, Invariance, PTL DEF Spec

(***************************************************************************)
(* Once nothing is running or queued the view shows the states of the last *)
(* epoch, whatever pass was under way when a mutation ended, unless the    *)
(* last pass failed (request_refresh runs one pass, "or queue[s] exactly   *)
(* one more behind the running one"); for screens whose messages are not   *)
(* raced by a key.                                                         *)
(***************************************************************************)
THEOREM QuietAlwaysPublished == ASSUME ~KeysRace PROVE Spec => []QuietMeansPublished
<1>1. IInv /\ (app = "up" => Quietly) => QuietMeansPublished
  <2> SUFFICES ASSUME IInv, Quietly, Quiet, ~pass.error PROVE current /\ ui.shown
    BY DEF QuietMeansPublished, Quiet
  <2>1. Shapes /\ Safe /\ Free /\ ui.modal = "none" /\ pass.at = "idle" /\ ~pass.asked
    BY DEF IInv, Up, Quiet
  <2>2. ui.shown
    BY <2>1 DEF Quietly, ShownInv, Covers
  <2>3. ~Refreshes
    BY <2>1 DEF Refreshes, Asks, Quietly, Typed
  <2>4. ~Reports
    <3>1. ~ex.finished
      BY <2>1 DEF Safe, RunInv, Closed
    <3> QED
      BY <2>1, <3>1, Alone DEF Reports
  <2> QED
    BY <2>2, <2>3, <2>4 DEF Quietly, CurrentInv
<1> QED
  BY <1>1, Invariance, QuietInvariance, PTL

(***************************************************************************)
(* A row of Policies that shows an answer shows the machine's, once the    *)
(* change, the reads and the pass behind them are through, whether or not  *)
(* keys race the hops of a message (on_job_states_read drops the answer of *)
(* a read begun before a change).                                          *)
(***************************************************************************)
THEOREM RowAlwaysCurrent == Spec => []RowIsCurrent
<1>1. IInv /\ (app = "up" => Quietly) => RowIsCurrent
  <2> SUFFICES ASSUME IInv, Quietly, Quiet, ui.view = "policies", reads = {}
               PROVE  row \in {job, Unknown}
    BY DEF RowIsCurrent, Quiet
  <2>1. Shapes /\ Safe /\ Free /\ ui.modal = "none" /\ pass.at = "idle" /\ ~pass.asked
    BY DEF IInv, Up, Quiet
  <2>2. ~Renders
    BY <2>1 DEF Renders, Asks, Quietly, Typed, Covers
  <2>3. ~JobChanges
    BY <2>1, Alone DEF JobChanges
  <2> QED
    BY <2>2, <2>3 DEF Quietly, RowInv, RowSettled
<1> QED
  BY <1>1, Invariance, QuietInvariance, PTL
=============================================================================
