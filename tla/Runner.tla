------------------------------- MODULE Runner -------------------------------
(***************************************************************************)
(* One call of a command runner (run.py): the parent, the child it starts, *)
(* whatever that child leaves behind, and the pipe between them.           *)
(*                                                                         *)
(*   stream   StreamingRunner: every line is emitted as it arrives, no     *)
(*            timeout, at most one more launch when the stdbuf wrapper is  *)
(*            gone, and "drain then reap" in the finally block;            *)
(*   output   run_output: everything is captured, undecodable bytes are    *)
(*            replaced, the timeout is the caller's choice;                *)
(*   query    run_query: captured and decoded strictly, always bounded,    *)
(*            and the caller says which exit codes it accepts.             *)
(*                                                                         *)
(* A piece of output is a line, or bytes that are not UTF-8 ("bad").  A    *)
(* process that writes to a full pipe blocks, one that writes to a pipe    *)
(* nobody can read from any more is ended by it ("cut").                   *)
(***************************************************************************)
EXTENDS Integers, Sequences

CONSTANTS
  None,
  Room,       \* how much the pipe holds (64 KiB)
  MaxWrites   \* a bound: what a child and its heir write

VARIABLES
  call,       \* the call: kind, wrapper, timeout, exit codes, where it is, what it says
  proc        \* the child: state, exit code, the pipe, an heir that holds the pipe too

runnerVars == <<call, proc>>

Kinds == {"stream", "output", "query"}

Idle == [kind |-> None, wrapped |-> FALSE, bounded |-> FALSE, accepts |-> {}, at |-> "idle",
         raised |-> None, code |-> None, says |-> None]
Unborn == [state |-> "none", code |-> None, pipe |-> <<>>, left |-> MaxWrites, heir |-> FALSE,
           reader |-> TRUE, started |-> 0, cut |-> FALSE]

RunnerInit == call = Idle /\ proc = Unborn

At(a) == call.at = a

\* CommandError, or nothing.
Said(code) == IF code \in call.accepts THEN "ok" ELSE "failed"

\* The wrapper is used when it was found and the command is not python itself.
Call ==
  /\ At("idle")
  /\ \E kind \in Kinds, wrapped, bounded \in BOOLEAN, accepts \in {{0}, {0, 1}} :
       /\ kind # "stream" => ~wrapped
       /\ kind = "stream" => ~bounded
       /\ kind = "query" => bounded
       /\ kind # "query" => accepts = {0}
       /\ call' = [call EXCEPT !.kind = kind, !.wrapped = wrapped, !.bounded = bounded,
                               !.accepts = accepts, !.at = "launch"]
  /\ UNCHANGED proc

Starts ==
  /\ At("launch")
  /\ call' = [call EXCEPT !.at = "read"]
  /\ proc' = [proc EXCEPT !.state = "running", !.started = @ + 1]

\* Popen raised before anything ran: without the wrapper it is tried once more.
CannotStart ==
  /\ At("launch")
  /\ call' = IF call.wrapped THEN [call EXCEPT !.wrapped = FALSE]
                             ELSE [call EXCEPT !.at = "ended", !.says = "missing"]
  /\ UNCHANGED proc

-----------------------------------------------------------------------------
(***************************************************************************)
(* The child, and a process it leaves behind with the pipe open.           *)
(***************************************************************************)
Writing == proc.state = "running" \/ proc.heir

Writes ==
  /\ Writing /\ proc.left > 0 /\ proc.reader /\ Len(proc.pipe) < Room
  /\ \E piece \in {"line", "bad"} :
       proc' = [proc EXCEPT !.pipe = Append(@, piece), !.left = @ - 1]
  /\ UNCHANGED call

\* A child blocked on the full pipe, with nobody going to read it.
Blocked == proc.state = "running" /\ proc.left > 0 /\ proc.reader /\ Len(proc.pipe) = Room

WritesToNobody ==
  /\ proc.state = "running" /\ proc.left > 0 /\ ~proc.reader
  /\ proc' = [proc EXCEPT !.state = "zombie", !.code = 141, !.cut = TRUE]
  /\ UNCHANGED call

Forks == proc.state = "running" /\ proc' = [proc EXCEPT !.heir = TRUE] /\ UNCHANGED call

Exits ==
  /\ proc.state = "running"
  /\ \E code \in {0, 1, 2} : proc' = [proc EXCEPT !.state = "zombie", !.code = code]
  /\ UNCHANGED call

HeirEnds == proc.heir /\ proc' = [proc EXCEPT !.heir = FALSE] /\ UNCHANGED call

-----------------------------------------------------------------------------
Eof == proc.pipe = <<>> /\ ~Writing

Take == proc' = [proc EXCEPT !.pipe = Tail(@)]

\* Mutant of Unwind: the finally block waits, and reads nothing.
UnwindToWait(exc) == [call EXCEPT !.raised = exc, !.at = "reap"]

\* An exception leaves the loop: the finally block comes first.
Unwind(exc) == [call EXCEPT !.raised = exc, !.at = "drain"]

\* for raw in stdout: emit may raise, and so does the strict decoder.
StreamsLine ==
  /\ At("read") /\ call.kind = "stream" /\ proc.pipe # <<>>
  /\ Take
  /\ \/ Head(proc.pipe) = "line" /\ call' \in {call, Unwind("emit")}
     \/ Head(proc.pipe) = "bad"  /\ call' = Unwind("decode")

StreamsEof ==
  /\ At("read") /\ call.kind = "stream" /\ Eof
  /\ call' = [call EXCEPT !.at = "wait"] /\ UNCHANGED proc

Waits ==
  /\ At("wait") /\ call.kind = "stream" /\ proc.state = "zombie"
  /\ call' = [call EXCEPT !.at = "drain", !.code = proc.code]
  /\ proc' = [proc EXCEPT !.state = "reaped"]

\* The finally block reads on to the end.  Only an OSError is caught there.
Drains ==
  /\ At("drain") /\ proc.pipe # <<>>
  /\ Take
  /\ call' = IF Head(proc.pipe) = "line" THEN call
             ELSE [call EXCEPT !.raised = "drain", !.at = "ended", !.says = "raised"]

DrainsEof ==
  /\ At("drain") /\ Eof
  /\ call' = [call EXCEPT !.at = "reap"] /\ proc' = [proc EXCEPT !.reader = FALSE]

Reaps ==
  /\ At("reap") /\ proc.state \in {"zombie", "reaped"}
  /\ proc' = [proc EXCEPT !.state = "reaped"]
  /\ call' = [call EXCEPT !.at = "ended",
                          !.says = IF call.raised # None THEN "raised" ELSE Said(call.code)]

\* A pipe that was not closed goes with the frame that held it.
Collected ==
  /\ At("ended") /\ proc.reader /\ proc' = [proc EXCEPT !.reader = FALSE] /\ UNCHANGED call

-----------------------------------------------------------------------------
(***************************************************************************)
(* subprocess.run, as run_output and run_query call it.                    *)
(***************************************************************************)
Captures ==
  /\ At("read") /\ call.kind # "stream" /\ proc.pipe # <<>>
  /\ Take
  /\ call' = IF Head(proc.pipe) = "bad" /\ call.kind = "query"
               THEN [call EXCEPT !.raised = "decode"] ELSE call

\* What was captured is decoded once the child is waited for: a query may raise then.
CapturesEof ==
  /\ At("read") /\ call.kind # "stream" /\ Eof /\ proc.state = "zombie"
  /\ proc' = [proc EXCEPT !.state = "reaped", !.reader = FALSE]
  /\ call' = [call EXCEPT !.at = "ended", !.code = proc.code,
                          !.says = IF call.raised # None THEN "raised" ELSE Said(proc.code)]

\* The child is killed and waited for; what it left behind is not, nor read on.
TimesOut ==
  /\ At("read") /\ call.bounded /\ proc.state # "none"
  /\ proc' = [proc EXCEPT !.state = "reaped", !.reader = FALSE]
  /\ call' = [call EXCEPT !.at = "ended", !.says = "timeout"]

RunnerNext ==
  \/ Call \/ Starts \/ CannotStart
  \/ Writes \/ WritesToNobody \/ Forks \/ Exits \/ HeirEnds
  \/ StreamsLine \/ StreamsEof \/ Waits \/ Drains \/ DrainsEof \/ Reaps \/ Collected
  \/ Captures \/ CapturesEof \/ TimesOut

RunnerSpec == RunnerInit /\ [][RunnerNext]_runnerVars

-----------------------------------------------------------------------------
\* The exception: a second piece that is not UTF-8, met while draining, escapes the
\* finally block before its wait.
DrainEscapes == call.raised = "drain"

(***************************************************************************)
(* A call never stands off with its child, waiting for a process that      *)
(* waits for the call to read ("a bare wait never returns"); it does not   *)
(* end while its child runs, and never closes the pipe under it; the       *)
(* command ran at most once; and success is said of an exit code that the  *)
(* caller accepts.                                                         *)
(***************************************************************************)
ChildIsReaped ==
  /\ At("wait") \/ At("reap") => ~Blocked
  /\ At("ended") /\ ~DrainEscapes => proc.state \in {"none", "reaped"}
  /\ proc.cut => DrainEscapes
  /\ proc.started <= 1
  /\ At("ended") /\ call.says = "ok" => proc.code \in call.accepts /\ call.raised = None
=============================================================================
