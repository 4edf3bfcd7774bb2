----------------------------- MODULE SourceLines -----------------------------
(***************************************************************************)
(* Which lines of ~/.shellrc source ~/.myshellrc: a line is read word by   *)
(* word, as shellrc.py judges it and as a shell runs it.                   *)
(*                                                                         *)
(* A logical line is the words of its physical lines: more than one of     *)
(* them when a backslash continues it.  A word stands for every word the   *)
(* rules below treat alike:                                                *)
(*   "."  "\."     source, plain and quoted or escaped                     *)
(*   "target"      the canonical file, plainly quoted or not at all        *)
(*   "odd"         the canonical file, quoted in part                      *)
(*   "other"       another absolute path, or a command                     *)
(*   "$x"          a word that is not known before the shell runs          *)
(*   "time" "X=1" "command" "-p" "eval"                                    *)
(*   ">f" ">" ">|" a redirection with its file, and two without            *)
(*   ";"           any separator of commands         "#"  a comment begins *)
(***************************************************************************)
EXTENDS Naturals, Sequences

CONSTANT None

VARIABLES asked,   \* the words a line may have, how many, and on how many physical lines
          reading  \* how far it is read, None before

Words == {".", "\\.", "target", "odd", "other", "$x", "time", "X=1", "command", "-p", "eval",
          ">f", ">", ">|", ";", "#"}
Source == {".", "\\."}
Target == {"target", "odd"}

-----------------------------------------------------------------------------
(***************************************************************************)
(* The rules.  "at" is what _command_head takes the next word of a segment *)
(* for: a "start" is the first word of a text, and of a text that begins   *)
(* with a comment all is "skipped".                                        *)
(***************************************************************************)
\* Mutant of CommandPrefixes: a keyword that is no command of its own is taken for one.
CommandPrefixesButTime == {"X=1", ">f"}

CommandPrefixes == {"time", "X=1", ">f"}

Heads == {"start", "head", "options"}

\* What a word in the place of a command makes of the next one; an option is none.
CommandHead(w) ==
  IF w \in CommandPrefixes THEN "head"
  ELSE IF w = ">" THEN "file"
  ELSE IF w = "command" THEN "options"
  ELSE IF w \in Source THEN "source"
  ELSE IF w = "$x" THEN "dynamic" ELSE "rest"

\* _split_command_segments cuts ">|" at its bar, so its file heads the next segment.
Next(at, w) ==
  IF at = "skipped" \/ (at = "start" /\ w = "#") THEN "skipped"
  ELSE IF at = "file" \/ w \in {";", ">|"} THEN "head"
  ELSE IF at = "options" /\ w = "-p" THEN "options"
  ELSE IF at \in Heads THEN CommandHead(w) ELSE "rest"

\* _inspect_source_line; "simple" as long as the text may be `. file`, with nothing around it.
Inspection == [at |-> "start", unresolvable |-> FALSE, target |-> FALSE, simple |-> TRUE]
Inspect(r, w) ==
  [at           |-> Next(r.at, w),
   unresolvable |-> r.unresolvable \/ (r.at = "source" /\ w \notin Target \cup {"other"}),
   target       |-> r.target \/ (r.at \in {"source", "dynamic"} /\ w \in Target),
   simple       |-> r.simple /\ (\/ r.at = "start" /\ w = "."
                                 \/ r.at = "source" /\ w = "target")]

Verdict(r, parts) ==
  IF r.unresolvable \/ r.at = "source" THEN "ambiguous"
  ELSE IF ~r.target THEN "none"
  ELSE IF r.simple /\ parts = 1 THEN "rewritable" ELSE "ambiguous"

\* _has_live_eval, of one physical line.
EvalScan(found) == [at |-> "start", found |-> found]
FindEval(e, w) == [at |-> Next(e.at, w), found |-> e.found \/ (e.at \in Heads /\ w = "eval")]

-----------------------------------------------------------------------------
(***************************************************************************)
(* The shell.  A command is at its "head", at its wrapper's options        *)
(* ("wrapped"), before what it sources ("source") or further on ("rest");  *)
(* a redirection may stand anywhere in it, with its file behind it.        *)
(***************************************************************************)
Shell == [at |-> "head", file |-> FALSE, sources |-> FALSE, evals |-> FALSE]

Behind(at, w) ==
  IF at = "head" /\ w \in {"time", "X=1"} THEN "head"
  ELSE IF at \in {"head", "wrapped"} /\ w = "command" THEN "wrapped"
  ELSE IF at = "wrapped" /\ w = "-p" THEN "wrapped"
  ELSE IF at \in {"head", "wrapped"} /\ w \in Source THEN "source" ELSE "rest"

\* May source the target; of a command that is an unknown word nothing is asked.
Run(k, w) ==
  IF k.at = "comment" THEN k
  ELSE IF w = "#" THEN [k EXCEPT !.at = "comment"]
  ELSE IF w = ";" THEN [k EXCEPT !.at = "head", !.file = FALSE]
  ELSE IF k.file THEN [k EXCEPT !.file = FALSE]
  ELSE IF w \in {">", ">|"} THEN [k EXCEPT !.file = TRUE]
  ELSE IF w = ">f" THEN k
  ELSE [k EXCEPT !.at      = Behind(k.at, w),
                 !.sources = @ \/ (k.at = "source" /\ w \in Target \cup {"$x"}),
                 !.evals   = @ \/ (k.at \in {"head", "wrapped"} /\ w = "eval")]

\* A comment runs to the end of its physical line, backslash or not; the newline ends the command.
Continue(k) == IF k.at = "comment" THEN [k EXCEPT !.at = "head", !.file = FALSE] ELSE k

-----------------------------------------------------------------------------
\* "joined" are the words of the logical line, "above" of them on the physical lines before the
\* one that is read, the parts-th.
Reading(parts, above, joined, inspection, eval, shell) ==
  [at |-> "reads", parts |-> parts, above |-> above, joined |-> joined,
   inspection |-> inspection, eval |-> eval, shell |-> shell]

At(place) == asked.part = "line" /\ reading # None /\ reading.at = place

StartsLine ==
  /\ asked.part = "line" /\ reading = None
  /\ reading' = Reading(1, 0, <<>>, Inspection, EvalScan(FALSE), Shell)

ReadsWord ==
  /\ At("reads") /\ Len(reading.joined) < asked.most
  /\ \E w \in asked.words :
       reading' = Reading(reading.parts, reading.above, Append(reading.joined, w),
                          Inspect(reading.inspection, w), FindEval(reading.eval, w),
                          Run(reading.shell, w))

JoinsNext ==
  /\ At("reads") /\ reading.parts < asked.parts
  /\ reading' = Reading(reading.parts + 1, Len(reading.joined), reading.joined,
                        reading.inspection, EvalScan(reading.eval.found),
                        Continue(reading.shell))

\* consolidation_refusal, and what consolidated_body disables.
Judges ==
  /\ At("reads")
  /\ LET verdict == Verdict(reading.inspection, reading.parts) IN
     reading' = [at |-> "judged", parts |-> reading.parts, above |-> reading.above,
                 joined |-> reading.joined,
                 refused |-> reading.eval.found \/ verdict = "ambiguous",
                 disabled |-> verdict = "rewritable",
                 sources |-> reading.shell.sources, evals |-> reading.shell.evals]

SourceLinesNext == (StartsLine \/ ReadsWord \/ JoinsNext \/ Judges) /\ UNCHANGED asked

-----------------------------------------------------------------------------
\* The exceptions, of what is read (r): a `>|`, a wrapper's option behind a redirection, an eval
\* in a continued line (its wrapper or redirection may be on the physical line before it), and
\* a comment that ends in a backslash.
ClobberHides(r) == \E i \in DOMAIN r.joined : r.joined[i] = ">|"
Redirected(s, i, j) ==
  /\ \A k \in i + 1 .. j : s[k] \in {"-p", ">", ">f"} \/ s[k - 1] = ">"
  /\ \E k \in i + 1 .. j : s[k] \in {">", ">f"}
OptionHides(r) ==
  \E i, j \in DOMAIN r.joined :
    i < j /\ r.joined[i] = "command" /\ Redirected(r.joined, i, j - 1) /\ r.joined[j] = "-p"
EvalSplit(r) == r.parts > 1 /\ \E i \in DOMAIN r.joined : r.joined[i] = "eval"
CommentJoins(r) == \E i \in 1 .. r.above : r.joined[i] = "#"
Missed(r) == ClobberHides(r) \/ OptionHides(r) \/ EvalSplit(r) \/ CommentJoins(r)

(***************************************************************************)
(* What consolidation copies into ~/.myshellrc never sources ~/.myshellrc  *)
(* ("Missing a source line can create a self-sourcing loop"), and a line   *)
(* it disables did nothing but that ("commenting out a compound line ...   *)
(* can silently destroy content"); all else is copied as it is.            *)
(***************************************************************************)
CopyIsSafe ==
  At("judged") /\ ~reading.refused =>
    IF reading.disabled THEN reading.parts = 1 /\ reading.joined = <<".", "target">>
    ELSE Missed(reading) \/ (~reading.sources /\ ~reading.evals)
=============================================================================
