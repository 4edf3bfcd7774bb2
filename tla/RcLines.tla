------------------------------- MODULE RcLines -------------------------------
(***************************************************************************)
(* Which lines of a shell startup file put a managed directory on PATH     *)
(* again and again, as installer/rcclean.py reads them, what the cleanup   *)
(* and the guard make of the file, and what a shell makes of it.           *)
(*                                                                         *)
(* One line is one command.  Its "value" is the list a PATH line assigns:  *)
(*   "m"  the managed directory       "n"  another directory               *)
(*   "B"  a variable, assigned by lines of this file                       *)
(*   "v"  a variable nobody here assigns        "PATH"  the value so far   *)
(***************************************************************************)
EXTENDS Integers, Sequences, FiniteSetsExt, Functions

Names == {"m", "n", "B", "v", "PATH"}

\* A line has a head, and "tests" says that its condition asks if PATH lacks m.
\* "write" lines have a form: a plain assignment; one with a comment; a zsh array; `PATH=... cmd`;
\* `cond && PATH=...`; `if cond; then PATH=...; fi`; `case ":$PATH:" in ... PATH=... ;; esac`.
Forms == {"plain", "comment", "array", "prefix", "and", "if", "case"}

Line(head) == [head |-> head, tests |-> FALSE, value |-> <<>>, form |-> "plain", indent |-> FALSE]
Opens(head, tests) == [Line(head) EXCEPT !.tests = tests]
Write(value, form, tests, indent) ==
  [head |-> "write", tests |-> tests, value |-> value, form |-> form, indent |-> indent]
Assign(x) == [Line("B=") EXCEPT !.value = <<x>>]

CloserOf == [if |-> "fi", while |-> "done", for |-> "done", case |-> "esac"]
OPENERS == DOMAIN CloserOf
CLOSERS == {"fi", "done", "esac"}

Comments == {"ours >>>", "<<< ours", "theirs >>>", "<<< theirs", "gone"}
Commands == {"text", "write", "B=", "heredoc", "EOF"}
Heads == OPENERS \cup CLOSERS \cup {"elif", "else"} \cup Commands \cup Comments

\* Only a condition asks about PATH, and the case that is written as one line always does.
Lines ==
  {l \in [head : Heads, tests : BOOLEAN, value : Seq(Names), form : Forms, indent : BOOLEAN] :
     /\ l.head # "write" => l.form = "plain"
     /\ l.head = "B=" => Len(l.value) = 1 /\ l.value[1] # "PATH"
     /\ l.head = "for" => ~l.tests
     /\ l.form = "case" => l.tests
     /\ l.head = "write" /\ l.form \notin {"and", "if", "case"} => ~l.tests}

-----------------------------------------------------------------------------
(***************************************************************************)
(* The scan.  A frame is an open block, and whether its condition names    *)
(* PATH; local is what B expands to.                                       *)
(***************************************************************************)
\* _managed_line_indices: between our markers, if both are there.
Managed(lines) ==
  LET At(head) == {i \in DOMAIN lines : lines[i].head = head}
      blocks == {p \in At("ours >>>") \X At("<<< ours") :
                   \A k \in At("ours >>>") \cup At("<<< ours") : k <= p[1] \/ p[2] <= k}
  IN  UNION {p[1] .. p[2] : p \in blocks}

\* _pop_closer, _replace_fi_condition: the innermost frame with that closer.
Innermost(stack, closer) ==
  LET with == {k \in DOMAIN stack : stack[k].closer = closer} IN IF with = {} THEN 0 ELSE Max(with)
PopCloser(stack, closer) ==
  LET at == Innermost(stack, closer) IN IF at = 0 THEN stack ELSE SubSeq(stack, 1, at - 1)
ReplaceFi(stack, tests) ==
  LET at == Innermost(stack, "fi")
      frame == [closer |-> "fi", tests |-> tests]
  IN  IF at = 0 THEN Append(stack, frame) ELSE [stack EXCEPT ![at] = frame]

\* Mutant of UpdateBlockStack: an elif is still under the condition of its if.
StackWithoutElif(stack, l) ==
  CASE l.head \in OPENERS -> Append(stack, [closer |-> CloserOf[l.head], tests |-> l.tests])
    [] l.head \in CLOSERS -> PopCloser(stack, l.head)
    [] OTHER              -> stack

UpdateBlockStack(stack, l) ==
  CASE l.head \in OPENERS -> Append(stack, [closer |-> CloserOf[l.head], tests |-> l.tests])
    [] l.head \in CLOSERS -> PopCloser(stack, l.head)
    [] l.head = "elif"    -> ReplaceFi(stack, l.tests)
    [] OTHER              -> stack

\* _expand, and _remember_assign: what does not expand leaves the last value there.
Expand(x, local) == IF x = "B" THEN local ELSE x
Known(x, local) == Expand(x, local) \in {"m", "n"}
Remember(local, l) ==
  IF l.head = "B=" /\ Known(l.value[1], local) THEN Expand(l.value[1], local) ELSE local

\* _path_line_targets: what is known before each line.
Scanned(s, l, managed) ==
  IF s.heredoc THEN [s EXCEPT !.heredoc = l.head # "EOF"]
  ELSE IF managed THEN s
  ELSE [stack |-> UpdateBlockStack(s.stack, l), local |-> Remember(s.local, l), heredoc |-> l.head = "heredoc"]

Unread == [stack |-> <<>>, local |-> "v", heredoc |-> FALSE]
Scan(lines) ==
  LET before[i \in 1 .. Len(lines) + 1] ==
        IF i = 1 THEN Unread
        ELSE Scanned(before[i - 1], lines[i - 1], i - 1 \in Managed(lines))
  IN  before

PresenceGuarded(s, l) == (\E k \in DOMAIN s.stack : s.stack[k].tests) \/ (l.form = "if" /\ l.tests)

\* `cond && PATH=...` adds nothing a test of PATH does not guard.
Targets(l, s) ==
  IF l.form = "and" /\ l.tests THEN {}
  ELSE {Expand(x, s.local) : x \in {x \in Range(l.value) : x # "PATH" /\ Known(x, s.local)}}

\* _judge_line: of a line that is read, is no case header, and assigns PATH for good.
Records(lines) ==
  LET managed == Managed(lines)
      before == Scan(lines)
      read == {i \in DOMAIN lines : /\ lines[i].head = "write" /\ lines[i].form \notin {"prefix", "case"}
                                    /\ i \notin managed /\ ~before[i].heredoc}
      Record(i, l, s) ==
        [index |-> i, value |-> l.value, targets |-> Targets(l, s), simple |-> l.form = "plain",
         indented |-> l.indent, guarded |-> PresenceGuarded(s, l), block |-> s.stack # <<>>,
         unresolved |-> \E x \in Range(l.value) : x # "PATH" /\ ~Known(x, s.local)]
  IN  {Record(i, lines[i], before[i]) : i \in read}
Indices(records) == {r.index : r \in records}

-----------------------------------------------------------------------------
\* find_duplicate_path_lines
Duplicates(lines) ==
  {r \in Records(lines) : r.simple /\ ~r.indented /\ ~r.guarded /\ "m" \in r.targets}

\* strip_lines; a removed line is left as an empty one here: only the numbers would differ.
StripLines(lines) ==
  LET drop == Indices(Duplicates(lines)) IN
  [i \in DOMAIN lines |-> IF i \in drop THEN Line("gone") ELSE lines[i]]

\* _foreign_block_owners: an open block of another tool runs on to the end of the file.
Owned(lines, i) ==
  \E a \in 1 .. i : /\ lines[a].head = "theirs >>>"
                    /\ \A b \in a .. i - 1 : lines[b].head # "<<< theirs"

\* path_writer_lines
Writers(lines) == {r \in Records(lines) : ~r.guarded /\ "m" \in r.targets}

\* _guard_refusal: one directory, put before what was there.
Guardable(lines) ==
  {r \in Writers(lines) :
     /\ ~Owned(lines, r.index) /\ r.simple /\ ~r.unresolved
     /\ Len(r.value) = 2 /\ r.value[1] # "PATH" /\ r.value[2] = "PATH"}

\* guard_path_writers, path_export_guard
GuardWriters(lines) ==
  LET guardable == Indices(Guardable(lines)) IN
  [i \in DOMAIN lines |->
     IF i \in guardable THEN Write(<<"m", "PATH">>, "case", TRUE, lines[i].indent) ELSE lines[i]]

-----------------------------------------------------------------------------
(***************************************************************************)
(* The shell.  A frame is an open block: is its body running, has one of   *)
(* its branches run, has the body a command, was there an else.            *)
(***************************************************************************)
Holds(l, i, path, truths) == IF l.tests THEN "m" \notin path ELSE i \in truths

Added(value, b) == {IF x = "B" THEN b ELSE x : x \in Range(value) \ {"PATH"}}
Assigned(value, s) == Added(value, s.b) \cup (IF "PATH" \in Range(value) THEN s.path ELSE {})

Running(s) == \A k \in DOMAIN s.stack : s.stack[k].on
WithBody(stack) ==
  [k \in DOMAIN stack |-> IF k = Len(stack) THEN [stack[k] EXCEPT !.empty = FALSE] ELSE stack[k]]

Command(s, l, i, truths) ==
  LET runs == Running(s) /\ (l.form \in {"and", "if", "case"} => Holds(l, i, s.path, truths))
      assigns == l.head = "write" /\ l.form # "prefix" /\ runs
  IN  [s EXCEPT
         !.stack   = WithBody(@),
         !.heredoc = l.head = "heredoc",
         !.b       = IF l.head = "B=" /\ runs THEN l.value[1] ELSE @,
         !.path    = IF assigns THEN Assigned(l.value, s) ELSE @,
         !.again   = IF assigns /\ "PATH" \in Range(l.value) /\ "m" \in s.path \cap Added(l.value, s.b)
                     THEN @ \cup {i} ELSE @]

Top(s) == s.stack[Len(s.stack)]
Outer(s) == SubSeq(s.stack, 1, Len(s.stack) - 1)

Branch(s, holds, else) ==
  LET branch == [closer |-> "fi", on |-> holds /\ ~Top(s).ran, ran |-> holds \/ Top(s).ran,
                 empty |-> TRUE, else |-> else]
  IN  IF s.stack = <<>> \/ Top(s).closer # "fi" \/ Top(s).empty \/ Top(s).else THEN [s EXCEPT !.bad = TRUE]
      ELSE [s EXCEPT !.stack = Append(Outer(s), branch)]

Close(s, closer) ==
  IF s.stack = <<>> \/ Top(s).closer # closer \/ Top(s).empty THEN [s EXCEPT !.bad = TRUE]
  ELSE [s EXCEPT !.stack = WithBody(Outer(s))]

Opened(s, l, holds) ==
  [s EXCEPT !.stack = Append(@, [closer |-> CloserOf[l.head], on |-> holds, ran |-> holds,
                                 empty |-> l.head # "case", else |-> FALSE])]

After(s, l, i, truths) ==
  LET holds == l.head = "for" \/ Holds(l, i, s.path, truths) IN
  IF s.bad THEN s
  ELSE IF s.heredoc THEN [s EXCEPT !.heredoc = l.head # "EOF"]
  ELSE CASE l.head \in OPENERS          -> Opened(s, l, holds)
         [] l.head \in CLOSERS          -> Close(s, l.head)
         [] l.head \in {"elif", "else"} -> Branch(s, l.head = "else" \/ holds, l.head = "else")
         [] l.head \in Commands         -> Command(s, l, i, truths)
         [] OTHER                       -> s

\* Sourcing the file: its conditions but those on PATH hold at the lines in truths.
Started(path) == [stack |-> <<>>, path |-> path, b |-> "v", heredoc |-> FALSE, bad |-> FALSE, again |-> {}]
Sourcing(lines, path, truths) ==
  LET before[i \in 1 .. Len(lines) + 1] ==
        IF i = 1 THEN Started(path)
        ELSE After(before[i - 1], lines[i - 1], i - 1, truths)
  IN  before
Sourced(lines, path, truths) ==
  LET end == Sourcing(lines, path, truths)[Len(lines) + 1]
  IN  [end EXCEPT !.bad = @ \/ end.stack # <<>> \/ end.heredoc]

\* What the conditions that do not name PATH may answer.
Truths(lines) ==
  SUBSET {i \in DOMAIN lines : ~lines[i].tests /\ (lines[i].head \in {"if", "elif", "while", "case"}
                                                  \/ lines[i].form \in {"and", "if"})}

-----------------------------------------------------------------------------
\* The exceptions.  A line at column 0 of a block may be its only command.
EmptiesBlock(lines) == \E r \in Duplicates(lines) : r.block
\* The line adds more than managed directories, and goes as a whole.
MoreGoes(lines) == \E r \in Duplicates(lines) : r.unresolved \/ r.targets # {"m"}
\* A line up to this one replaces PATH: the managed directory is off it.
Replaced(lines, i) ==
  \E k \in 1 .. i : lines[k].head = "write" /\ lines[k].form # "prefix" /\ "PATH" \notin Range(lines[k].value)
Replaces(lines) == Replaced(lines, Len(lines))
\* The line that goes puts it back, or is the one that takes it off.
PutsBack(lines) == \E r \in Duplicates(lines) : Replaced(lines, r.index)
\* The variable is assigned in a block that may not run, or to what does not expand.
Stale(lines) ==
  \E i \in DOMAIN lines : lines[i].head = "B=" /\ (Scan(lines)[i].stack # <<>> \/ ~Known(lines[i].value[1], "v"))
\* The else of a test runs when the test says no.
ElseOfTest(lines) ==
  \E i \in DOMAIN lines : lines[i].head = "else" /\ PresenceGuarded(Scan(lines)[i], lines[i])

\* What a shell with the managed directory on its PATH, and one without it, makes of the file.
Nested == {"m", "z"}
Fresh  == {"z"}
Parses(lines) == ~Sourced(lines, Nested, {}).bad
SamePath(lines, other, path) ==
  \A truths \in Truths(lines) :
    Sourced(lines, path, truths).path = Sourced(other, path, truths).path

\* The cleanup leaves a file the shell still reads, and takes no directory from PATH where the
\* managed ones are on it already (rcclean.py 513: "would corrupt the file").
StripIsSafe(lines, stripped) ==
  ~EmptiesBlock(lines) =>
    Parses(stripped) /\ (MoreGoes(lines) \/ PutsBack(lines) \/ Stale(lines) \/ SamePath(lines, stripped, Nested))

\* The guard takes no directory from any shell's PATH, and adds none again (shellrc.py 1133).
GuardIsSafe(lines, guarded) ==
  /\ Parses(guarded)
  /\ ~Stale(lines) => SamePath(lines, guarded, Nested) /\ SamePath(lines, guarded, Fresh)
  /\ \A truths \in Truths(lines) :
       Sourced(guarded, Nested, truths).again \cap Indices(Guardable(lines)) = {}

\* The lines reported are those that add a managed directory to a PATH that has it already
\* (rcclean.py 631: "A presence-guarded block is not a writer").
ReportIsTrue(lines, reported) ==
  ~Stale(lines) /\ ~ElseOfTest(lines) /\ ~Replaces(lines) =>
    reported = UNION {Sourced(lines, Nested, truths).again : truths \in Truths(lines)}

\* Nobody has edited between our markers.
OursIsOurs(lines) ==
  \A i \in Managed(lines) :
    \/ lines[i].head \in {"ours >>>", "<<< ours"}
    \/ lines[i] = Write(<<"m", "PATH">>, "case", TRUE, FALSE)

LinesAreJudged(lines, answer) ==
  Parses(lines) /\ OursIsOurs(lines) => /\ StripIsSafe(lines, answer.stripped)
                   /\ GuardIsSafe(lines, answer.guarded)
                   /\ ReportIsTrue(lines, answer.reported)
=============================================================================
