------------------------------ MODULE Questions ------------------------------
(***************************************************************************)
(* Decisions over all that can be on a machine: a behaviour is one         *)
(* question and its answer.                                                *)
(*   "owner"    a machine, and who owns the tool's copy (Ownership);       *)
(*   "globals"  pnpm's globals, and an update of pnpm (Globals);           *)
(*   "npm", "npx"  the arguments of a shim, and how far it is (ShimArgs);  *)
(*   "line"     a line of ~/.shellrc, read word by word (SourceLines);     *)
(*   "file"     a startup file, and its PATH lines (RcLines).              *)
(***************************************************************************)
EXTENDS Globals, Sequences

CONSTANTS KindSets,     \* the sets of kinds the catalog's tools declare
          MaxCopies,    \* bound: copies of the command on a machine
          Installable,  \* the packages pnpm can hold
          MaxPackages,  \* bound: packages it does hold
          MaxArgs,      \* bound, for each shim: the arguments it is given
          LineBounds,   \* bounds: a line's words, how many of them and on how many physical lines
          StartupFiles, \* the startup files that are read
          Unset         \* no answer yet, no copy on PATH, no subcommand, nothing run

VARIABLES asked, answer

O == INSTANCE Ownership WITH None <- Unset
A == INSTANCE ShimArgs WITH None <- Unset, shell <- answer
Src == INSTANCE SourceLines WITH None <- Unset, reading <- answer
Rc == INSTANCE RcLines

\* No tool is both set up by the installer itself and packaged by the system.
ASSUME KindsAssumption ==
  \A kinds \in KindSets : kinds \subseteq O!Kinds /\ ("host_setup" \in kinds => "native" \notin kinds)

ASSUME MaxArgsAssumption == MaxArgs \in [{"npm", "npx"} -> Nat]

ASSUME LineBoundsAssumption ==
  LineBounds \subseteq [words : SUBSET Src!Words, most : Nat, parts : Nat]

ASSUME StartupFilesAssumption == StartupFiles \subseteq Seq(Rc!Lines)

ASSUME UnsetIsNoPlace == Unset \notin O!Places \cup {"native", "rpm-ostree", "pnpm"}

-----------------------------------------------------------------------------
\* Only a Linux can be immutable; any host can do without Homebrew.
Platforms == {host \in [os : {"macos", "linux"}, brew : BOOLEAN, immutable : BOOLEAN] :
                host.os = "macos" => ~host.immutable}

Owners == {[kinds |-> k, binDir |-> d, otherArch |-> o] : k \in KindSets, d, o \in BOOLEAN}

MissingListings(t) == SUBSET ({O!ManagerOf[k] : k \in DOMAIN O!ManagerOf \cap t.kinds} \cup {"prefix"})
Readable(platform, missing) ==
  (O!Listings \ missing) \ (IF platform.brew THEN {} ELSE {"brew", "cask", "prefix"})

AskOwner(q) ==
  \E platform \in Platforms, t \in Owners :
    /\ t.binDir => t.kinds \cap {"script", "sdkman"} # {}
    /\ t.otherArch => "brew" \in t.kinds /\ platform.brew
    /\ \E places \in {P \in SUBSET O!Places : Cardinality(P) <= MaxCopies} :
       \E copies \in [places -> UNION {O!Bringers(t.kinds, platform, p) : p \in places}],
          active \in places \cup {Unset}, missing \in MissingListings(t) :
         /\ \A p \in places : copies[p] \in O!Bringers(t.kinds, platform, p)
         /\ "usr" \in places => active # Unset
         /\ q = [part |-> "owner", tool |-> t, host |-> platform, copies |-> copies,
                 active |-> active, readable |-> Readable(platform, missing)]

\* pnpm keeps a package in one group.
Groupings(packages) ==
  {P \in SUBSET (SUBSET packages \ {{}}) :
     UNION P = packages /\ \A a, b \in P : a = b \/ a \cap b = {}}

AskGlobals(q) ==
  \E run \in Runs,
     groups \in UNION {Groupings(P) : P \in {P \in SUBSET Installable : Cardinality(P) <= MaxPackages}} :
    \E unread, lost, allowed \in SUBSET UNION groups :
      q = [part |-> "globals", run |-> run, lost |-> lost,
           from |-> [groups |-> groups, unread |-> unread, allowed |-> allowed]]

ArgsUpTo(tokens, n) == UNION {[1 .. k -> tokens] : k \in 0 .. n}

AskShim(q) ==
  \/ \E words \in ArgsUpTo(A!WrapperTokens, MaxArgs.npm) : q = [part |-> "npm", args |-> words]
  \/ \E words \in ArgsUpTo(A!NpxTokens, MaxArgs.npx) : q = [part |-> "npx", args |-> words]

AskLine(q) ==
  \E bounds \in LineBounds :
    q = [part |-> "line", words |-> bounds.words, most |-> bounds.most, parts |-> bounds.parts]

AskFile(q) == \E lines \in StartupFiles : q = [part |-> "file", lines |-> lines]

Asks(q) == AskOwner(q) \/ AskGlobals(q) \/ AskShim(q) \/ AskLine(q) \/ AskFile(q)

-----------------------------------------------------------------------------
QuestionsInit == answer = Unset /\ Asks(asked)

TellOwner ==
  /\ asked.part = "owner" /\ answer = Unset
  /\ answer' = O!ResolveOwnership(asked) /\ UNCHANGED asked

TellGlobals ==
  /\ asked.part = "globals" /\ answer = Unset
  /\ answer' = UpdatePnpm(asked.from, asked.run, asked.lost) /\ UNCHANGED asked

TellFile ==
  /\ asked.part = "file" /\ answer = Unset
  /\ answer' = [stripped |-> Rc!StripLines(asked.lines), guarded |-> Rc!GuardWriters(asked.lines),
                reported |-> Rc!Indices(Rc!Writers(asked.lines))]
  /\ UNCHANGED asked

QuestionsNext == TellOwner \/ TellGlobals \/ A!ShimArgsNext \/ Src!SourceLinesNext \/ TellFile

QuestionsSpec == QuestionsInit /\ [][QuestionsNext]_<<asked, answer>>

-----------------------------------------------------------------------------
Answered(part) == answer # Unset /\ asked.part = part

\* What Ownership says of direct evidence and of an owner found by elimination, of every
\* machine.
OwnerIsTrue ==
  Answered("owner") => O!DirectIsTrue(asked, answer) /\ O!EliminationIsSound(asked, answer)

\* What Globals says of an update of pnpm, of the build permission and of a split group, of
\* every set of globals.
GlobalsAreKept ==
  Answered("globals") =>
    /\ GlobalsSurvive(asked.from, answer) /\ NothingIsGranted(asked.from, answer)
    /\ SplitIsTrue(asked.from)

\* What ShimArgs says of the arguments of npm and npx, of every argument list.
ArgsAreFaithful == A!ArgsAreFaithful

\* What SourceLines says of a line that is copied into ~/.myshellrc, of every line.
CopiesAreSafe == Src!CopyIsSafe

\* What RcLines says of the lines that are stripped, guarded and reported, of every file.
LinesAreJudged == Answered("file") => Rc!LinesAreJudged(asked.lines, answer)
=============================================================================
