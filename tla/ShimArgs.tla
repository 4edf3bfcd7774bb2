------------------------------- MODULE ShimArgs -------------------------------
(***************************************************************************)
(* What npm's wrapper and npx's redirect do with their arguments           *)
(* (installer/guards.py): the loops of the two shell scripts, token by     *)
(* token.  A token stands for its kind, -gD for a cluster of booleans, -Cg *)
(* for a cluster with a value, --save-dev=x for a listed boolean with a    *)
(* value attached.                                                         *)
(***************************************************************************)
EXTENDS Naturals, Sequences

CONSTANT None

VARIABLES asked, \* the shim that was called, and the arguments it was given
          shell  \* the script's variables, None before it starts

args == asked.args

Subcommands == {"install", "add", "i"}
GlobalFlags == {"-g", "-gD"}
Booleans    == {"-D", "--save-dev", "--save-dev=x"}
Unknown     == {"--registry", "--registry=x", "--force", "--global=x", "-C", "-Cg", "--"}
Options     == GlobalFlags \cup Booleans \cup Unknown
WrapperTokens == Options \cup {"true", "install", "run", "a", "b", ""}

\* A token of npx: its kind, and its text or the package it names.
NpxTokens == {<<"-y", "-y">>, <<"-p", "-p">>, <<"--package", "x">>, <<"--package=", "--package=">>,
              <<"-q", "-q">>, <<"word", "">>, <<"word", "a">>, <<"word", "b">>}
IsOption(t) == t[1] # "word"
Package(t) == <<"--package", t[2]>>

\* How far a script is; argv is "$@", in the end what it runs volta or pnpm with.
Reads(n, global, known, subcmd) ==
  [at |-> "reads", n |-> n, global |-> global, known |-> known, subcmd |-> subcmd]
Keeps(argv, argc, seen)     == [at |-> "keeps", argv |-> argv, argc |-> argc, seen |-> seen]
Translates(argv, argc, pkgs) == [at |-> "translates", argv |-> argv, argc |-> argc, pkgs |-> pkgs]
Rotates(argv, argc)         == [at |-> "rotates", argv |-> argv, argc |-> argc]
Runs(argv)                  == [at |-> "runs", argv |-> argv]
Blocked                     == [at |-> "blocked"]

Calls(shim) == asked.part = shim /\ shell = None
At(place)   == asked.part \in {"npm", "npx"} /\ shell # None /\ shell.at = place

-----------------------------------------------------------------------------
(* npm's wrapper: the arguments are read once, and then rotated.           *)

\* Mutant of Clears: a bare true or false is a package.
ClearsOptions(t) == t \in Unknown

\* What clears the wrapper's "known".
Clears(t) == t \in Unknown \cup {"true"}

StartsWrapper == Calls("npm") /\ shell' = Reads(0, FALSE, TRUE, "")

ReadsToken ==
  /\ At("reads") /\ shell.n < Len(args)
  /\ LET t == args[shell.n + 1]
         names == t \notin Options /\ ~Clears(t) /\ shell.subcmd = ""
     IN  shell' = Reads(shell.n + 1, shell.global \/ t \in GlobalFlags,
                        shell.known /\ ~Clears(t), IF names THEN t ELSE shell.subcmd)

Decides ==
  /\ At("reads") /\ shell.n = Len(args)
  /\ shell' = IF shell.global /\ shell.known /\ shell.subcmd \in Subcommands
                THEN Keeps(args, Len(args), FALSE) ELSE Blocked

KeepsToken ==
  /\ At("keeps") /\ shell.argc > 0
  /\ LET t == Head(shell.argv) rest == Tail(shell.argv) IN
     shell' = IF t \in Options THEN Keeps(rest, shell.argc - 1, shell.seen)
              ELSE Keeps(IF shell.seen THEN Append(rest, t) ELSE rest, shell.argc - 1, TRUE)

\* The packages volta gets; <<>> is a usage error.
RunsVolta == At("keeps") /\ shell.argc = 0 /\ shell' = Runs(shell.argv)

-----------------------------------------------------------------------------
(* npx's redirect: the packages are rotated to the end, then the command   *)
(* behind them.                                                            *)
StartsNpx == Calls("npx") /\ shell' = Translates(args, Len(args), 0)

OptionIs(kind) == At("translates") /\ shell.argc > 0 /\ Head(shell.argv)[1] = kind
NamesPackage   == shell.argc > 1 /\ shell.argv[2][2] # ""

DropsYes == OptionIs("-y") /\ shell' = Translates(Tail(shell.argv), shell.argc - 1, shell.pkgs)

TakesPackage ==
  /\ OptionIs("-p") /\ NamesPackage
  /\ shell' = Translates(Append(Tail(Tail(shell.argv)), Package(shell.argv[2])),
                         shell.argc - 2, shell.pkgs + 1)

TakesAttached ==
  /\ OptionIs("--package")
  /\ shell' = Translates(Append(Tail(shell.argv), Head(shell.argv)), shell.argc - 1, shell.pkgs + 1)

Refuses ==
  /\ \/ OptionIs("-p") /\ ~NamesPackage
     \/ OptionIs("--package=")
     \/ OptionIs("-q")
  /\ shell' = Blocked

\* The first word is the command; where there is none, everything left is packages.
FindsCommand ==
  /\ At("translates") /\ ~(shell.argc > 0 /\ IsOption(Head(shell.argv)))
  /\ shell' = IF Len(shell.argv) = shell.pkgs THEN Blocked
              ELSE Rotates(shell.argv, Len(shell.argv) - shell.pkgs)

RotatesToken ==
  /\ At("rotates") /\ shell.argc > 0
  /\ shell' = Rotates(Append(Tail(shell.argv), Head(shell.argv)), shell.argc - 1)

\* What pnpm dlx gets.
RunsPnpm == At("rotates") /\ shell.argc = 0 /\ shell' = Runs(shell.argv)

ShimArgsNext ==
  /\ \/ StartsWrapper \/ ReadsToken \/ Decides \/ KeepsToken \/ RunsVolta
     \/ StartsNpx \/ DropsYes \/ TakesPackage \/ TakesAttached \/ Refuses
     \/ FindsCommand \/ RotatesToken \/ RunsPnpm
  /\ UNCHANGED asked

-----------------------------------------------------------------------------
(* npm's and npx's own reading.                                            *)

\* "values" are the positions, up to the last, that an option before them takes: the takers
\* that are options themselves take what follows them.
ValuesUpTo(last, values, takers) ==
  \A i \in 1 .. last : i \in values <=> i > 1 /\ (i - 1) \in takers \ values

\* "seq" holds, from left to right, the tokens at the positions P.
Holds(seq, P, tokens) ==
  \E pos \in [DOMAIN seq -> P] :
    /\ {pos[k] : k \in DOMAIN seq} = P
    /\ \A j, k \in DOMAIN seq : j < k => pos[j] < pos[k]
    /\ \A k \in DOMAIN seq : seq[k] = tokens[pos[k]]

\* --registry and -C take the next token, a boolean takes a true.
NpmTakers ==
  {i \in 1 .. Len(args) - 1 :
     args[i] \in {"--registry", "-C"}
       \cup IF args[i + 1] = "true" THEN GlobalFlags \cup {"-D", "--save-dev"} ELSE {}}

\* npm stops to read options at "end": a -- that is no value, or behind the last token.
NpmReading(values, end) ==
  /\ values \subseteq 1 .. end - 1 /\ ValuesUpTo(end, values, NpmTakers)
  /\ \A i \in 1 .. end - 1 : args[i] = "--" => i \in values
  /\ end <= Len(args) => args[end] = "--"

NpmOptions(values, end) == {i \in (1 .. end - 1) \ values : args[i] \in Options}
NpmWords(values, end) ==
  {i \in DOMAIN args : i > end \/ (i < end /\ i \notin values /\ args[i] \notin Options)}

\* With an empty word in its place the wrapper takes the next word for the subcommand, and hands
\* that to volta with the packages.
EmptyCommand(first) == args[first] = ""

\* The wrapper hands volta the packages npm itself would install globally, and drops no option
\* that says how (guards.py 231).
WrapperIsFaithful ==
  \E end \in 1 .. Len(args) + 1 : \E values \in SUBSET (1 .. end - 1) :
    /\ NpmReading(values, end)
    /\ \E first \in NpmWords(values, end) :
         /\ \A i \in NpmWords(values, end) : first <= i
         /\ args[first] \in Subcommands \/ EmptyCommand(first)
         /\ Holds(shell.argv, NpmWords(values, end) \ {first}, args)
    /\ \E i \in NpmOptions(values, end) : args[i] \in GlobalFlags
    /\ \A i \in NpmOptions(values, end) : args[i] \in GlobalFlags \cup Booleans

\* npx reads options from the left, a -p and the package after it as one; "command" is the
\* first word.
NpxReading(values, command) ==
  /\ ValuesUpTo(command, values, {i \in DOMAIN args : args[i][1] = "-p"})
  /\ \A i \in 1 .. command - 1 :
       IF i \in values THEN args[i][2] # "" ELSE args[i][1] \in {"-y", "-p", "--package"}
  /\ command \notin values /\ ~IsOption(args[command])

NpxReadings ==
  {r \in [values : SUBSET (DOMAIN args), command : DOMAIN args] :
     r.values \subseteq 1 .. r.command /\ NpxReading(r.values, r.command)}

NpxPackages(r) == {i \in 1 .. r.command - 1 : i \in r.values \/ args[i][1] = "--package"}

\* The redirect runs the command with the packages that were named, in their order, and with
\* its arguments as they were; anything it does not understand it refuses (guards.py 208).
NpxIsFaithful ==
  \E r \in NpxReadings, n \in 0 .. Len(shell.argv) :
    /\ Holds(SubSeq(shell.argv, 1, n), NpxPackages(r), [i \in DOMAIN args |-> Package(args[i])])
    /\ SubSeq(shell.argv, n + 1, Len(shell.argv)) = SubSeq(args, r.command, Len(args))

ArgsAreFaithful ==
  /\ At("runs") => IF asked.part = "npm" THEN WrapperIsFaithful ELSE NpxIsFaithful
  /\ At("blocked") /\ asked.part = "npx" => NpxReadings = {}
=============================================================================
