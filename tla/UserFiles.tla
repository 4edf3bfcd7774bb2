------------------------------ MODULE UserFiles ------------------------------
(***************************************************************************)
(* The files the user edits too: a behaviour is one of the settings file   *)
(* of an agent with the ledger beside it, one of the shell startup files,  *)
(* or one of Oh-My-Zsh's part of .zshrc.  The three share no state, and    *)
(* the last two their bookkeeping variables.                               *)
(***************************************************************************)
EXTENDS AgentSettings

CONSTANTS
  Modes, Lines, DropsOld, WiringEdits, WiringRuns, WiringFailures,   \* of RcFiles
  Shadowing, ZshEdits, ZshRuns, ZshFaults                            \* of Omz

VARIABLES about,  \* whose behaviour this is
          step, wiring, touched, typed, runs, raises,
          disk, old, moved,
          rc, claimed, claim, starship, ours, looks, drawn, stranded

shared  == <<step, wiring, touched, typed, runs, raises>>
rcVars  == <<disk, old, moved>>
omzVars == <<rc, claimed, claim, starship, ours, looks, drawn, stranded>>

F == INSTANCE RcFiles WITH
       run <- wiring, edits <- typed,
       MaxEdits <- WiringEdits, MaxRuns <- WiringRuns, MaxFailures <- WiringFailures

Z == INSTANCE Omz WITH
       run <- wiring, edits <- typed, faults <- raises,
       MaxEdits <- ZshEdits, MaxRuns <- ZshRuns, MaxFaults <- ZshFaults

\* None is a value of its own: no string, no set of names or of lines, and no content of a file.
ASSUME NoneIsNothing ==
  /\ None \notin {"", "own", "robbyrussell", "single", "late", "nested", "multi", "user", "installer", "lookalike"}
  /\ \A names \in SUBSET Z!Names : None # names
  /\ None \notin [sourced : BOOLEAN, array : Z!Arrays, names : SUBSET Z!Names,
                  theme : {None, "own", "robbyrussell", ""}]
  /\ None \notin {"configure", "guard", "clean", "consolidated", "already"}
  /\ \A lines \in SUBSET (F!UserLines \cup {"shellrc"}) : None # lines
  /\ None \notin [lines : SUBSET (F!UserLines \cup {"shellrc"}), block : {None} \cup SUBSET (F!UserLines \cup {"shellrc"}),
                  source : BOOLEAN, path : BOOLEAN, stub : BOOLEAN]
  /\ None \notin [of : [lines : SUBSET (F!UserLines \cup {"shellrc"}), block : {None} \cup SUBSET (F!UserLines \cup {"shellrc"}),
                        source : BOOLEAN, path : BOOLEAN, stub : BOOLEAN],
                  whole : BOOLEAN]

\* What a user has in ~/.shellrc.
ASSUME LinesAreTheUsers == Lines \subseteq F!UserLines

SettingsAsleep ==
  /\ file = None /\ ledger = None /\ aside = None /\ pc = "asleep" /\ run = None
  /\ result = None /\ edits = 0 /\ base = None /\ lookalike = {}

SharedAsleep ==
  /\ step = "asleep" /\ wiring = None /\ touched = {} /\ typed = 0 /\ runs = 0 /\ raises = 0

RcAsleep == disk = None /\ old = None /\ moved = {}

OmzAsleep ==
  /\ rc = None /\ claimed = None /\ claim = None /\ starship = FALSE
  /\ ours = {} /\ looks = {} /\ drawn = None /\ stranded = FALSE

FilesInit ==
  \/ about = "settings" /\ Init /\ SharedAsleep /\ RcAsleep /\ OmzAsleep
  \/ about = "startup" /\ F!Init /\ SettingsAsleep /\ OmzAsleep
  \/ about = "omz" /\ Z!Init /\ SettingsAsleep /\ RcAsleep

SetOrRevert == about = "settings" /\ Next /\ UNCHANGED <<about, shared, rcVars, omzVars>>
Wire        == about = "startup" /\ F!Next /\ UNCHANGED <<about, vars, omzVars>>
Decorate    == about = "omz" /\ Z!Next /\ UNCHANGED <<about, vars, rcVars>>

FilesNext == SetOrRevert \/ Wire \/ Decorate

FilesSpec == FilesInit /\ [][FilesNext]_<<about, vars, shared, rcVars, omzVars>>

-----------------------------------------------------------------------------
\* What AgentSettings says of the keys it did not record, of every life of the file.
OnlyOursDiffers == about = "settings" => OnlyRecordedDiffers
\* What AgentSettings says of the user's own keys and content, of every life of the file.
UsersValueStays == about = "settings" => YoursStaysYours /\ UsersContentStays
\* What RcFiles says of the lines a stub replaced and of the way back, of every life of
\* the startup files.
ContentIsKept == about = "startup" => F!ContentIsKept /\ F!MvRestores
\* What RcFiles says of a refused consolidation, of every life of the startup files.
RefusedIsUndone == about = "startup" => F!RefusedIsUndone
\* What RcFiles says of the routes to ~/.myshellrc, of every life of the startup files.
OneRoute == about = "startup" => F!OneRoute
\* What Omz says of the names and the theme the ledger claims, of every life of .zshrc.
ClaimsAreTrue == about = "omz" => Z!NamesAreRecorded /\ Z!OnePrompt
\* What Omz says of the user's names and theme, of every step of .zshrc's life.
YoursStayAlways == [][about = "omz" => Z!YoursStay]_<<about, vars, shared, rcVars, omzVars>>
=============================================================================
