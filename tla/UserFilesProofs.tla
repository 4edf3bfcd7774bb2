--------------------------- MODULE UserFilesProofs ---------------------------
(***************************************************************************)
(* Proofs about UserFiles: what the files the user edits too keep, of      *)
(* every life of .zshrc (Omz), of the shell startup files (RcFiles) and of *)
(* an agent's settings file (AgentSettings).                               *)
(***************************************************************************)
EXTENDS UserFiles, Sequences, TLAPS

-----------------------------------------------------------------------------
(***************************************************************************)
(* Oh-My-Zsh's plugins and theme.                                          *)
(***************************************************************************)
Themes == {None, "own", "robbyrussell", ""}
Zshrc  == [sourced : BOOLEAN, array : Z!Arrays, names : SUBSET Z!Names, theme : Themes]
Drawers == {None, "installer", "user", "lookalike"}
Seen   == [ours : SUBSET Z!Names, looks : SUBSET Z!Names, drawn : Drawers]
Record == {None} \cup SUBSET Z!Names

Arraying == {"reserve", "edit", "rollback"}
Theming  == {"reserve_theme", "edit_theme", "rollback_theme"}
Claiming == {"edit_theme", "rollback_theme"}
Removing == {"remove", "strip", "clear"}

\* The types of the files, the records and an operation's locals.
OmzTypes ==
  /\ rc \in {None} \cup Zshrc /\ claimed \in Record /\ claim \in Themes
  /\ ours \subseteq Z!Names /\ looks \subseteq Z!Names /\ drawn \in Drawers
  /\ DOMAIN wiring = {"op", "rc", "seen", "added", "before", "theme", "wrote", "error"}
  /\ wiring.added \subseteq Z!Names /\ wiring.before \in Record
  /\ wiring.theme \in Themes /\ wiring.wrote \in Themes

\* Which operation is at which step, and what it has at hand there.
StepInv ==
  /\ step \in {"idle", "ended", "template", "read", "theme", "block"} \cup Arraying \cup Theming \cup Removing
  /\ step = "template" => wiring.op \in {"enable", "theme", "sync"}
  /\ step \in {"read"} \cup Arraying => wiring.op = "enable"
  /\ step = "block" => wiring.op = "starship"
  /\ step \in {"theme"} \cup Theming => wiring.op \in {"enable", "theme", "starship"}
  /\ step \in Removing => wiring.op = "disable"
  /\ step \in {"template", "read", "theme", "block", "remove"} \cup Theming => wiring.added = {}
  /\ step \in {"template", "read", "theme", "block"} \cup Arraying \cup Removing =>
       wiring.theme = None /\ wiring.wrote = None
  /\ step \in Arraying \cup Theming \cup {"strip"} => wiring.rc \in Zshrc /\ wiring.seen \in Seen
  /\ step \in Arraying \cup {"strip"} => Z!Editable(wiring.rc)
  /\ step \in Theming => wiring.theme # None

\* A text, the names in it that are the installer's, and who wrote its theme.
TextInv(c, mine, by) ==
  /\ mine \subseteq c.names
  /\ c.array = None => c.names = {}
  /\ c.array = "multi" => mine = {}
  /\ by # None => c.theme # None

\* Names are recorded; a recorded name that is there is ours, or was the user's all the same;
\* and the user's theme is none that the installer has claimed.
NamesInv ==
  /\ rc = None => ours = {} /\ looks = {} /\ drawn = None
  /\ rc # None => TextInv(rc, ours, drawn)
  /\ ours \cap {"docker"} \subseteq Z!Owned(claimed)
  /\ rc # None => rc.names \cap (Z!Owned(claimed) \cup wiring.added) \subseteq ours \cup looks
  /\ drawn = "user" => rc.theme \notin {claim, wiring.theme, wiring.wrote}
  /\ drawn = "installer" => stranded \/ rc.theme = IF step \in Claiming THEN wiring.wrote ELSE claim

\* What an operation read is what there is, unless the user has edited; and what it will write
\* back.
ReadInv ==
  /\ step \in Arraying \cup Theming \cup {"strip"} =>
       /\ TextInv(wiring.rc, wiring.seen.ours, IF step \in Theming THEN None ELSE wiring.seen.drawn)
       /\ ours \subseteq wiring.seen.ours
  /\ step \in Arraying \cup {"strip"} =>
       /\ ~touched => rc = wiring.rc /\ ours = wiring.seen.ours /\ looks = wiring.seen.looks
       /\ wiring.seen.drawn = "user" => wiring.rc.theme # claim
       /\ wiring.seen.drawn = "installer" => stranded \/ wiring.rc.theme = claim
  /\ step \in Arraying =>
       /\ wiring.seen.ours \cap {"docker"} \subseteq Z!Owned(wiring.before)
       /\ wiring.rc.names \cap wiring.added = {}
       /\ wiring.rc.names \cap Z!Owned(wiring.before) \subseteq wiring.seen.ours \cup wiring.seen.looks
       /\ claimed = IF step = "reserve" THEN wiring.before ELSE Z!Owned(wiring.before) \cup wiring.added
  /\ step = "strip" =>
       /\ claimed = wiring.added /\ wiring.seen.ours \cap {"docker"} \subseteq wiring.added
       /\ wiring.rc.names \cap wiring.added \subseteq wiring.seen.ours \cup wiring.seen.looks
  /\ step = "clear" => ours \cap {"docker"} = {}
  /\ step \in Theming =>
       /\ wiring.rc.theme = wiring.theme
       /\ wiring.op = "starship" /\ starship => wiring.theme = ""
       /\ wiring.seen.ours \cap {"docker"} \subseteq Z!Owned(claimed)
       /\ wiring.rc.names \cap Z!Owned(claimed) \subseteq wiring.seen.ours \cup wiring.seen.looks
       /\ claim = IF step = "reserve_theme" THEN wiring.wrote ELSE wiring.theme
       /\ ~touched => rc # None /\ rc.names = wiring.rc.names /\ drawn # "user"

OmzInv == OmzTypes /\ StepInv /\ NamesInv /\ ReadInv /\ Z!OnePrompt

LEMMA NoneApart ==
  /\ None # "" /\ None # "user" /\ None # "installer" /\ None # "lookalike"
  /\ None # "single" /\ None # "late" /\ None # "nested" /\ None # "multi"
  /\ None # "own" /\ None # "robbyrussell"
  /\ None \notin SUBSET Z!Names /\ None \notin Zshrc
<1>1. None \notin SUBSET Z!Names
  BY NoneIsNothing DEF Z!Names, Z!Managed
<1>2. None \notin Zshrc
  BY NoneIsNothing DEF Zshrc, Themes, Z!Arrays, Z!Names, Z!Managed
<1> QED
  BY <1>1, <1>2, NoneIsNothing

\* The fields of a text, and the two that are written.
LEMMA ZshrcFields ==
  ASSUME NEW c \in Zshrc
  PROVE  /\ c.sourced \in BOOLEAN /\ c.array \in Z!Arrays /\ c.names \subseteq Z!Names /\ c.theme \in Themes
         /\ c # None
  BY NoneApart DEF Zshrc

LEMMA ZshrcNames ==
  ASSUME NEW c \in Zshrc, NEW S \in SUBSET Z!Names
  PROVE  LET d == [c EXCEPT !.names = S] IN
         /\ d \in Zshrc /\ d.names = S /\ d # None
         /\ d.sourced = c.sourced /\ d.array = c.array /\ d.theme = c.theme
  BY NoneApart DEF Zshrc

LEMMA ZshrcTheme ==
  ASSUME NEW c \in Zshrc, NEW t \in Themes
  PROVE  LET d == [c EXCEPT !.theme = t] IN
         /\ d \in Zshrc /\ d.theme = t /\ d # None
         /\ d.sourced = c.sourced /\ d.array = c.array /\ d.names = c.names
  BY NoneApart DEF Zshrc

\* The template keeps the theme and the names, and adds "git" at most.
LEMMA TemplateAdds ==
  ASSUME NEW c \in Zshrc, c.array = None => c.names = {}
  PROVE  /\ Z!Template(c) \in Zshrc
         /\ Z!Template(c).theme = c.theme /\ Z!Template(c).sourced /\ Z!Template(c).array # None
         /\ c.names \subseteq Z!Template(c).names \/ (c.array = "multi" /\ ~c.sourced)
         /\ Z!Template(c).names \subseteq c.names \cup (Z!Template(c).names \ Z!PluginsIn(c))
         /\ Z!Template(c).names \ Z!PluginsIn(c) \subseteq {"git"} \/ Z!Template(c) = c
         /\ Z!Template(c).array = "multi" => Z!Template(c) = c
  BY NoneIsNothing DEF Z!Template, Z!PluginsIn, Z!Editable, Zshrc, Z!Arrays, Z!Names, Z!Managed, Themes

\* set_theme changes the theme alone, and only where there is none or the one to replace.
LEMMA ThemeGivesWay ==
  ASSUME NEW c \in Zshrc, NEW name \in Themes, NEW replace, NEW t, t = Z!SetTheme(c, name, replace)
  PROVE  /\ t \in Zshrc
         /\ t.sourced = c.sourced /\ t.array = c.array /\ t.names = c.names
         /\ t # c => t.theme = name /\ (c.theme = None \/ c.theme = replace)
         /\ c.sourced /\ c.theme \in {None, replace} => t.theme = name
  BY NoneIsNothing DEF Z!SetTheme, Zshrc

LEMMA OmzStart == Z!Init => OmzInv
<1> SUFFICES ASSUME Z!Init PROVE OmzInv
  OBVIOUS
<1>1. PICK sourced \in BOOLEAN, array \in Z!Arrays, names \in SUBSET {"docker", "own"},
          theme \in {None, "own", "robbyrussell"} :
        /\ array = "multi" => sourced \/ Shadowing
        /\ array = None => names = {}
        /\ rc \in {None, [sourced |-> sourced, array |-> array, names |-> names, theme |-> theme]}
  BY DEF Z!Init
<1>2. /\ claimed = None /\ claim = None /\ starship = FALSE
      /\ step = "idle" /\ wiring = Z!Idle
      /\ ours = {} /\ looks = {} /\ stranded = FALSE /\ touched = FALSE
      /\ drawn = (IF rc = None \/ rc.theme = None THEN None ELSE "user")
  BY DEF Z!Init
<1>3. wiring = [op |-> None, rc |-> None, seen |-> None, added |-> {}, before |-> None, theme |-> None,
                wrote |-> None, error |-> FALSE]
  BY <1>2 DEF Z!Idle
<1>4. [sourced |-> sourced, array |-> array, names |-> names, theme |-> theme] \in Zshrc
  BY DEF Zshrc, Themes, Z!Names, Z!Managed, Z!Arrays
<1>5. rc = None \/ rc = [sourced |-> sourced, array |-> array, names |-> names, theme |-> theme]
  BY <1>1
<1>6. OmzTypes
  BY <1>2, <1>3, <1>4, <1>5 DEF OmzTypes, Drawers, Record, Themes
<1>7. StepInv
  BY <1>2 DEF StepInv, Arraying, Theming, Removing
<1>8. drawn # "installer" /\ (drawn # None => rc # None /\ rc.theme # None)
  BY <1>2, NoneApart
<1>9. rc # None => TextInv(rc, ours, drawn)
  BY <1>1, <1>2, <1>5, <1>8 DEF TextInv
<1>10. ours \cap {"docker"} \subseteq Z!Owned(claimed) /\ Z!Owned(claimed) = {} /\ wiring.added = {}
  BY <1>2, <1>3 DEF Z!Owned
<1>11. claim = None /\ wiring.theme = None /\ wiring.wrote = None
  BY <1>2, <1>3
<1>12. NamesInv
  BY <1>2, <1>8, <1>9, <1>10, <1>11, NoneApart DEF NamesInv
<1>13. ReadInv
  BY <1>2 DEF ReadInv, Arraying, Theming
<1> QED
  BY <1>2, <1>6, <1>7, <1>12, <1>13 DEF OmzInv, Z!OnePrompt

\* What the locals of a fresh operation are.
Fresh(r) ==
  /\ DOMAIN r = {"op", "rc", "seen", "added", "before", "theme", "wrote", "error"}
  /\ r.added = {} /\ r.before = None /\ r.theme = None /\ r.wrote = None

\* Two locals that differ in the operation and its error alone.
Same(r, s) ==
  /\ DOMAIN s = DOMAIN r
  /\ s.added = r.added /\ s.before = r.before /\ s.theme = r.theme /\ s.wrote = r.wrote

LEMMA FreshLocals == Fresh(Z!Idle) /\ \A o : Fresh([Z!Idle EXCEPT !.op = o]) /\ [Z!Idle EXCEPT !.op = o].op = o
  BY DEF Z!Idle, Fresh

\* An operation that begins or is over, or whose next step needs nothing but the files.
LEMMA OmzBegins ==
  ASSUME OmzInv, UNCHANGED <<rc, claimed, claim, ours, looks, drawn>>,
         stranded \/ step \in Claiming => stranded', Fresh(wiring'),
         step' \in {"idle", "template", "theme", "block", "remove"},
         step' = "template" => wiring'.op \in {"enable", "theme", "sync"},
         step' = "block" => wiring'.op = "starship", step' = "remove" => wiring'.op = "disable",
         step' = "theme" => wiring'.op \in {"enable", "starship"}
  PROVE  OmzInv'
<1> USE NoneApart DEF OmzInv, Arraying, Theming, Removing, Claiming, Fresh
<1>1. OmzTypes'
  BY DEF OmzTypes, Record, Themes
<1>2. StepInv'
  BY DEF StepInv
<1>3. NamesInv'
  BY DEF NamesInv, TextInv
<1>4. ReadInv'
  BY DEF ReadInv
<1>5. Z!OnePrompt'
  BY DEF Z!OnePrompt
<1> QED
  BY <1>1, <1>2, <1>3, <1>4, <1>5

\* An operation that ends without a write of .zshrc.
LEMMA OmzEnds ==
  ASSUME OmzInv, UNCHANGED <<rc, claim, ours, looks, drawn>>, step' = "ended",
         stranded \/ step \in Claiming => stranded', Same(wiring, wiring'),
         claimed' \in Record, ours \cap {"docker"} \subseteq Z!Owned(claimed'),
         Z!Owned(claimed') \subseteq Z!Owned(claimed) \cup wiring.added, Z!OnePrompt'
  PROVE  OmzInv'
<1> USE NoneApart DEF OmzInv, Arraying, Theming, Removing, Claiming, Same
<1>1. OmzTypes'
  BY DEF OmzTypes
<1>2. StepInv'
  BY DEF StepInv
<1>3. NamesInv'
  BY DEF NamesInv, TextInv
<1>4. ReadInv'
  BY DEF ReadInv
<1> QED
  BY <1>1, <1>2, <1>3, <1>4

LEMMA SeenFields ==
  ASSUME OmzTypes
  PROVE  LET r == [ours |-> ours, looks |-> looks, drawn |-> drawn] IN
         r \in Seen /\ r.ours = ours /\ r.looks = looks /\ r.drawn = drawn
  BY DEF OmzTypes, Seen

LEMMA DefaultGivesWay ==
  ASSUME rc \in Zshrc, Z!DefaultTheme \in Themes
  PROVE  LET u == Z!SetTheme(rc, Z!DefaultTheme, claim) IN
         /\ u \in Zshrc /\ u.sourced = rc.sourced /\ u.array = rc.array /\ u.names = rc.names
         /\ u # rc => u.theme = Z!DefaultTheme /\ (rc.theme = None \/ rc.theme = claim)
         /\ rc.sourced /\ rc.theme \in {None, claim} => u.theme = Z!DefaultTheme
<1> DEFINE u == Z!SetTheme(rc, Z!DefaultTheme, claim)
<1>1. u \in Zshrc /\ u.sourced = rc.sourced /\ u.array = rc.array /\ u.names = rc.names
  BY ThemeGivesWay
<1>2. u # rc => u.theme = Z!DefaultTheme /\ (rc.theme = None \/ rc.theme = claim)
  BY ThemeGivesWay
<1>3. rc.sourced /\ rc.theme \in {None, claim} => u.theme = Z!DefaultTheme
  BY ThemeGivesWay
<1> QED
  BY <1>1, <1>2, <1>3

LEMMA OmzStep == OmzInv /\ [Z!Next]_(Z!vars) => OmzInv'
<1> SUFFICES ASSUME OmzInv, [Z!Next]_(Z!vars) PROVE OmzInv'
  OBVIOUS
<1>1. CASE Z!Enable \/ Z!Disable \/ Z!Starship \/ Z!Theme \/ Z!Sync
  <2>1. PICK o \in {"enable", "disable", "starship", "theme", "sync"}, at \in {"template", "remove", "block"} :
          /\ Z!Begin(o, at) /\ (at = "remove" <=> o = "disable") /\ (at = "block" <=> o = "starship")
    BY <1>1 DEF Z!Enable, Z!Disable, Z!Starship, Z!Theme, Z!Sync
  <2>2. UNCHANGED <<rc, claimed, claim, ours, looks, drawn, stranded>> /\ step = "idle"
    BY <2>1 DEF Z!Begin, Z!history
  <2>3. step' = at /\ Fresh(wiring') /\ wiring'.op = o
    BY <2>1, FreshLocals DEF Z!Begin
  <2> QED
    BY <2>1, <2>2, <2>3, OmzBegins DEF Claiming
<1>2. CASE Z!Return \/ Z!Kill
  <2>1. UNCHANGED <<rc, claimed, claim, ours, looks, drawn>> /\ step' = "idle" /\ Fresh(wiring')
    BY <1>2, FreshLocals DEF Z!Return, Z!Kill, Z!Rests
  <2>2. stranded \/ step \in Claiming => stranded'
    BY <1>2 DEF Z!Return, Z!Kill, Z!Strands, Claiming
  <2> QED
    BY <2>1, <2>2, OmzBegins
<1> USE NoneApart DEF OmzInv, Arraying, Theming, Removing, Claiming
<1>3. CASE Z!EnsureTemplate
  <2> DEFINE c == Z!Read
             t == Z!Template(c)
  <2>1. /\ step = "template" /\ wiring' = wiring
        /\ UNCHANGED <<claimed, claim, starship, stranded, touched, looks, drawn>>
        /\ step' = CASE wiring.op = "enable" -> "read" [] wiring.op = "theme" -> "theme" [] OTHER -> "ended"
        /\ \/ UNCHANGED <<rc, ours>>
           \/ rc' = t /\ ours' = ours \cup (t.names \ Z!PluginsIn(c)) /\ (rc # None => t # rc)
    <3>1. rc # None => c = rc
      BY DEF Z!Read
    <3>2. CASE rc # None /\ (Z!Template(rc) = rc \/ (wiring.op = "enable" /\ ~Z!WantsTemplate(rc)))
      BY <1>3, <3>2 DEF Z!EnsureTemplate, Z!Goes, Z!history
    <3>3. CASE ~(rc # None /\ (Z!Template(rc) = rc \/ (wiring.op = "enable" /\ ~Z!WantsTemplate(rc))))
      BY <1>3, <3>1, <3>3 DEF Z!EnsureTemplate, Z!WritesRc
    <3> QED
      BY <3>2, <3>3
  <2>2. wiring.op \in {"enable", "theme", "sync"} /\ step' \in {"read", "theme", "ended"}
        /\ (step' = "read" => wiring.op = "enable") /\ (step' = "theme" => wiring.op = "theme")
    BY <2>1 DEF StepInv
  <2>3. c \in Zshrc /\ (c.array = None => c.names = {}) /\ (rc # None => c = rc) /\ (rc = None => c.names = {})
        /\ (rc = None => c.theme = None /\ c.array = None)
    BY DEF Z!Read, Z!Bare, Zshrc, Themes, Z!Arrays, OmzTypes, NamesInv, TextInv
  <2>4. /\ t \in Zshrc /\ t.theme = c.theme /\ t.array # None
        /\ c.names \subseteq t.names \/ c.array = "multi"
        /\ t.names \subseteq c.names \cup (t.names \ Z!PluginsIn(c))
        /\ t.names \ Z!PluginsIn(c) \subseteq {"git"} \/ t = c
        /\ t.array = "multi" => t = c
    BY <2>3, TemplateAdds
  <2>5. CASE UNCHANGED <<rc, ours>>
    <3>1. OmzTypes'
      BY <2>1, <2>5 DEF OmzTypes
    <3>2. StepInv'
      BY <2>1, <2>2 DEF StepInv
    <3>3. NamesInv'
      BY <2>1, <2>2, <2>5 DEF NamesInv, TextInv
    <3>4. ReadInv' /\ Z!OnePrompt'
      BY <2>1, <2>2 DEF ReadInv, Z!OnePrompt
    <3> QED
      BY <3>1, <3>2, <3>3, <3>4
  <2>6. CASE rc' = t /\ ours' = ours \cup (t.names \ Z!PluginsIn(c)) /\ (rc # None => t # rc)
    <3>1. t.names \subseteq Z!Names /\ t # None /\ t # c
      BY <2>3, <2>4, <2>6, ZshrcFields
    <3>2. OmzTypes'
      BY <2>1, <2>4, <2>6, <3>1 DEF OmzTypes
    <3>3. StepInv'
      BY <2>1, <2>2 DEF StepInv
    <3>4. ours \subseteq c.names /\ (c.array = "multi" => ours = {}) /\ (drawn # None => t.theme # None)
          /\ c.names \cap (Z!Owned(claimed) \cup wiring.added) \subseteq ours \cup looks
      BY <2>3, <2>4 DEF NamesInv, TextInv
    <3>5. TextInv(rc', ours', drawn')
      BY <2>1, <2>4, <2>6, <3>1, <3>4 DEF TextInv
    <3>6. rc'.names \cap (Z!Owned(claimed) \cup wiring.added) \subseteq ours' \cup looks
          /\ ours' \cap {"docker"} \subseteq Z!Owned(claimed)
      BY <2>4, <2>6, <3>1, <3>4 DEF NamesInv
    <3>7. NamesInv'
      BY <2>1, <2>2, <2>3, <2>4, <2>6, <3>1, <3>5, <3>6 DEF NamesInv
    <3>8. ReadInv' /\ Z!OnePrompt'
      BY <2>1, <2>2 DEF ReadInv, Z!OnePrompt
    <3> QED
      BY <3>2, <3>3, <3>7, <3>8
  <2> QED
    BY <2>1, <2>5, <2>6
<1>4. CASE Z!ReadArray
  <2>1. CASE Z!Refuse /\ step = "read"
    <3>1. wiring' = [wiring EXCEPT !.error = TRUE] /\ step' = "ended"
          /\ UNCHANGED <<rc, claimed, claim, ours, looks, drawn, stranded>>
      BY <2>1 DEF Z!Refuse, Z!Ends, Z!Goes, Z!history
    <3>2. Same(wiring, wiring') /\ wiring'.op = wiring.op /\ wiring.op = "enable"
      BY <2>1, <3>1 DEF Same, OmzTypes, StepInv
    <3> QED
      BY <2>1, <3>1, <3>2, OmzEnds DEF OmzTypes, NamesInv, Z!OnePrompt
  <2>2. CASE ~Z!Refuse
    <3> DEFINE w == [[[[wiring EXCEPT !.rc = rc] EXCEPT !.seen = [ours |-> ours, looks |-> looks, drawn |-> drawn]]
                       EXCEPT !.added = Z!Managed \ Z!PluginsIn(rc)] EXCEPT !.before = claimed]
    <3>1. /\ step = "read" /\ rc # None /\ Z!Editable(rc) /\ step' = "reserve"
          /\ wiring' = w
          /\ UNCHANGED <<rc, claimed, claim, starship, ours, looks, drawn, stranded, touched>>
      BY <1>4, <2>2 DEF Z!ReadArray, Z!Goes, Z!Reads, Z!history
    <3>2. /\ DOMAIN wiring' = DOMAIN wiring /\ wiring'.rc = rc
          /\ wiring'.seen = [ours |-> ours, looks |-> looks, drawn |-> drawn]
          /\ wiring'.added = Z!Managed \ Z!PluginsIn(rc) /\ wiring'.before = claimed
          /\ wiring'.theme = wiring.theme /\ wiring'.wrote = wiring.wrote /\ wiring'.op = wiring.op
      BY <3>1 DEF OmzTypes
    <3>3. /\ wiring'.seen \in Seen /\ wiring'.seen.ours = ours /\ wiring'.seen.looks = looks
          /\ wiring'.seen.drawn = drawn
      BY <3>2, SeenFields
    <3>4. wiring'.added \subseteq Z!Names /\ rc.names \cap wiring'.added = {}
      BY <3>1, <3>2 DEF Z!PluginsIn, Z!Names
    <3>5. wiring.theme = None /\ wiring.wrote = None /\ wiring.added = {} /\ wiring.op = "enable"
      BY <3>1 DEF StepInv
    <3>6. OmzTypes'
      BY <3>1, <3>2, <3>4 DEF OmzTypes
    <3>7. StepInv'
      BY <3>1, <3>2, <3>3, <3>5 DEF StepInv, OmzTypes
    <3>8. NamesInv'
      BY <3>1, <3>2, <3>4, <3>5 DEF NamesInv
    <3>9. ReadInv'
      BY <3>1, <3>2, <3>3, <3>4 DEF ReadInv, NamesInv
    <3>10. Z!OnePrompt'
      BY <3>1 DEF Z!OnePrompt
    <3> QED
      BY <3>6, <3>7, <3>8, <3>9, <3>10
  <2> QED
    BY <1>4, <2>1, <2>2 DEF Z!ReadArray
<1>5. CASE Z!Reserve
  <2>1. /\ step = "reserve" /\ step' = "edit" /\ claimed' = Z!Owned(wiring.before) \cup wiring.added
        /\ UNCHANGED <<rc, claim, starship, wiring, ours, looks, drawn, stranded, touched>>
    BY <1>5 DEF Z!Reserve, Z!history
  <2>2. Z!Owned(wiring.before) \subseteq Z!Names /\ claimed' \in Record /\ claimed' # None
        /\ Z!Owned(claimed) = Z!Owned(wiring.before)
    BY <2>1 DEF OmzTypes, Record, Z!Owned, ReadInv
  <2>3. Z!Owned(claimed') = Z!Owned(claimed) \cup wiring.added
    BY <2>1, <2>2 DEF Z!Owned
  <2>4. OmzTypes' /\ StepInv'
    BY <2>1, <2>2 DEF OmzTypes, StepInv
  <2>5. NamesInv'
    BY <2>1, <2>3 DEF NamesInv
  <2>6. ReadInv'
    BY <2>1 DEF ReadInv
  <2>7. Z!OnePrompt'
    BY <2>1 DEF Z!OnePrompt
  <2> QED
    BY <2>4, <2>5, <2>6, <2>7
<1>6. CASE Z!EditArray
  <2>1. CASE wiring.added = {}
    <3>1. /\ UNCHANGED <<rc, claimed, claim, ours, looks, drawn, stranded>>
          /\ step = "edit" /\ step' = "theme" /\ wiring' = [Z!Idle EXCEPT !.op = wiring.op]
      BY <1>6, <2>1 DEF Z!EditArray, Z!Goes, Z!history
    <3>2. Fresh(wiring') /\ wiring'.op = wiring.op /\ wiring.op = "enable"
      BY <3>1, FreshLocals DEF StepInv
    <3> QED
      BY <3>1, <3>2, OmzBegins
  <2>2. CASE wiring.added # {}
    <3> DEFINE c == wiring.rc
               both == c.names \cup wiring.added
    <3>1. /\ step = "edit" /\ step' = "theme" /\ rc' = [c EXCEPT !.names = both]
          /\ wiring' = [Z!Idle EXCEPT !.op = wiring.op]
          /\ ours' = wiring.seen.ours \cup wiring.added
          /\ looks' = wiring.seen.looks /\ drawn' = wiring.seen.drawn
          /\ UNCHANGED <<claimed, claim, starship, stranded, touched>>
      BY <1>6, <2>2 DEF Z!EditArray, Z!WritesRc
    <3>2. Fresh(wiring') /\ wiring'.op = wiring.op /\ wiring.op = "enable"
      BY <3>1, FreshLocals DEF StepInv
    <3>3. c \in Zshrc /\ wiring.seen \in Seen /\ c.array \in {"single", "late", "nested"}
      BY <3>1 DEF StepInv, Z!Editable
    <3>4. /\ wiring.seen.ours \subseteq Z!Names /\ wiring.seen.looks \subseteq Z!Names
          /\ wiring.seen.drawn \in Drawers /\ both \subseteq Z!Names
      BY <3>3, ZshrcFields DEF Seen, OmzTypes
    <3>5. rc' \in Zshrc /\ rc' # None /\ rc'.names = both /\ rc'.array = c.array /\ rc'.theme = c.theme
      BY <3>1, <3>3, <3>4, ZshrcNames
    <3>6. claimed # None /\ Z!Owned(claimed) = Z!Owned(wiring.before) \cup wiring.added
      BY <3>1 DEF ReadInv, OmzTypes, Record, Z!Owned
    <3>7. OmzTypes'
      BY <3>1, <3>2, <3>4, <3>5 DEF OmzTypes, Fresh, Record, Themes
    <3>8. StepInv'
      BY <3>1, <3>2 DEF StepInv, Fresh
    <3>9. TextInv(rc', ours', drawn')
      BY <3>1, <3>3, <3>5 DEF ReadInv, TextInv
    <3>10. /\ ours' \cap {"docker"} \subseteq Z!Owned(claimed)
           /\ both \cap Z!Owned(claimed) \subseteq ours' \cup looks'
      BY <3>1, <3>6 DEF ReadInv
    <3>11. /\ drawn' = "user" => rc'.theme # claim /\ rc'.theme # None
           /\ drawn' = "installer" => stranded \/ rc'.theme = claim
      BY <3>1, <3>5, <3>9 DEF ReadInv, TextInv
    <3>12. NamesInv'
      BY <3>1, <3>2, <3>5, <3>9, <3>10, <3>11 DEF NamesInv, Fresh
    <3>13. ReadInv' /\ Z!OnePrompt'
      BY <3>1 DEF ReadInv, Z!OnePrompt
    <3> QED
      BY <3>7, <3>8, <3>12, <3>13
  <2> QED
    BY <2>1, <2>2
<1>7. CASE Z!EditRaises
  <2>1. /\ step = "edit" /\ step' = "rollback"
        /\ UNCHANGED <<rc, claimed, claim, starship, wiring, ours, looks, drawn, stranded, touched>>
    BY <1>7 DEF Z!EditRaises, Z!history
  <2>2. OmzTypes' /\ StepInv'
    BY <2>1 DEF OmzTypes, StepInv
  <2>3. NamesInv'
    BY <2>1 DEF NamesInv
  <2>4. ReadInv' /\ Z!OnePrompt'
    BY <2>1 DEF ReadInv, Z!OnePrompt
  <2> QED
    BY <2>2, <2>3, <2>4
<1>8. CASE Z!Rollback
  <2>1. /\ step = "rollback" /\ step' = "ended" /\ claimed' = wiring.before
        /\ wiring' = [wiring EXCEPT !.error = TRUE]
        /\ UNCHANGED <<rc, claim, starship, ours, looks, drawn, stranded, touched>>
    BY <1>8 DEF Z!Rollback, Z!history
  <2>2. Same(wiring, wiring') /\ wiring'.op = wiring.op /\ wiring.op = "enable"
    BY <2>1 DEF Same, OmzTypes, StepInv
  <2>3. claimed' \in Record /\ ours \cap {"docker"} \subseteq Z!Owned(claimed')
    BY <2>1 DEF OmzTypes, ReadInv
  <2>4. Z!Owned(claimed') \subseteq Z!Owned(claimed) \cup wiring.added
    BY <2>1 DEF ReadInv, Z!Owned, OmzTypes, Record
  <2>5. Z!OnePrompt'
    BY <2>1, <2>2 DEF Z!OnePrompt
  <2> QED
    BY <2>1, <2>2, <2>3, <2>4, <2>5, OmzEnds
<1>9. CASE Z!ReadTheme
  <2> DEFINE u == Z!SetTheme(rc, Z!DefaultTheme, claim)
  <2>1. Z!DefaultTheme \in Themes /\ Z!DefaultTheme # None /\ (starship => Z!DefaultTheme = "")
    BY DEF Z!DefaultTheme, Themes
  <2>2. ASSUME rc # None
        PROVE  /\ u \in Zshrc /\ u.sourced = rc.sourced /\ u.array = rc.array /\ u.names = rc.names
               /\ u # rc => u.theme = Z!DefaultTheme /\ (rc.theme = None \/ rc.theme = claim)
               /\ rc.sourced /\ rc.theme \in {None, claim} => u.theme = Z!DefaultTheme
    <3>1. rc \in Zshrc
      BY <2>2 DEF OmzTypes
    <3> QED
      BY <2>1, <3>1, DefaultGivesWay
  <2>3. wiring.op \in {"enable", "theme", "starship"} /\ wiring.added = {} /\ step = "theme"
        /\ wiring.theme = None /\ wiring.wrote = None
    BY <1>9 DEF Z!ReadTheme, StepInv
  <2>4. CASE rc = None \/ ~rc.sourced \/ u = rc
    <3>1. /\ step' = "ended" /\ wiring' = wiring
          /\ UNCHANGED <<rc, claimed, claim, starship, ours, looks, drawn, stranded, touched>>
      BY <1>9, <2>4 DEF Z!ReadTheme, Z!Ends, Z!Goes, Z!history
    <3>2. ASSUME rc # None, rc.sourced, starship, drawn = "installer", ~stranded PROVE rc.theme = ""
      BY <2>1, <2>2, <2>3, <2>4, <3>2 DEF NamesInv
    <3>3. Z!OnePrompt'
      BY <3>1, <3>2 DEF Z!OnePrompt
    <3> QED
      BY <2>3, <3>1, <3>3, OmzEnds DEF Same, OmzTypes, NamesInv
  <2>5. CASE ~(rc = None \/ ~rc.sourced \/ u = rc)
    <3> DEFINE now == [ours |-> ours, looks |-> looks, drawn |-> drawn]
    <3>1. /\ step' = "reserve_theme" /\ rc # None /\ u # rc
          /\ wiring' = [[[[[wiring EXCEPT !.rc = rc] EXCEPT !.seen = now] EXCEPT !.rc = u]
                           EXCEPT !.wrote = claim] EXCEPT !.theme = Z!DefaultTheme]
          /\ UNCHANGED <<rc, claimed, claim, starship, ours, looks, drawn, stranded, touched>>
      BY <1>9, <2>5 DEF Z!ReadTheme, Z!Reads, Z!Goes, Z!history
    <3>2. /\ DOMAIN wiring' = DOMAIN wiring /\ wiring'.rc = u /\ wiring'.seen = now
          /\ wiring'.added = wiring.added /\ wiring'.before = wiring.before
          /\ wiring'.theme = Z!DefaultTheme /\ wiring'.wrote = claim /\ wiring'.op = wiring.op
      BY <3>1 DEF OmzTypes
    <3>3. now \in Seen /\ now.ours = ours /\ now.looks = looks /\ now.drawn = drawn
      BY SeenFields
    <3>4. OmzTypes'
      BY <2>1, <3>1, <3>2 DEF OmzTypes
    <3>5. StepInv'
      BY <2>1, <2>2, <2>3, <3>1, <3>2, <3>3 DEF StepInv
    <3>6. drawn # "user" /\ (rc.theme = None \/ rc.theme = claim)
      BY <2>2, <2>3, <3>1 DEF NamesInv, TextInv
    <3>7. NamesInv'
      BY <2>3, <3>1, <3>2, <3>6 DEF NamesInv
    <3>8. TextInv(u, ours, None)
      BY <2>2, <3>1 DEF NamesInv, TextInv
    <3>9. ReadInv'
      BY <2>1, <2>2, <2>3, <3>1, <3>2, <3>3, <3>6, <3>8 DEF ReadInv, NamesInv
    <3>10. Z!OnePrompt'
      BY <3>1 DEF Z!OnePrompt
    <3> QED
      BY <3>4, <3>5, <3>7, <3>9, <3>10
  <2> QED
    BY <2>4, <2>5
<1>10. CASE Z!ReserveTheme \/ Z!EditThemeRaises
  <2>1. /\ \/ step = "reserve_theme" /\ step' = "edit_theme" /\ claim' = wiring.theme
           \/ step = "edit_theme" /\ step' = "rollback_theme" /\ claim' = claim
        /\ UNCHANGED <<rc, claimed, starship, wiring, ours, looks, drawn, stranded, touched>>
    BY <1>10 DEF Z!ReserveTheme, Z!EditThemeRaises, Z!history
  <2>2. OmzTypes' /\ StepInv'
    BY <2>1 DEF OmzTypes, StepInv
  <2>3. NamesInv'
    BY <2>1 DEF NamesInv, ReadInv
  <2>4. ReadInv' /\ Z!OnePrompt'
    BY <2>1 DEF ReadInv, Z!OnePrompt
  <2> QED
    BY <2>2, <2>3, <2>4
<1>11. CASE Z!EditTheme
  <2>1. /\ step = "edit_theme" /\ step' = "ended" /\ rc' = wiring.rc /\ drawn' = "installer"
        /\ ours' = wiring.seen.ours /\ looks' = wiring.seen.looks
        /\ UNCHANGED <<claimed, claim, starship, wiring, stranded, touched>>
    BY <1>11 DEF Z!EditTheme, Z!WritesRc
  <2>2. /\ rc' \in Zshrc /\ rc' # None /\ ours' \subseteq Z!Names /\ looks' \subseteq Z!Names
        /\ wiring.added = {} /\ wiring.theme # None
    BY <2>1, ZshrcFields DEF StepInv, Seen
  <2>3. OmzTypes' /\ StepInv'
    BY <2>1, <2>2 DEF OmzTypes, Drawers, StepInv
  <2>4. rc'.theme = wiring.theme /\ claim = wiring.theme
    BY <2>1 DEF ReadInv
  <2>5. TextInv(rc', ours', drawn')
    BY <2>1, <2>2, <2>4 DEF ReadInv, TextInv
  <2>6. NamesInv'
    BY <2>1, <2>2, <2>4, <2>5 DEF ReadInv, NamesInv
  <2>7. ReadInv' /\ Z!OnePrompt'
    BY <2>1, <2>4 DEF ReadInv, Z!OnePrompt
  <2> QED
    BY <2>3, <2>6, <2>7
<1>12. CASE Z!RollbackTheme
  <2>1. /\ step = "rollback_theme" /\ step' = "ended" /\ claim' = wiring.wrote
        /\ wiring' = [wiring EXCEPT !.error = TRUE]
        /\ UNCHANGED <<rc, claimed, starship, ours, looks, drawn, stranded, touched>>
    BY <1>12 DEF Z!RollbackTheme, Z!history
  <2>2. Same(wiring, wiring') /\ wiring'.error
    BY <2>1 DEF Same, OmzTypes
  <2>3. OmzTypes' /\ StepInv'
    BY <2>1, <2>2 DEF OmzTypes, StepInv, Same
  <2>4. NamesInv'
    BY <2>1, <2>2 DEF NamesInv, Same
  <2>5. ReadInv' /\ Z!OnePrompt'
    BY <2>1, <2>2 DEF ReadInv, Z!OnePrompt
  <2> QED
    BY <2>3, <2>4, <2>5
<1>13. CASE Z!Block
  <2>1. /\ step = "block" /\ step' = "theme"
        /\ UNCHANGED <<rc, claimed, claim, wiring, ours, looks, drawn, stranded>>
    BY <1>13 DEF Z!Block, Z!history
  <2>2. OmzTypes' /\ StepInv'
    BY <2>1 DEF OmzTypes, StepInv
  <2>3. NamesInv'
    BY <2>1 DEF NamesInv
  <2>4. ReadInv' /\ Z!OnePrompt'
    BY <2>1 DEF ReadInv, Z!OnePrompt
  <2> QED
    BY <2>2, <2>3, <2>4
<1>14. CASE Z!Remove
  <2>1. step = "remove" /\ wiring.op = "disable" /\ wiring.added = {} /\ wiring.theme = None /\ wiring.wrote = None
    BY <1>14 DEF Z!Remove, StepInv
  <2>2. CASE Z!Owned(claimed) = {} \/ rc = None
    <3>1. /\ step' = "clear" /\ wiring' = wiring
          /\ UNCHANGED <<rc, claimed, claim, starship, ours, looks, drawn, stranded, touched>>
      BY <1>14, <2>2 DEF Z!Remove, Z!Goes, Z!history
    <3>2. ours \cap {"docker"} = {}
      BY <2>2 DEF NamesInv
    <3>3. OmzTypes' /\ StepInv'
      BY <2>1, <3>1 DEF OmzTypes, StepInv
    <3>4. NamesInv'
      BY <2>1, <3>1 DEF NamesInv
    <3>5. ReadInv' /\ Z!OnePrompt'
      BY <3>1, <3>2 DEF ReadInv, Z!OnePrompt
    <3> QED
      BY <3>3, <3>4, <3>5
  <2>3. CASE ~(Z!Owned(claimed) = {} \/ rc = None) /\ ~Z!Editable(rc)
    <3>1. wiring' = [wiring EXCEPT !.error = TRUE] /\ step' = "ended"
          /\ UNCHANGED <<rc, claimed, claim, ours, looks, drawn, stranded>>
      BY <1>14, <2>3 DEF Z!Remove, Z!Refuse, Z!Ends, Z!Goes, Z!history
    <3>2. Same(wiring, wiring') /\ wiring'.op = wiring.op
      BY <3>1 DEF Same, OmzTypes
    <3> QED
      BY <2>1, <3>1, <3>2, OmzEnds DEF OmzTypes, NamesInv, Z!OnePrompt
  <2>4. CASE ~(Z!Owned(claimed) = {} \/ rc = None) /\ Z!Editable(rc)
    <3> DEFINE now == [ours |-> ours, looks |-> looks, drawn |-> drawn]
    <3>1. /\ step' = "strip" /\ rc # None
          /\ wiring' = [[[wiring EXCEPT !.rc = rc] EXCEPT !.seen = now] EXCEPT !.added = Z!Owned(claimed)]
          /\ UNCHANGED <<rc, claimed, claim, starship, ours, looks, drawn, stranded, touched>>
      BY <1>14, <2>4 DEF Z!Remove, Z!Reads, Z!Goes, Z!history
    <3>2. /\ DOMAIN wiring' = DOMAIN wiring /\ wiring'.rc = rc /\ wiring'.seen = now
          /\ wiring'.added = Z!Owned(claimed) /\ wiring'.before = wiring.before
          /\ wiring'.theme = wiring.theme /\ wiring'.wrote = wiring.wrote /\ wiring'.op = wiring.op
      BY <3>1 DEF OmzTypes
    <3>3. now \in Seen /\ now.ours = ours /\ now.looks = looks /\ now.drawn = drawn
      BY SeenFields
    <3>4. Z!Owned(claimed) = claimed /\ claimed \subseteq Z!Names
      BY <2>4 DEF Z!Owned, OmzTypes, Record
    <3>5. OmzTypes'
      BY <3>1, <3>2, <3>4 DEF OmzTypes
    <3>6. StepInv'
      BY <2>1, <2>4, <3>1, <3>2, <3>3 DEF StepInv, OmzTypes
    <3>7. NamesInv'
      BY <2>1, <3>1, <3>2 DEF NamesInv
    <3>8. ReadInv'
      BY <2>1, <3>1, <3>2, <3>3, <3>4 DEF ReadInv, NamesInv
    <3>9. Z!OnePrompt'
      BY <3>1 DEF Z!OnePrompt
    <3> QED
      BY <3>5, <3>6, <3>7, <3>8, <3>9
  <2> QED
    BY <2>2, <2>3, <2>4
<1>15. CASE Z!Strip
  <2> DEFINE c == wiring.rc
             rest == c.names \ wiring.added
  <2>1. step = "strip" /\ c \in Zshrc /\ wiring.seen \in Seen /\ wiring.theme = None /\ wiring.wrote = None
        /\ wiring.op = "disable" /\ claimed = wiring.added /\ Z!Editable(c)
    BY <1>15 DEF Z!Strip, StepInv, ReadInv
  <2>2. Z!Owned(claimed) = wiring.added
    BY <2>1 DEF Z!Owned, OmzTypes
  <2>3. CASE c.names \cap wiring.added = {}
    <3>1. /\ step' = "clear" /\ wiring' = wiring
          /\ UNCHANGED <<rc, claimed, claim, starship, ours, looks, drawn, stranded, touched>>
      BY <1>15, <2>3 DEF Z!Strip, Z!Goes, Z!history
    <3>2. ours \cap {"docker"} = {}
      BY <2>1, <2>2, <2>3 DEF NamesInv, ReadInv, TextInv
    <3>3. OmzTypes' /\ StepInv'
      BY <2>1, <3>1 DEF OmzTypes, StepInv
    <3>4. NamesInv'
      BY <2>1, <3>1 DEF NamesInv
    <3>5. ReadInv' /\ Z!OnePrompt'
      BY <3>1, <3>2 DEF ReadInv, Z!OnePrompt
    <3> QED
      BY <3>3, <3>4, <3>5
  <2>4. CASE c.names \cap wiring.added # {}
    <3>1. /\ step' = "clear" /\ wiring' = wiring /\ rc' = [c EXCEPT !.names = rest]
          /\ ours' = wiring.seen.ours \ wiring.added
          /\ looks' = wiring.seen.looks \ wiring.added /\ drawn' = wiring.seen.drawn
          /\ UNCHANGED <<claimed, claim, starship, stranded, touched>>
      BY <1>15, <2>4 DEF Z!Strip, Z!WritesRc
    <3>2. /\ wiring.seen.ours \subseteq Z!Names /\ wiring.seen.looks \subseteq Z!Names
          /\ wiring.seen.drawn \in Drawers /\ rest \subseteq Z!Names /\ c.array # None
      BY <2>1, ZshrcFields DEF Seen, OmzTypes, Z!Editable
    <3>3. rc' \in Zshrc /\ rc' # None /\ rc'.names = rest /\ rc'.array = c.array /\ rc'.theme = c.theme
      BY <2>1, <3>1, <3>2, ZshrcNames
    <3>4. OmzTypes' /\ StepInv'
      BY <2>1, <3>1, <3>2, <3>3 DEF OmzTypes, StepInv
    <3>5. TextInv(c, wiring.seen.ours, wiring.seen.drawn)
      BY <2>1 DEF ReadInv
    <3>6. TextInv(rc', ours', drawn')
      BY <3>1, <3>2, <3>3, <3>5 DEF TextInv
    <3>7. ours \subseteq wiring.seen.ours /\ ours' \cap {"docker"} = {}
      BY <2>1, <2>2, <3>1, <3>5 DEF ReadInv, NamesInv, TextInv
    <3>8. /\ drawn' = "user" => rc'.theme # claim /\ rc'.theme # None
          /\ drawn' = "installer" => stranded \/ rc'.theme = claim
      BY <2>1, <3>1, <3>3, <3>6 DEF ReadInv, TextInv
    <3>9. NamesInv'
      BY <2>1, <2>2, <3>1, <3>3, <3>6, <3>7, <3>8 DEF NamesInv
    <3>10. ReadInv' /\ Z!OnePrompt'
      BY <3>1, <3>7 DEF ReadInv, Z!OnePrompt
    <3> QED
      BY <3>4, <3>9, <3>10
  <2> QED
    BY <2>3, <2>4
<1>16. CASE Z!Clear
  <2>1. /\ step = "clear" /\ step' = "ended" /\ claimed' = None /\ wiring' = wiring
        /\ UNCHANGED <<rc, claim, ours, looks, drawn, stranded>>
    BY <1>16 DEF Z!Clear, Z!history
  <2>2. ours \cap {"docker"} = {} /\ claimed' \in Record /\ Z!Owned(claimed') = {} /\ wiring.op = "disable"
    BY <2>1 DEF ReadInv, Record, Z!Owned, StepInv
  <2>3. Z!OnePrompt'
    BY <2>1, <2>2 DEF Z!OnePrompt
  <2> QED
    BY <2>1, <2>2, <2>3, OmzEnds DEF Same
<1>17. CASE Z!Raise
  <2>1. /\ step' = "ended" /\ wiring' = [wiring EXCEPT !.error = TRUE]
        /\ UNCHANGED <<rc, claimed, claim, ours, looks, drawn>>
        /\ stranded \/ step \in Claiming => stranded'
    BY <1>17 DEF Z!Raise, Z!Strands
  <2>2. Same(wiring, wiring') /\ wiring'.error
    BY <2>1 DEF Same, OmzTypes
  <2>3. Z!OnePrompt'
    BY <2>2 DEF Z!OnePrompt
  <2> QED
    BY <2>1, <2>2, <2>3, OmzEnds DEF OmzTypes, NamesInv
<1>18. CASE Z!UserPlugin
  <2>1. PICK n \in {"docker", "own"} :
          \/ /\ n \in rc.names /\ rc' = [rc EXCEPT !.names = rc.names \ {n}]
             /\ ours' = ours \ {n} /\ looks' = looks \ {n}
          \/ /\ n \notin rc.names /\ rc' = [rc EXCEPT !.names = rc.names \cup {n}]
             /\ looks' = (IF n \in Z!Owned(claimed) \cup wiring.added THEN looks \cup {n} ELSE looks)
             /\ ours' = ours
    BY <1>18 DEF Z!UserPlugin
  <2>2. /\ rc # None /\ rc.array \notin {None, "multi"}
        /\ UNCHANGED <<claimed, claim, starship, step, wiring, stranded, drawn>>
        /\ touched' = (step # "idle")
    BY <1>18 DEF Z!UserPlugin, Z!Edits
  <2>3. rc \in Zshrc /\ n \in Z!Names /\ rc.names \subseteq Z!Names
    BY <2>2, ZshrcFields DEF OmzTypes, Z!Names, Z!Managed
  <2>4. PICK S \in SUBSET Z!Names : rc' = [rc EXCEPT !.names = S]
    BY <2>1, <2>3
  <2>5. rc' \in Zshrc /\ rc' # None /\ rc'.array = rc.array /\ rc'.theme = rc.theme /\ rc'.names = S
    BY <2>3, <2>4, ZshrcNames
  <2>6. rc'.names = IF n \in rc.names THEN rc.names \ {n} ELSE rc.names \cup {n}
    <3>1. rc.names \ {n} \in SUBSET Z!Names /\ rc.names \cup {n} \in SUBSET Z!Names
      BY <2>3
    <3>2. [rc EXCEPT !.names = rc.names \ {n}].names = rc.names \ {n}
      BY <2>3, <3>1, ZshrcNames
    <3>3. [rc EXCEPT !.names = rc.names \cup {n}].names = rc.names \cup {n}
      BY <2>3, <3>1, ZshrcNames
    <3> QED
      BY <2>1, <3>2, <3>3
  <2>7. OmzTypes' /\ StepInv'
    BY <2>1, <2>2, <2>3, <2>5 DEF OmzTypes, StepInv
  <2>8. TextInv(rc', ours', drawn')
    BY <2>1, <2>2, <2>5, <2>6 DEF NamesInv, TextInv
  <2>9. rc'.names \cap (Z!Owned(claimed) \cup wiring.added) \subseteq ours' \cup looks'
        /\ ours' \subseteq ours
    BY <2>1, <2>2, <2>6 DEF NamesInv
  <2>10. NamesInv'
    BY <2>2, <2>5, <2>8, <2>9 DEF NamesInv
  <2>11. ReadInv' /\ Z!OnePrompt'
    BY <2>2, <2>9 DEF ReadInv, Z!OnePrompt
  <2> QED
    BY <2>7, <2>10, <2>11
<1>19. CASE Z!UserTheme
  <2>1. PICK t \in {None, "own", "robbyrussell"} :
          /\ rc' = [rc EXCEPT !.theme = t]
          /\ drawn' = (IF t = None THEN None
                       ELSE IF t \in {claim, wiring.theme, wiring.wrote} THEN "lookalike" ELSE "user")
    BY <1>19 DEF Z!UserTheme
  <2>2. /\ rc # None /\ UNCHANGED <<claimed, claim, starship, step, wiring, stranded, ours, looks>>
        /\ touched' = (step # "idle")
    BY <1>19 DEF Z!UserTheme, Z!Edits
  <2>3. rc \in Zshrc /\ t \in Themes
    BY <2>2 DEF OmzTypes, Themes
  <2>4. rc' \in Zshrc /\ rc' # None /\ rc'.array = rc.array /\ rc'.theme = t /\ rc'.names = rc.names
    BY <2>1, <2>3, ZshrcTheme
  <2>5. /\ drawn' \in Drawers /\ drawn' # "installer" /\ (drawn' # None => t # None)
        /\ drawn' = "user" => t \notin {claim, wiring.theme, wiring.wrote}
    BY <2>1 DEF Drawers
  <2>6. OmzTypes' /\ StepInv'
    BY <2>2, <2>4, <2>5 DEF OmzTypes, StepInv
  <2>7. NamesInv'
    BY <2>2, <2>4, <2>5 DEF NamesInv, TextInv
  <2>8. ReadInv' /\ Z!OnePrompt'
    BY <2>2, <2>5 DEF ReadInv, Z!OnePrompt
  <2> QED
    BY <2>6, <2>7, <2>8
<1>20. CASE Z!UserRemoves
  <2>1. /\ rc' = None /\ ours' = {} /\ looks' = {} /\ drawn' = None /\ touched' = (step # "idle")
        /\ UNCHANGED <<claimed, claim, starship, step, wiring, stranded>>
    BY <1>20 DEF Z!UserRemoves, Z!Edits
  <2>2. OmzTypes' /\ StepInv'
    BY <2>1 DEF OmzTypes, StepInv, Drawers
  <2>3. NamesInv'
    BY <2>1 DEF NamesInv
  <2>4. ReadInv' /\ Z!OnePrompt'
    BY <2>1 DEF ReadInv, Z!OnePrompt
  <2> QED
    BY <2>2, <2>3, <2>4
<1>21. CASE UNCHANGED Z!vars
  <2>1. OmzTypes' /\ StepInv'
    BY <1>21 DEF Z!vars, Z!history, OmzTypes, StepInv
  <2>2. NamesInv'
    BY <1>21 DEF Z!vars, Z!history, NamesInv
  <2>3. ReadInv' /\ Z!OnePrompt'
    BY <1>21 DEF Z!vars, Z!history, ReadInv, Z!OnePrompt
  <2> QED
    BY <2>1, <2>2, <2>3
<1> QED
  BY <1>1, <1>2, <1>3, <1>4, <1>5, <1>6, <1>7, <1>8, <1>9, <1>10, <1>11, <1>12, <1>13, <1>14, <1>15, <1>16,
     <1>17, <1>18, <1>19, <1>20, <1>21 DEF Z!Next
-----------------------------------------------------------------------------
\* A step of UserFiles is one of the files that live, and moves no other.
LEMMA OneFile ==
  ASSUME [FilesNext]_<<about, vars, shared, rcVars, omzVars>>
  PROVE  /\ about' = about
         /\ about = "settings" => [Next]_vars
         /\ about = "startup" => [F!Next]_(F!vars)
         /\ about = "omz" => [Z!Next]_(Z!vars)
  BY DEF FilesNext, SetOrRevert, Wire, Decorate, F!vars, Z!vars, Z!history, shared, rcVars, omzVars


-----------------------------------------------------------------------------
\* Where no multi-line array stands in a text that sources no framework, none ever does.
SourcedInv ==
  /\ typed \in Nat
  /\ rc # None /\ rc.array = "multi" => rc.sourced = TRUE
  /\ step \in Theming => wiring.rc.sourced = TRUE

LEMMA TemplateSources ==
  ASSUME NEW c \in Zshrc
  PROVE  Z!Template(c).sourced = TRUE
  BY NoneIsNothing DEF Z!Template, Z!Editable, Zshrc, Z!Arrays, Z!Names, Z!Managed, Themes

LEMMA SourcedStart == ~Shadowing /\ Z!Init => SourcedInv
<1> SUFFICES ASSUME ~Shadowing, Z!Init PROVE SourcedInv
  OBVIOUS
<1>1. PICK sourced \in BOOLEAN, array \in Z!Arrays, names \in SUBSET {"docker", "own"},
          theme \in {None, "own", "robbyrussell"} :
        /\ array = "multi" => sourced \/ Shadowing
        /\ rc \in {None, [sourced |-> sourced, array |-> array, names |-> names, theme |-> theme]}
  BY DEF Z!Init
<1>2. step = "idle" /\ typed = 0
  BY DEF Z!Init
<1> QED
  BY <1>1, <1>2 DEF SourcedInv, Theming

\* The steps that write .zshrc, and what they put there.
LEMMA OmzWrites ==
  ASSUME OmzInv, Z!Next
  PROVE  \/ UNCHANGED <<rc, typed>> /\ (step' \notin Theming \/ Z!ReadTheme \/ (step \in Theming /\ wiring' = wiring))
         \/ Z!EnsureTemplate /\ rc' = Z!Template(Z!Read) /\ typed' = typed
         \/ Z!EditArray /\ rc' = [wiring.rc EXCEPT !.names = wiring.rc.names \cup wiring.added] /\ typed' = typed
         \/ Z!EditTheme /\ rc' = wiring.rc /\ typed' = typed
         \/ Z!Strip /\ rc' = [wiring.rc EXCEPT !.names = wiring.rc.names \ wiring.added] /\ typed' = typed
         \/ Z!UserPlugin \/ Z!UserTheme \/ Z!UserRemoves
<1> USE DEF Theming, Z!history
<1>1. CASE Z!Enable \/ Z!Disable \/ Z!Starship \/ Z!Theme \/ Z!Sync
  BY <1>1 DEF Z!Enable, Z!Disable, Z!Starship, Z!Theme, Z!Sync, Z!Begin
<1>2. CASE Z!Return \/ Z!Kill
  BY <1>2 DEF Z!Return, Z!Kill, Z!Rests
<1>3. CASE Z!EnsureTemplate
  BY <1>3 DEF Z!EnsureTemplate, Z!Goes, Z!WritesRc
<1>4. CASE Z!ReadArray
  BY <1>4 DEF Z!ReadArray, Z!Refuse, Z!Ends, Z!Goes
<1>5. CASE Z!Reserve \/ Z!EditRaises \/ Z!Rollback \/ Z!Block \/ Z!Clear
  BY <1>5 DEF Z!Reserve, Z!EditRaises, Z!Rollback, Z!Block, Z!Clear
<1>6. CASE Z!EditArray
  BY <1>6 DEF Z!EditArray, Z!Goes, Z!WritesRc
<1>7. CASE Z!ReadTheme
  BY <1>7 DEF Z!ReadTheme, Z!Ends, Z!Goes
<1>8. CASE Z!ReserveTheme \/ Z!EditThemeRaises \/ Z!RollbackTheme
  BY <1>8 DEF Z!ReserveTheme, Z!EditThemeRaises, Z!RollbackTheme
<1>9. CASE Z!EditTheme
  BY <1>9 DEF Z!EditTheme, Z!WritesRc
<1>10. CASE Z!Remove
  BY <1>10 DEF Z!Remove, Z!Refuse, Z!Ends, Z!Goes
<1>11. CASE Z!Strip
  BY <1>11 DEF Z!Strip, Z!Goes, Z!WritesRc
<1>12. CASE Z!Raise
  BY <1>12 DEF Z!Raise
<1> QED
  BY <1>1, <1>2, <1>3, <1>4, <1>5, <1>6, <1>7, <1>8, <1>9, <1>10, <1>11, <1>12 DEF Z!Next

LEMMA SourcedStep == OmzInv /\ SourcedInv /\ [Z!Next]_(Z!vars) => SourcedInv'
<1> SUFFICES ASSUME OmzInv, SourcedInv, [Z!Next]_(Z!vars) PROVE SourcedInv'
  OBVIOUS
<1>1. CASE UNCHANGED <<rc, typed>> /\ step' \notin Theming
  BY <1>1 DEF SourcedInv
<1>2. CASE Z!ReadTheme /\ step' \in Theming
  <2>1. /\ rc # None /\ rc.sourced /\ wiring'.rc = Z!SetTheme(rc, Z!DefaultTheme, claim)
        /\ UNCHANGED <<rc, typed>>
    BY <1>2 DEF Z!ReadTheme, Z!Ends, Z!Goes, Z!Reads, OmzInv, OmzTypes, Theming
  <2>2. rc \in Zshrc /\ Z!DefaultTheme \in Themes
    BY <2>1 DEF OmzInv, OmzTypes, Z!DefaultTheme, Themes
  <2>3. wiring'.rc.sourced = rc.sourced /\ rc.sourced = TRUE
    BY <2>1, <2>2, DefaultGivesWay, ZshrcFields
  <2> QED
    BY <2>1, <2>3 DEF SourcedInv
<1>3. CASE UNCHANGED <<rc, typed>> /\ step \in Theming /\ wiring' = wiring
  BY <1>3 DEF SourcedInv
<1>4. CASE Z!EnsureTemplate /\ rc' = Z!Template(Z!Read) /\ typed' = typed
  <2>1. Z!Read \in Zshrc
    BY DEF Z!Read, Z!Bare, Zshrc, Themes, Z!Arrays, OmzInv, OmzTypes
  <2>2. step' \notin Theming
    BY <1>4 DEF Z!EnsureTemplate, Z!WritesRc, Z!Goes, Theming
  <2> QED
    BY <1>4, <2>1, <2>2, TemplateSources DEF SourcedInv
<1>5. CASE Z!EditArray /\ rc' = [wiring.rc EXCEPT !.names = wiring.rc.names \cup wiring.added] /\ typed' = typed
  <2>1. step = "edit" /\ step' \notin Theming
    BY <1>5 DEF Z!EditArray, Z!WritesRc, Z!Goes, Theming
  <2>2. wiring.rc \in Zshrc /\ wiring.rc.array # "multi" /\ wiring.added \subseteq Z!Names
    BY <2>1 DEF OmzInv, OmzTypes, StepInv, Arraying, Z!Editable
  <2>3. wiring.rc.names \cup wiring.added \in SUBSET Z!Names
    BY <2>2, ZshrcFields
  <2>4. rc'.array = wiring.rc.array
    BY <1>5, <2>2, <2>3, ZshrcNames
  <2> QED
    BY <1>5, <2>1, <2>2, <2>4 DEF SourcedInv
<1>6. CASE Z!EditTheme /\ rc' = wiring.rc /\ typed' = typed
  BY <1>6 DEF Z!EditTheme, Z!WritesRc, SourcedInv, Theming
<1>7. CASE Z!Strip /\ rc' = [wiring.rc EXCEPT !.names = wiring.rc.names \ wiring.added] /\ typed' = typed
  <2>1. step = "strip" /\ step' \notin Theming
    BY <1>7 DEF Z!Strip, Z!WritesRc, Z!Goes, Theming
  <2>2. wiring.rc \in Zshrc /\ wiring.rc.array # "multi"
    BY <2>1 DEF OmzInv, StepInv, Z!Editable
  <2>3. wiring.rc.names \ wiring.added \in SUBSET Z!Names
    BY <2>2, ZshrcFields
  <2>4. rc'.array = wiring.rc.array
    BY <1>7, <2>2, <2>3, ZshrcNames
  <2> QED
    BY <1>7, <2>1, <2>2, <2>4 DEF SourcedInv
<1>8. CASE Z!UserPlugin \/ Z!UserTheme \/ Z!UserRemoves
  <2>1. typed' = typed + 1 /\ step' = step /\ wiring' = wiring
    BY <1>8 DEF Z!UserPlugin, Z!UserTheme, Z!UserRemoves, Z!Edits
  <2>2. rc' = None \/ (rc # None /\ rc'.array = rc.array /\ rc'.sourced = rc.sourced)
    <3>1. CASE Z!UserPlugin
      <4>1. rc \in Zshrc
        BY <3>1 DEF Z!UserPlugin, OmzInv, OmzTypes
      <4>2. PICK n \in {"docker", "own"} :
              rc' = [rc EXCEPT !.names = rc.names \ {n}] \/ rc' = [rc EXCEPT !.names = rc.names \cup {n}]
        BY <3>1 DEF Z!UserPlugin
      <4>3. rc.names \ {n} \in SUBSET Z!Names /\ rc.names \cup {n} \in SUBSET Z!Names
        BY <4>1, ZshrcFields DEF Z!Names, Z!Managed
      <4>4. PICK S \in SUBSET Z!Names : rc' = [rc EXCEPT !.names = S]
        BY <4>2, <4>3
      <4>5. rc'.array = rc.array /\ rc'.sourced = rc.sourced
        BY <4>1, <4>4, ZshrcNames
      <4> QED
        BY <3>1, <4>5 DEF Z!UserPlugin
    <3>2. CASE Z!UserTheme
      <4>1. rc \in Zshrc
        BY <3>2 DEF Z!UserTheme, OmzInv, OmzTypes
      <4>2. PICK t \in {None, "own", "robbyrussell"} : rc' = [rc EXCEPT !.theme = t]
        BY <3>2 DEF Z!UserTheme
      <4>3. t \in Themes
        BY <4>2 DEF Themes
      <4>4. rc'.array = rc.array /\ rc'.sourced = rc.sourced
        BY <4>1, <4>2, <4>3, ZshrcTheme
      <4> QED
        BY <3>2, <4>4 DEF Z!UserTheme
    <3>3. CASE Z!UserRemoves
      BY <3>3 DEF Z!UserRemoves
    <3> QED
      BY <1>8, <3>1, <3>2, <3>3
  <2> QED
    BY <2>1, <2>2 DEF SourcedInv
<1>9. CASE UNCHANGED Z!vars
  BY <1>9 DEF Z!vars, SourcedInv
<1> QED
  BY <1>1, <1>2, <1>3, <1>4, <1>5, <1>6, <1>7, <1>8, <1>9, OmzWrites

\* A step of the installer leaves the user's names and theme, but where the user has edited
\* since the text was read.
LEMMA YoursStep == OmzInv /\ SourcedInv /\ [Z!Next]_(Z!vars) => Z!YoursStay
<1> SUFFICES ASSUME OmzInv, SourcedInv, [Z!Next]_(Z!vars), typed' = typed, rc # None, rc' # None, ~touched
             PROVE  /\ rc.names \ (ours \cup looks) \subseteq rc'.names
                    /\ drawn = "user" => rc'.theme = rc.theme
  BY DEF Z!YoursStay
<1>1. CASE rc' = rc
  BY <1>1
<1>2. CASE Z!EnsureTemplate /\ rc' = Z!Template(Z!Read)
  <2>1. rc \in Zshrc /\ Z!Read = rc /\ (rc.array = None => rc.names = {})
        /\ (rc.array = "multi" => rc.sourced = TRUE)
    BY DEF Z!Read, OmzInv, OmzTypes, NamesInv, TextInv, SourcedInv
  <2>2. rc'.theme = rc.theme /\ (rc.names \subseteq rc'.names \/ (rc.array = "multi" /\ ~rc.sourced))
    BY <1>2, <2>1, TemplateAdds
  <2> QED
    BY <2>1, <2>2
<1>3. CASE Z!EditArray /\ rc' = [wiring.rc EXCEPT !.names = wiring.rc.names \cup wiring.added]
  <2>1. step = "edit"
    BY <1>3 DEF Z!EditArray
  <2>2. rc = wiring.rc /\ rc \in Zshrc /\ rc.names \cup wiring.added \in SUBSET Z!Names
    BY <2>1, ZshrcFields DEF OmzInv, OmzTypes, StepInv, ReadInv, Arraying
  <2>3. rc'.names = rc.names \cup wiring.added /\ rc'.theme = rc.theme
    BY <1>3, <2>2, ZshrcNames
  <2> QED
    BY <2>3
<1>4. CASE Z!EditTheme /\ rc' = wiring.rc
  BY <1>4 DEF Z!EditTheme, OmzInv, ReadInv, Theming
<1>5. CASE Z!Strip /\ rc' = [wiring.rc EXCEPT !.names = wiring.rc.names \ wiring.added]
  <2>1. step = "strip"
    BY <1>5 DEF Z!Strip
  <2>2. rc = wiring.rc /\ ours = wiring.seen.ours /\ looks = wiring.seen.looks
        /\ wiring.rc.names \cap wiring.added \subseteq wiring.seen.ours \cup wiring.seen.looks
    BY <2>1 DEF OmzInv, ReadInv
  <2>3. rc \in Zshrc /\ rc.names \ wiring.added \in SUBSET Z!Names
    BY <2>2, ZshrcFields DEF OmzInv, OmzTypes
  <2>4. rc'.names = rc.names \ wiring.added /\ rc'.theme = rc.theme
    BY <1>5, <2>2, <2>3, ZshrcNames
  <2> QED
    BY <2>2, <2>4
<1>6. CASE Z!UserPlugin \/ Z!UserTheme \/ Z!UserRemoves
  BY <1>6 DEF Z!UserPlugin, Z!UserTheme, Z!UserRemoves, Z!Edits, SourcedInv
<1>7. CASE UNCHANGED Z!vars
  BY <1>7 DEF Z!vars
<1> QED
  BY <1>1, <1>2, <1>3, <1>4, <1>5, <1>6, <1>7, OmzWrites

-----------------------------------------------------------------------------
LEMMA OmzLives == FilesSpec => [](about = "omz" => OmzInv)
<1>1. FilesInit => (about = "omz" => OmzInv)
  BY OmzStart DEF FilesInit
<1>2. (about = "omz" => OmzInv) /\ [FilesNext]_<<about, vars, shared, rcVars, omzVars>> => (about = "omz" => OmzInv)'
  BY OneFile, OmzStep
<1> QED
  BY <1>1, <1>2, PTL DEF FilesSpec

(***************************************************************************)
(* Whatever is raised, killed or edited, a managed name the installer put  *)
(* into the array is recorded, and a starship that was turned on leaves    *)
(* the framework no prompt of the installer's (omz.py).                    *)
(***************************************************************************)
THEOREM ClaimsAlwaysTrue == FilesSpec => []ClaimsAreTrue
<1>1. (about = "omz" => OmzInv) => ClaimsAreTrue
  BY DEF OmzInv, NamesInv, ClaimsAreTrue, Z!NamesAreRecorded
<1> QED
  BY <1>1, OmzLives, PTL

(***************************************************************************)
(* No write of the installer's takes a name or a theme of the user's out   *)
(* of .zshrc, unless the user edits the file between its read and its      *)
(* write (omz.py), of a .zshrc in which no multi-line array stands without *)
(* the framework.                                                          *)
(***************************************************************************)
THEOREM YoursAlwaysStay == ASSUME ~Shadowing PROVE FilesSpec => YoursStayAlways
<1>1. FilesInit => (about = "omz" => SourcedInv)
  BY SourcedStart DEF FilesInit
<1>2. /\ (about = "omz" => OmzInv) /\ (about = "omz" => SourcedInv)
      /\ [FilesNext]_<<about, vars, shared, rcVars, omzVars>>
      => (about = "omz" => SourcedInv)'
  BY OneFile, SourcedStep
<1>3. /\ (about = "omz" => OmzInv) /\ (about = "omz" => SourcedInv)
      /\ [FilesNext]_<<about, vars, shared, rcVars, omzVars>>
      => [about = "omz" => Z!YoursStay]_<<about, vars, shared, rcVars, omzVars>>
  BY OneFile, YoursStep
<1> QED
  BY <1>1, <1>2, <1>3, OmzLives, PTL DEF FilesSpec, YoursStayAlways

-----------------------------------------------------------------------------
(***************************************************************************)
(* The startup files.                                                      *)
(***************************************************************************)
Words == F!UserLines \cup {"shellrc"}
Texts == [lines : SUBSET Words, block : {None} \cup SUBSET Words, source : BOOLEAN, path : BOOLEAN, stub : BOOLEAN]

IsStub(c)  == c # None /\ c.stub = TRUE
BlockOf(c) == IF c = None THEN None ELSE c.block
AsSet(b)   == IF b = None THEN {} ELSE b
MyBlock       == BlockOf(disk.myshellrc)   \* the block of ~/.myshellrc

Vetting    == {"vet", "weigh"}
Weighed    == {"pre", "merge", "create"}
BackedUp   == {"fill", "compare", "put_back", "drop", "stub"}
Guarding   == {"guard_create", "guard_fill", "guard_compare", "guard"}
Wiring     == {"route", "read_rc", "rc"}
Configuring == {"snapshot", "read_mine", "path", "inline", "write_inline"}
                 \cup Vetting \cup Weighed \cup BackedUp \cup Wiring

\* What is left to wire of a mode's files, and which have been wired.
Lefts(mode) == IF mode = "single" THEN {<<"zshrc">>, <<>>}
               ELSE {<<"zshrc", "bashrc">>, <<"bashrc">>, <<>>}
Paths(mode) == IF mode = "single" THEN {"zshrc"} ELSE {"zshrc", "bashrc"}
Ahead(left) == CASE left = <<"zshrc", "bashrc">> -> {"zshrc", "bashrc"} [] left = <<"zshrc">> -> {"zshrc"}
                 [] left = <<"bashrc">> -> {"bashrc"} [] OTHER -> {}

\* The user leaves the backups alone.
Stays == DropsOld = FALSE

\* The files, and where the installer's block never is.
RcTypes ==
  /\ disk \in [F!Files -> {None} \cup Texts]
  /\ BlockOf(disk.shellrc) = None
  /\ \A f \in F!Rc : disk[f] # None /\ disk[f].block = None
  /\ DOMAIN old = F!Files
  /\ old.shellrc # None =>
       /\ DOMAIN old.shellrc = {"of", "whole"} /\ old.shellrc.of \in Texts /\ old.shellrc.of.block = None
       /\ Stays => old.shellrc.of.stub = FALSE
  /\ DOMAIN wiring = {"kind", "mode", "snap", "text", "pre", "created", "status", "left", "route", "error", "block",
                   "backup"}

\* Which run is at which step, and what it has at hand there.
HandInv ==
  /\ step \in {"idle", "ended", "ask", "guard_read", "clean"} \cup Guarding \cup Configuring
  /\ step \in Configuring => wiring.kind = "configure" /\ wiring.left \in Lefts(wiring.mode)
  /\ wiring.kind = "configure" <=> step \in Configuring \/ (step = "ended" /\ wiring.kind = "configure")
  /\ step \in {"inline", "write_inline"} => wiring.mode = "split"
  /\ step \in Configuring \ (Wiring \cup {"inline", "write_inline"}) => Ahead(wiring.left) = Paths(wiring.mode)
  /\ step \in {"read_rc", "rc", "write_inline"} \cup {"guard_read"} \cup Guarding => wiring.left # <<>>
  /\ step \in Guarding \cup {"ask", "guard_read"} => wiring.kind = "guard" /\ wiring.left \in Seq(F!Files)
  /\ step = "clean" => wiring.kind = "clean" /\ Head(wiring.left) \in F!Files /\ wiring.snap # None
  /\ step = "snapshot" => wiring.snap = None
  /\ step \in {"rc", "write_inline"} => wiring.text \in {None} \cup Texts /\ BlockOf(wiring.text) = None
  /\ step = "write_inline" => wiring.text # None
  /\ step = "path" => wiring.text \in Texts /\ wiring.text.block = MyBlock
  /\ step \in Vetting \cup Weighed \cup BackedUp =>
       /\ wiring.snap \in Texts /\ wiring.snap.stub = FALSE /\ wiring.snap.block = None
       /\ ~IsStub(disk.shellrc)
  /\ step \in {"merge", "create"} \cup BackedUp => wiring.pre \in {None} \cup Texts
  /\ step \in Guarding =>
       /\ wiring.snap \in Texts
       /\ Head(wiring.left) \in F!Rc \cup {"shellrc"} => wiring.snap.block = None
       /\ Stays /\ Head(wiring.left) = "shellrc" => wiring.snap.stub = FALSE

\* The lines a stub took the place of, and the backup.
MovedInv ==
  Stays =>
    /\ moved \subseteq AsSet(MyBlock) \cup (IF old.shellrc = None THEN {} ELSE old.shellrc.of.lines)
    /\ "writer" \in moved => "writer" \in AsSet(MyBlock)
    /\ old.shellrc = None => moved = {}
    /\ old.shellrc # None => moved \subseteq old.shellrc.of.lines
                               \cup (IF "writer" \in old.shellrc.of.lines THEN {"guarded"} ELSE {})
    /\ old.shellrc # None /\ disk.shellrc = old.shellrc.of /\ "writer" \in old.shellrc.of.lines => moved = {}
    /\ IsStub(disk.shellrc) => old.shellrc # None /\ old.shellrc.whole = TRUE

\* Nothing that was moved is outside of what is being moved.
Inside(lines) == moved \subseteq lines /\ ("writer" \in lines => moved = {})

\* A consolidation under way, and a guard that has made a backup.
StubInv ==
  /\ Stays /\ step \in Vetting => (old.shellrc # None /\ old.shellrc.of = wiring.snap => Inside(wiring.snap.lines))
  /\ step \in {"snapshot"} \cup Vetting \cup Weighed \cup {"guard_read", "guard_create"} => wiring.created = FALSE
  /\ Stays /\ step \in Weighed =>
       /\ Inside(wiring.snap.lines)
       /\ old.shellrc # None => old.shellrc.of = wiring.snap /\ old.shellrc.whole = TRUE
  /\ Stays /\ step \in BackedUp =>
       /\ Inside(wiring.snap.lines) /\ old.shellrc # None /\ old.shellrc.of = wiring.snap
       /\ step # "fill" => old.shellrc.whole = TRUE
       /\ wiring.created = TRUE => moved = {}
  /\ step \in {"create", "fill", "compare", "stub"} => MyBlock = wiring.snap.lines
  /\ step = "stub" /\ "late" \notin touched => disk.shellrc = wiring.snap
  /\ step \in Vetting \cup {"pre", "drop"} => MyBlock = wiring.block
  /\ step \in {"merge", "create", "fill", "compare", "put_back", "stub"} => BlockOf(wiring.pre) = wiring.block
  /\ step = "read_mine" /\ wiring.status = "refused" /\ wiring.snap # None => MyBlock = wiring.block
  /\ Stays /\ step \in Guarding /\ Head(wiring.left) = "shellrc" /\ wiring.created = TRUE =>
       moved = {} /\ ~IsStub(disk.shellrc)
  /\ step = "guard" /\ Head(wiring.left) = "myshellrc" => MyBlock = wiring.snap.block

\* The routes of a run that nobody disturbed.
Undisturbed == touched = {} /\ wiring.error = FALSE /\ wiring.mode # "split"
SourcesIt(f) == "shellrc" \in disk[f].lines
Stubbed == wiring.status \in {"consolidated", "already"}
RouteInv ==
  Undisturbed =>
    /\ step \in {"read_mine", "path", "ended"} \cup Wiring /\ wiring.kind = "configure" =>
         (Stubbed <=> IsStub(disk.shellrc))
    /\ step \in {"ended"} \cup Wiring /\ wiring.kind = "configure" =>
         \A f \in Paths(wiring.mode) \ Ahead(wiring.left) :
           disk[f].source = TRUE <=> ~(Stubbed /\ SourcesIt(f))
    /\ step \in {"read_rc", "rc"} =>
         wiring.route = IF Stubbed /\ SourcesIt(Head(wiring.left)) THEN "stub" ELSE "block"
    /\ step = "rc" => wiring.text = disk[Head(wiring.left)]
    /\ step = "ended" /\ wiring.kind = "configure" => wiring.left = <<>>

\* The backup, as the snapshot found it, unless the user removes one.
BackupInv ==
  "old" \notin touched =>
    /\ step \in Vetting \cup Weighed => old.shellrc = wiring.backup
    /\ step = "fill" => wiring.created = TRUE
    /\ step \in BackedUp => wiring.backup = IF wiring.created = TRUE THEN None ELSE old.shellrc
    /\ step = "read_mine" /\ wiring.status = "refused" /\ wiring.snap # None => old.shellrc = wiring.backup

RcInv == RcTypes /\ HandInv /\ MovedInv /\ StubInv /\ RouteInv

-----------------------------------------------------------------------------
LEMMA RcApart ==
  /\ None \notin {"configure", "guard", "clean", "consolidated", "already"}
  /\ None \notin SUBSET Words /\ None \notin Texts
<1>1. None \notin Texts
  BY NoneIsNothing DEF Texts, Words
<1> QED
  BY <1>1, NoneIsNothing DEF Words

LEMMA BackupIs ==
  ASSUME NEW c \in Texts, NEW b \in BOOLEAN
  PROVE  LET o == [of |-> c, whole |-> b] IN
         o # None /\ DOMAIN o = {"of", "whole"} /\ o.of = c /\ o.whole = b
<1> DEFINE o == [of |-> c, whole |-> b]
<1>1. o \in [of : Texts, whole : BOOLEAN]
  OBVIOUS
<1>2. o # None
  BY <1>1, NoneIsNothing DEF Texts, Words
<1> QED
  BY <1>2

\* The fields of a content, and those that are written.
LEMMA TextFields ==
  ASSUME NEW c \in Texts
  PROVE  c # None /\ c.lines \subseteq Words /\ c.block \in {None} \cup SUBSET Words
         /\ c.stub \in BOOLEAN /\ c.source \in BOOLEAN
  BY RcApart DEF Texts

LEMMA SetLines ==
  ASSUME NEW c \in Texts, NEW L \in SUBSET Words
  PROVE  LET d == [c EXCEPT !.lines = L] IN
         d \in Texts /\ d # None /\ d.lines = L /\ d.block = c.block /\ d.source = c.source /\ d.stub = c.stub
  BY RcApart DEF Texts

LEMMA SetBlock ==
  ASSUME NEW c \in Texts, NEW B \in {None} \cup SUBSET Words
  PROVE  LET d == [c EXCEPT !.block = B] IN
         d \in Texts /\ d # None /\ d.lines = c.lines /\ d.block = B /\ d.source = c.source /\ d.stub = c.stub
  BY RcApart DEF Texts

LEMMA SetSource ==
  ASSUME NEW c \in Texts, NEW b \in BOOLEAN
  PROVE  LET d == [c EXCEPT !.source = b] IN
         d \in Texts /\ d # None /\ d.lines = c.lines /\ d.block = c.block /\ d.source = b /\ d.stub = c.stub
  BY RcApart DEF Texts

LEMMA SetRoute ==
  ASSUME NEW c \in Texts, NEW route
  PROVE  LET d == [c EXCEPT !.source = (route = "block")] IN
         /\ d \in Texts /\ d # None /\ d.lines = c.lines /\ d.block = c.block /\ d.stub = c.stub
         /\ d.source = TRUE <=> route = "block"
<1>1. CASE route = "block"
  <2>1. [c EXCEPT !.source = (route = "block")] = [c EXCEPT !.source = TRUE]
    BY <1>1
  <2> QED
    BY <1>1, <2>1, SetSource
<1>2. CASE route # "block"
  <2>1. [c EXCEPT !.source = (route = "block")] = [c EXCEPT !.source = FALSE]
    BY <1>2
  <2> QED
    BY <1>2, <2>1, SetSource
<1> QED
  BY <1>1, <1>2

LEMMA SetPath ==
  ASSUME NEW c \in Texts
  PROVE  LET d == [c EXCEPT !.path = TRUE] IN
         d \in Texts /\ d # None /\ d.lines = c.lines /\ d.block = c.block /\ d.source = c.source /\ d.stub = c.stub
  BY RcApart DEF Texts

LEMMA PlainTexts ==
  /\ \A L \in SUBSET Words : /\ F!Text(L) \in Texts /\ F!Text(L).lines = L /\ F!Text(L).block = None
                             /\ F!Text(L).source = FALSE /\ F!Text(L).stub = FALSE
  /\ F!Empty \in Texts /\ F!Empty.block = None /\ F!Empty.lines = {} /\ F!Empty.stub = FALSE
  /\ F!Stub \in Texts /\ F!Stub.block = None /\ F!Stub.lines = {} /\ F!Stub.stub = TRUE
<1>1. \A L \in SUBSET Words : F!Text(L) \in Texts /\ F!Text(L).lines = L /\ F!Text(L).block = None
                              /\ F!Text(L).source = FALSE /\ F!Text(L).stub = FALSE
  BY DEF F!Text, Texts
<1>2. F!Empty \in Texts /\ F!Empty.block = None /\ F!Empty.lines = {} /\ F!Empty.stub = FALSE
  BY <1>1 DEF F!Empty
<1>3. F!Stub \in Texts /\ F!Stub.block = None /\ F!Stub.lines = {} /\ F!Stub.stub = TRUE
  BY <1>2 DEF F!Stub, Texts
<1> QED
  BY <1>1, <1>2, <1>3

LEMMA RcStart == F!Init => RcInv
<1> SUFFICES ASSUME F!Init PROVE RcInv
  OBVIOUS
<1> USE RcApart
<1>1. PICK l \in {None} \cup {F!Text(L) : L \in SUBSET Lines}, m \in {None, F!Text({}), F!Text({"shellrc"})},
          z \in SUBSET {"shellrc", "writer"}, b \in {{}, {"shellrc"}} :
        disk.shellrc = l /\ disk.myshellrc = m /\ disk.zshrc = F!Text(z) /\ disk.bashrc = F!Text(b)
  BY DEF F!Init, F!Files, F!Rc
<1>2. /\ moved = {} /\ old = [f \in F!Files |-> None] /\ step = "idle" /\ wiring = F!Idle /\ touched = {}
  BY DEF F!Init
<1>3. SUBSET Lines \subseteq SUBSET Words /\ {} \in SUBSET Words /\ {"shellrc"} \in SUBSET Words
      /\ z \in SUBSET Words /\ b \in SUBSET Words
  BY LinesAreTheUsers DEF Words, F!UserLines
<1>4. l = None \/ (l \in Texts /\ l.block = None /\ l.stub = FALSE)
  BY <1>3, PlainTexts
<1>5. m \in {None} \cup Texts
  BY <1>3, PlainTexts
<1>6. F!Text(z) \in Texts /\ F!Text(z).block = None /\ F!Text(b) \in Texts /\ F!Text(b).block = None
  BY <1>3, PlainTexts
<1>7. disk \in [F!Files -> {None} \cup Texts]
  <2>1. disk \in [F!Files -> {disk.shellrc, disk.myshellrc, disk.zshrc, disk.bashrc}]
    BY DEF F!Init, F!Files, F!Rc
  <2> QED
    BY <1>1, <1>4, <1>5, <1>6, <2>1
<1>8. old.shellrc = None /\ DOMAIN old = F!Files
  BY <1>2 DEF F!Files
<1>9. DOMAIN wiring = {"kind", "mode", "snap", "text", "pre", "created", "status", "left", "route", "error", "block",
                   "backup"}
      /\ wiring.kind = None
  BY <1>2 DEF F!Idle
<1>10. RcTypes
  BY <1>1, <1>4, <1>6, <1>7, <1>8, <1>9 DEF RcTypes, BlockOf, F!Rc
<1>11. HandInv
  BY <1>2, <1>9 DEF HandInv, Guarding, Configuring, Vetting, Weighed, BackedUp, Wiring
<1>12. MovedInv
  BY <1>1, <1>2, <1>4, <1>8 DEF MovedInv, IsStub
<1>13. StubInv
  BY <1>2 DEF StubInv, Guarding, Vetting, Weighed, BackedUp
<1>14. RouteInv
  BY <1>2 DEF RouteInv, Wiring
<1> QED
  BY <1>10, <1>11, <1>12, <1>13, <1>14 DEF RcInv

\* What there is to wire, and what of it is left.
LEMMA RcLefts ==
  /\ Ahead(<<>>) = {} /\ \A mode : Paths(mode) \subseteq F!Rc
  /\ \A mode : F!RcPaths(mode) \in Lefts(mode) /\ Ahead(F!RcPaths(mode)) = Paths(mode)
  /\ \A mode : \A left \in Lefts(mode) : left # <<>> =>
       /\ Head(left) \in F!Rc /\ Tail(left) \in Lefts(mode)
       /\ Paths(mode) \ Ahead(Tail(left)) = (Paths(mode) \ Ahead(left)) \cup {Head(left)}
<1>1. Ahead(<<>>) = {} /\ Ahead(<<"zshrc">>) = {"zshrc"} /\ Ahead(<<"bashrc">>) = {"bashrc"}
      /\ Ahead(<<"zshrc", "bashrc">>) = {"zshrc", "bashrc"}
  <2>1. Len(<<"zshrc", "bashrc">>) = 2 /\ Len(<<"zshrc">>) = 1 /\ Len(<<"bashrc">>) = 1 /\ Len(<<>>) = 0
        /\ <<"zshrc">>[1] = "zshrc" /\ <<"bashrc">>[1] = "bashrc"
    OBVIOUS
  <2>2. <<"zshrc", "bashrc">> # <<"zshrc">> /\ <<"zshrc", "bashrc">> # <<"bashrc">> /\ <<"zshrc", "bashrc">> # <<>>
        /\ <<"zshrc">> # <<"bashrc">> /\ <<"zshrc">> # <<>> /\ <<"bashrc">> # <<>>
    BY <2>1
  <2> QED
    BY <2>2, Zenon DEF Ahead
<1>2. \A mode : Paths(mode) \subseteq F!Rc
  BY DEF Paths, F!Rc
<1>3. \A mode : F!RcPaths(mode) \in Lefts(mode) /\ Ahead(F!RcPaths(mode)) = Paths(mode)
  BY <1>1 DEF F!RcPaths, F!RcList, Lefts, Paths
<1>4. ASSUME NEW mode, NEW left \in Lefts(mode), left # <<>>
      PROVE  /\ Head(left) \in F!Rc /\ Tail(left) \in Lefts(mode)
             /\ Paths(mode) \ Ahead(Tail(left)) = (Paths(mode) \ Ahead(left)) \cup {Head(left)}
  <2>1. /\ Head(<<"zshrc", "bashrc">>) = "zshrc" /\ Tail(<<"zshrc", "bashrc">>) = <<"bashrc">>
        /\ Head(<<"zshrc">>) = "zshrc" /\ Tail(<<"zshrc">>) = <<>>
        /\ Head(<<"bashrc">>) = "bashrc" /\ Tail(<<"bashrc">>) = <<>>
    OBVIOUS
  <2>2. CASE mode = "single"
    <3>1. left = <<"zshrc">>
      BY <1>4, <2>2 DEF Lefts
    <3> QED
      BY <1>1, <2>1, <2>2, <3>1 DEF Lefts, Paths, F!Rc
  <2>3. CASE mode # "single"
    <3>1. left = <<"zshrc", "bashrc">> \/ left = <<"bashrc">>
      BY <1>4, <2>3 DEF Lefts
    <3> QED
      BY <1>1, <2>1, <2>3, <3>1 DEF Lefts, Paths, F!Rc
  <2> QED
    BY <2>2, <2>3
<1> QED
  BY <1>1, <1>2, <1>3, <1>4

-----------------------------------------------------------------------------
\* The locals of a run.
Locals == {"kind", "mode", "snap", "text", "pre", "created", "status", "left", "route", "error", "block",
                   "backup"}

\* A step that leaves the files alone.
LEMMA RcQuiet ==
  ASSUME RcTypes, MovedInv, UNCHANGED <<disk, old, moved>>, DOMAIN wiring' = DOMAIN wiring
  PROVE  RcTypes' /\ MovedInv'
<1>1. RcTypes'
  BY DEF RcTypes
<1>2. MovedInv'
  BY DEF MovedInv, MyBlock
<1> QED
  BY <1>1, <1>2

\* The steps that no part of StubInv, or of RouteInv, is about.
LEMMA StubIdle ==
  ASSUME step' \in {"idle", "ended", "ask", "clean", "path", "inline", "write_inline"} \cup Wiring
                   \/ (step' = "read_mine" /\ wiring'.status # "refused")
                   \/ (step' \in {"snapshot", "guard_read"} /\ wiring'.created = FALSE)
  PROVE  StubInv'
  BY DEF StubInv, Vetting, Weighed, BackedUp, Guarding, Wiring

LEMMA RouteIdle ==
  ASSUME step' \notin {"read_mine", "path", "ended"} \cup Wiring \/ wiring'.kind # "configure" \/ wiring'.mode = "split"
         \/ touched' # {} \/ wiring'.error = TRUE,
         step' \in {"read_rc", "rc"} => wiring'.kind = "configure"
  PROVE  RouteInv'
  BY DEF RouteInv, Undisturbed, Wiring

\* What a user's edit outside of a run's steps may do.
LEMMA RcEdited ==
  ASSUME RcInv, UNCHANGED <<step, wiring, old>>, step = "idle" \/ touched' # {},
         MyBlock' = MyBlock, IsStub(disk'.shellrc) => IsStub(disk.shellrc), moved' \in {moved, {}},
         step = "stub" /\ "late" \notin touched' => "late" \notin touched /\ disk'.shellrc = disk.shellrc
  PROVE  HandInv' /\ StubInv' /\ RouteInv'
<1> USE DEF RcInv, Vetting, Weighed, BackedUp, Guarding, Wiring, Configuring
<1>1. HandInv'
  BY DEF HandInv
<1>2. StubInv'
  BY DEF StubInv, Inside
<1>3. RouteInv'
  BY RouteIdle DEF HandInv
<1> QED
  BY <1>1, <1>2, <1>3

\* An operation that begins.
LEMMA RcConfigure == ASSUME RcInv, NEW mode, F!Configure(mode) PROVE RcInv'
<1> USE RcApart DEF RcInv, Vetting, Weighed, BackedUp, Guarding, Wiring, Configuring
<1>1. UNCHANGED <<disk, old, moved, touched>> /\ step' = IF mode = "split" THEN "inline" ELSE "snapshot"
  BY DEF F!Configure, F!Begin
<1>2. /\ DOMAIN wiring' = Locals /\ wiring'.kind = "configure" /\ wiring'.mode = mode /\ wiring'.left = F!RcPaths(mode)
      /\ wiring'.snap = None /\ wiring'.created = FALSE
  BY DEF F!Configure, F!Begin, F!Idle, Locals
<1>3. RcTypes' /\ MovedInv'
  BY <1>1, <1>2, RcQuiet DEF RcTypes, Locals
<1>4. HandInv'
  BY <1>1, <1>2, RcLefts DEF HandInv
<1>5. StubInv' /\ RouteInv'
  BY <1>1, <1>2, StubIdle, RouteIdle
<1> QED
  BY <1>3, <1>4, <1>5

LEMMA RcScan == ASSUME RcInv, F!Scan PROVE RcInv'
<1> USE RcApart DEF RcInv, Vetting, Weighed, BackedUp, Guarding, Wiring, Configuring
<1> DEFINE l == F!Listed("myshellrc") \o F!Listed("shellrc") \o F!Listed("zshrc") \o F!Listed("bashrc")
<1>1. UNCHANGED <<disk, old, moved, touched>> /\ step' = "ask"
  BY DEF F!Scan, F!Begin
<1>2. DOMAIN wiring' = Locals /\ wiring'.kind = "guard" /\ wiring'.left = l
  BY DEF F!Scan, F!Begin, F!Idle, Locals
<1>3. RcTypes' /\ MovedInv'
  BY <1>1, <1>2, RcQuiet DEF RcTypes, Locals
<1>4. l \in Seq(F!Files)
  <2>1. \A f \in F!Files : F!Listed(f) \in Seq(F!Files)
    BY DEF F!Listed
  <2> QED
    BY <2>1 DEF F!Files, F!Rc
<1> HIDE DEF l
<1>5. HandInv'
  BY <1>1, <1>2, <1>4 DEF HandInv
<1>6. StubInv' /\ RouteInv'
  BY <1>1, <1>2, StubIdle, RouteIdle
<1> QED
  BY <1>3, <1>5, <1>6

LEMMA RcPreview == ASSUME RcInv, F!Preview PROVE RcInv'
<1> USE RcApart DEF RcInv, Vetting, Weighed, BackedUp, Guarding, Wiring, Configuring
<1>1. PICK f \in F!Writers : F!Begin("clean", None, "clean", [F!Idle EXCEPT !.left = <<f>>, !.snap = disk[f]])
  BY DEF F!Preview
<1>2. UNCHANGED <<disk, old, moved, touched>> /\ step' = "clean" /\ f \in F!Files /\ disk[f] # None
  BY <1>1 DEF F!Begin, F!Writers, F!Adds
<1>3. DOMAIN wiring' = Locals /\ wiring'.kind = "clean" /\ wiring'.left = <<f>> /\ wiring'.snap = disk[f]
  BY <1>1 DEF F!Begin, F!Idle, Locals
<1>4. RcTypes' /\ MovedInv'
  BY <1>2, <1>3, RcQuiet DEF RcTypes, Locals
<1>5. HandInv'
  BY <1>2, <1>3 DEF HandInv
<1>6. StubInv' /\ RouteInv'
  BY <1>2, <1>3, StubIdle, RouteIdle
<1> QED
  BY <1>4, <1>5, <1>6

\* What a run has read of ~/.shellrc, and the answers of a consolidation.
LEMMA RcSnapshot == ASSUME RcInv, F!Snapshot PROVE RcInv'
<1> USE RcApart DEF RcInv, Vetting, Weighed, BackedUp, Guarding, Wiring, Configuring
<1>1. UNCHANGED <<disk, old, moved, touched>> /\ step = "snapshot" /\ DOMAIN wiring = Locals
  BY DEF F!Snapshot, F!Answers, F!Goes, RcTypes, Locals
<1>2. /\ wiring.kind = "configure" /\ wiring.left \in Lefts(wiring.mode) /\ Ahead(wiring.left) = Paths(wiring.mode)
      /\ wiring.snap = None /\ wiring.created = FALSE
  BY <1>1 DEF HandInv, StubInv
<1>3. /\ DOMAIN wiring' = Locals /\ wiring'.kind = "configure" /\ wiring'.mode = wiring.mode
      /\ wiring'.left = wiring.left /\ wiring'.created = FALSE
  BY <1>1, <1>2 DEF F!Snapshot, F!Answers, F!Goes, Locals
<1>4. RcTypes' /\ MovedInv'
  BY <1>1, <1>3, RcQuiet
<1>5. CASE disk.shellrc = None \/ disk.shellrc.stub
  <2>1. /\ step' = "read_mine" /\ wiring'.snap = None
        /\ wiring'.status = IF IsStub(disk.shellrc) THEN "already" ELSE "absent"
    BY <1>1, <1>2, <1>5, TextFields DEF F!Snapshot, F!Answers, F!Goes, Locals, IsStub, RcTypes, F!Files
  <2>2. HandInv'
    BY <1>2, <1>3, <2>1 DEF HandInv
  <2>3. StubInv'
    BY <2>1, StubIdle
  <2>4. RouteInv'
    BY <1>1, <2>1 DEF RouteInv, Stubbed
  <2> QED
    BY <1>4, <2>2, <2>3, <2>4
<1>6. CASE ~(disk.shellrc = None \/ disk.shellrc.stub)
  <2>1. step' = "vet" /\ wiring'.snap = disk.shellrc /\ wiring'.block = F!Read("myshellrc").block
    BY <1>1, <1>6 DEF F!Snapshot, F!Goes, Locals
  <2>2. disk.shellrc \in Texts /\ disk.shellrc.stub = FALSE /\ disk.shellrc.block = None /\ disk.shellrc # None
    BY <1>6, TextFields DEF RcTypes, F!Files, BlockOf
  <2>3. F!Read("myshellrc").block = MyBlock
    BY PlainTexts DEF F!Read, MyBlock, BlockOf
  <2>4. HandInv'
    BY <1>1, <1>2, <1>3, <2>1, <2>2 DEF HandInv, IsStub
  <2>5. StubInv'
    <3>1. Stays /\ old.shellrc # None /\ old.shellrc.of = disk.shellrc => Inside(disk.shellrc.lines)
      BY DEF MovedInv, Inside
    <3> QED
      BY <1>1, <1>3, <2>1, <2>3, <3>1 DEF StubInv, Inside, MyBlock
  <2>6. RouteInv'
    BY <2>1, RouteIdle
  <2> QED
    BY <1>4, <2>4, <2>5, <2>6
<1> QED
  BY <1>5, <1>6

LEMMA RcVet == ASSUME RcInv, F!Vet PROVE RcInv'
<1> USE RcApart DEF RcInv, Vetting, Weighed, BackedUp, Guarding, Wiring, Configuring
<1>1. UNCHANGED <<disk, old, moved, touched>> /\ step = "vet" /\ DOMAIN wiring = Locals
  BY DEF F!Vet, F!Answers, F!Goes, RcTypes, Locals
<1>2. /\ DOMAIN wiring' = Locals /\ wiring'.kind = wiring.kind /\ wiring'.mode = wiring.mode
      /\ wiring'.left = wiring.left /\ wiring'.created = wiring.created /\ wiring'.snap = wiring.snap
      /\ wiring'.block = wiring.block /\ (step' = "read_mine" => wiring'.status = "refused")
      /\ step' \in {"read_mine", "weigh"}
  BY <1>1 DEF F!Vet, F!Answers, F!Goes, Locals
<1>3. RcTypes' /\ MovedInv'
  BY <1>1, <1>2, RcQuiet
<1>4. HandInv'
  BY <1>1, <1>2 DEF HandInv
<1>5. StubInv'
  BY <1>1, <1>2 DEF StubInv, Inside, MyBlock
<1>6. RouteInv'
  BY <1>1, <1>2 DEF RouteInv, HandInv, Stubbed
<1> QED
  BY <1>3, <1>4, <1>5, <1>6

LEMMA RcWeigh == ASSUME RcInv, F!Weigh PROVE RcInv'
<1> USE RcApart DEF RcInv, Vetting, Weighed, BackedUp, Guarding, Wiring, Configuring
<1>1. UNCHANGED <<disk, old, moved, touched>> /\ step = "weigh" /\ DOMAIN wiring = Locals
  BY DEF F!Weigh, F!Answers, F!Goes, RcTypes, Locals
<1>2. /\ DOMAIN wiring' = Locals /\ wiring'.kind = wiring.kind /\ wiring'.mode = wiring.mode
      /\ wiring'.left = wiring.left /\ wiring'.created = wiring.created /\ wiring'.snap = wiring.snap
      /\ wiring'.block = wiring.block /\ (step' = "read_mine" => wiring'.status = "refused")
      /\ step' = IF F!BackupConflict("shellrc", wiring.snap) THEN "read_mine" ELSE "pre"
  BY <1>1 DEF F!Weigh, F!Answers, F!Goes, Locals
<1>3. RcTypes' /\ MovedInv'
  BY <1>1, <1>2, RcQuiet
<1>4. HandInv'
  BY <1>1, <1>2 DEF HandInv
<1>5. Stays /\ step' = "pre" => Inside(wiring.snap.lines)
                       /\ (old.shellrc # None => old.shellrc.of = wiring.snap /\ old.shellrc.whole = TRUE)
  BY <1>1, <1>2 DEF F!BackupConflict, StubInv, MovedInv, Inside
<1>6. StubInv'
  BY <1>1, <1>2, <1>5 DEF StubInv, Inside, MyBlock
<1>7. RouteInv'
  BY <1>1, <1>2 DEF RouteInv, HandInv, Stubbed
<1> QED
  BY <1>3, <1>4, <1>6, <1>7

LEMMA RcReadBefore == ASSUME RcInv, F!ReadBefore PROVE RcInv'
<1> USE RcApart DEF RcInv, Vetting, Weighed, BackedUp, Guarding, Wiring, Configuring
<1>1. UNCHANGED <<disk, old, moved, touched>> /\ step = "pre" /\ step' = "merge" /\ DOMAIN wiring = Locals
  BY DEF F!ReadBefore, F!Goes, RcTypes, Locals
<1>2. /\ DOMAIN wiring' = Locals /\ wiring'.kind = wiring.kind /\ wiring'.mode = wiring.mode
      /\ wiring'.left = wiring.left /\ wiring'.created = wiring.created /\ wiring'.snap = wiring.snap
      /\ wiring'.block = wiring.block /\ wiring'.pre = disk.myshellrc
  BY <1>1 DEF F!ReadBefore, F!Goes, Locals
<1>3. disk.myshellrc \in {None} \cup Texts
  BY DEF RcTypes, F!Files
<1>4. RcTypes' /\ MovedInv'
  BY <1>1, <1>2, RcQuiet
<1>5. HandInv'
  BY <1>1, <1>2, <1>3 DEF HandInv
<1>6. StubInv'
  BY <1>1, <1>2 DEF StubInv, Inside, MyBlock
<1>7. RouteInv'
  BY <1>1, RouteIdle
<1> QED
  BY <1>4, <1>5, <1>6, <1>7

\* A write of one file: the content of the others, and the types.
LEMMA RcWritten ==
  ASSUME RcTypes, NEW f \in F!Files, NEW c \in {None} \cup Texts, disk' = [disk EXCEPT ![f] = c],
         UNCHANGED old, DOMAIN wiring' = DOMAIN wiring, f \in F!Rc => c # None /\ c.block = None,
         f = "shellrc" => BlockOf(c) = None
  PROVE  /\ RcTypes' /\ disk'[f] = c /\ (\A g \in F!Files \ {f} : disk'[g] = disk[g])
         /\ f = "myshellrc" => disk'.shellrc = disk.shellrc
         /\ f # "myshellrc" => disk'.myshellrc = disk.myshellrc
         /\ f \in F!Rc => disk'.shellrc = disk.shellrc
<1>1. disk'[f] = c /\ (\A g \in F!Files \ {f} : disk'[g] = disk[g])
  BY DEF RcTypes
<1>2. disk' \in [F!Files -> {None} \cup Texts]
  BY DEF RcTypes
<1>3. (f = "myshellrc" => disk'.shellrc = disk.shellrc) /\ (f # "myshellrc" => disk'.myshellrc = disk.myshellrc)
      /\ (f \in F!Rc => disk'.shellrc = disk.shellrc)
  BY <1>1 DEF F!Files, F!Rc
<1>4. RcTypes'
  <2>1. BlockOf(disk'.shellrc) = None
    BY <1>1 DEF RcTypes, F!Files
  <2>2. \A g \in F!Rc : disk'[g] # None /\ disk'[g].block = None
    BY <1>1 DEF RcTypes, F!Files
  <2> QED
    BY <1>2, <2>1, <2>2 DEF RcTypes
<1> QED
  BY <1>1, <1>3, <1>4

LEMMA RcMerge == ASSUME RcInv, F!Merge PROVE RcInv'
<1> USE RcApart DEF RcInv, Vetting, Weighed, BackedUp, Guarding, Wiring, Configuring
<1> DEFINE p == IF wiring.pre = None THEN F!Empty ELSE wiring.pre
           c == F!Merged(p, wiring.snap)
<1>1. /\ UNCHANGED <<old, moved, touched, wiring>> /\ step = "merge" /\ step' = "create"
      /\ disk' = [disk EXCEPT !.myshellrc = c]
  BY DEF F!Merge, F!Writes
<1>2. wiring.snap \in Texts /\ p \in Texts
  BY <1>1, PlainTexts DEF HandInv
<1>3. c \in Texts /\ c # None /\ c.block = wiring.snap.lines
  BY <1>2, TextFields, SetBlock DEF F!Merged
<1> HIDE DEF c, p
<1>4. RcTypes' /\ disk'.myshellrc = c /\ disk'.shellrc = disk.shellrc
  BY <1>1, <1>3, RcWritten DEF F!Files, F!Rc
<1>5. MyBlock' = wiring.snap.lines
  BY <1>3, <1>4 DEF MyBlock, BlockOf
<1>6. Stays => Inside(wiring.snap.lines)
  BY <1>1 DEF StubInv
<1>7. MovedInv'
  BY <1>1, <1>2, <1>4, <1>5, <1>6, TextFields DEF MovedInv, AsSet, Inside
<1>8. HandInv'
  BY <1>1, <1>4 DEF HandInv
<1>9. StubInv'
  BY <1>1, <1>4, <1>5 DEF StubInv, Inside
<1>10. RouteInv'
  BY <1>1, RouteIdle
<1> QED
  BY <1>4, <1>7, <1>8, <1>9, <1>10

\* A backup: the create, for a consolidation and for the guard alike.
LEMMA RcCreate == ASSUME RcInv, F!Create PROVE RcInv'
<1> USE RcApart DEF RcInv, Vetting, Weighed, BackedUp, Guarding, Wiring, Configuring
<1> DEFINE f == IF step = "create" THEN "shellrc" ELSE Head(wiring.left)
<1>1. step \in {"create", "guard_create"} /\ UNCHANGED <<disk, moved, touched>> /\ DOMAIN wiring = Locals
  BY DEF F!Create, F!Goes, RcTypes, Locals
<1>2. CASE old[f] # None
  <2>1. UNCHANGED <<old, wiring>> /\ step' = IF step = "create" THEN "compare" ELSE "guard_compare"
    BY <1>1, <1>2 DEF F!Create, F!Goes
  <2>2. RcTypes' /\ MovedInv'
    BY <1>1, <2>1, RcQuiet
  <2>3. HandInv'
    BY <1>1, <2>1 DEF HandInv
  <2>4. StubInv'
    BY <1>1, <1>2, <2>1 DEF StubInv, Inside, MyBlock
  <2>5. RouteInv'
    BY <1>1, <2>1, RouteIdle
  <2> QED
    BY <2>2, <2>3, <2>4, <2>5
<1>3. CASE old[f] = None
  <2>1. /\ old' = [old EXCEPT ![f] = [of |-> wiring.snap, whole |-> FALSE]]
        /\ step' = IF step = "create" THEN "fill" ELSE "guard_fill"
        /\ wiring' = [wiring EXCEPT !.created = TRUE]
    BY <1>1, <1>3 DEF F!Create
  <2>2. /\ DOMAIN wiring' = Locals /\ wiring'.kind = wiring.kind /\ wiring'.mode = wiring.mode
        /\ wiring'.left = wiring.left /\ wiring'.created = TRUE /\ wiring'.snap = wiring.snap
        /\ wiring'.block = wiring.block /\ wiring'.pre = wiring.pre
    BY <1>1, <2>1 DEF Locals
  <2>3. wiring.snap \in Texts /\ (f = "shellrc" => wiring.snap.block = None)
        /\ (Stays /\ f = "shellrc" => wiring.snap.stub = FALSE)
    BY <1>1 DEF HandInv
  <2>4. DOMAIN old = F!Files /\ DOMAIN old' = F!Files
    BY <2>1 DEF RcTypes
  <2>5. /\ f # "shellrc" => old'.shellrc = old.shellrc
        /\ f = "shellrc" => old'.shellrc = [of |-> wiring.snap, whole |-> FALSE]
    BY <2>1, <2>4 DEF F!Files
  <2>6. Stays /\ f = "shellrc" => old.shellrc = None /\ moved = {} /\ ~IsStub(disk.shellrc)
    BY <1>3 DEF MovedInv
  <2> HIDE DEF f
  <2>13. f = "shellrc" => old'.shellrc # None /\ old'.shellrc.of = wiring.snap /\ DOMAIN old'.shellrc = {"of", "whole"}
    BY <2>3, <2>5, BackupIs
  <2>7. RcTypes'
    BY <1>1, <2>2, <2>3, <2>4, <2>5, <2>13 DEF RcTypes, Locals
  <2>8. MovedInv'
    BY <1>1, <2>5, <2>6, <2>13 DEF MovedInv, MyBlock
  <2>9. HandInv'
    BY <1>1, <2>1, <2>2 DEF HandInv
  <2>10. (step = "create" => f = "shellrc") /\ (step = "guard_create" => f = Head(wiring.left))
    BY <1>1 DEF f
  <2>11. StubInv'
    BY <1>1, <2>1, <2>2, <2>5, <2>6, <2>13, <2>10 DEF StubInv, Inside, MyBlock
  <2>12. RouteInv'
    BY <1>1, <2>1, RouteIdle
  <2> QED
    BY <2>7, <2>8, <2>9, <2>11, <2>12
<1> QED
  BY <1>2, <1>3

LEMMA RcFill == ASSUME RcInv, F!Fill PROVE RcInv'
<1> USE RcApart DEF RcInv, Vetting, Weighed, BackedUp, Guarding, Wiring, Configuring
<1> DEFINE f == IF step = "fill" THEN "shellrc" ELSE Head(wiring.left)
<1>1. /\ step \in {"fill", "guard_fill"} /\ UNCHANGED <<disk, wiring, moved, touched>>
      /\ step' = IF step = "fill" THEN "compare" ELSE "guard_compare"
      /\ old' = [old EXCEPT ![f] = IF old[f] = None THEN None ELSE [old[f] EXCEPT !.whole = TRUE]]
  BY DEF F!Fill
<1>2. DOMAIN old = F!Files /\ DOMAIN old' = F!Files
  BY <1>1 DEF RcTypes
<1>3. /\ f # "shellrc" => old'.shellrc = old.shellrc
      /\ f = "shellrc" => old'.shellrc = IF old.shellrc = None THEN None ELSE [old.shellrc EXCEPT !.whole = TRUE]
  BY <1>1, <1>2 DEF F!Files
<1>4. step = "fill" => f = "shellrc"
  OBVIOUS
<1> HIDE DEF f
<1>5. (old'.shellrc = None <=> old.shellrc = None)
      /\ (old.shellrc # None =>
            /\ DOMAIN old'.shellrc = {"of", "whole"} /\ old'.shellrc.of = old.shellrc.of
            /\ (old.shellrc.whole = TRUE => old'.shellrc.whole = TRUE)
            /\ (f = "shellrc" => old'.shellrc.whole = TRUE))
  <2>1. CASE f # "shellrc"
    BY <1>3, <2>1 DEF RcTypes
  <2>2. CASE f = "shellrc" /\ old.shellrc = None
    BY <1>3, <2>2
  <2>3. CASE f = "shellrc" /\ old.shellrc # None
    <3>1. old.shellrc.of # None /\ DOMAIN old.shellrc = {"of", "whole"}
      BY <2>3 DEF RcTypes
    <3>2. old'.shellrc = [old.shellrc EXCEPT !.whole = TRUE]
      BY <1>3, <2>3
    <3>3. DOMAIN old'.shellrc = {"of", "whole"} /\ old'.shellrc.of = old.shellrc.of /\ old'.shellrc.whole = TRUE
      BY <3>1, <3>2
    <3>4. old.shellrc.of \in Texts
      BY <2>3 DEF RcTypes
    <3>5. old'.shellrc = [of |-> old.shellrc.of, whole |-> TRUE]
      BY <3>1, <3>2
    <3>6. old'.shellrc # None
      BY <3>4, <3>5, BackupIs
    <3> QED
      BY <2>3, <3>3, <3>6
  <2> QED
    BY <2>1, <2>2, <2>3
<1>6. RcTypes'
  BY <1>1, <1>2, <1>5 DEF RcTypes
<1>7. MovedInv'
  BY <1>1, <1>5 DEF MovedInv, MyBlock
<1>8. HandInv'
  BY <1>1 DEF HandInv
<1>9. StubInv'
  BY <1>1, <1>4, <1>5 DEF StubInv, Inside, MyBlock
<1>10. RouteInv'
  BY <1>1, RouteIdle
<1> QED
  BY <1>6, <1>7, <1>8, <1>9, <1>10

LEMMA RcCompare == ASSUME RcInv, F!Compare PROVE RcInv'
<1> USE RcApart DEF RcInv, Vetting, Weighed, BackedUp, Guarding, Wiring, Configuring
<1>1. /\ UNCHANGED <<disk, old, moved, touched, wiring>> /\ step = "compare"
      /\ step' = IF disk.shellrc = wiring.snap THEN "stub" ELSE "put_back"
  BY DEF F!Compare, F!Goes
<1>2. RcTypes' /\ MovedInv'
  BY <1>1, RcQuiet
<1>3. HandInv'
  BY <1>1 DEF HandInv
<1>4. StubInv'
  BY <1>1 DEF StubInv, Inside, MyBlock
<1>5. RouteInv'
  BY <1>1, RouteIdle
<1> QED
  BY <1>2, <1>3, <1>4, <1>5

\* The way back: the block is the one that was there, and the backup of this run goes.
LEMMA RcPutBack == ASSUME RcInv, F!PutBack PROVE RcInv'
<1> USE RcApart DEF RcInv, Vetting, Weighed, BackedUp, Guarding, Wiring, Configuring
<1>1. /\ UNCHANGED <<old, moved, touched, wiring>> /\ step = "put_back" /\ step' = "drop"
      /\ disk' = [disk EXCEPT !.myshellrc = wiring.pre]
  BY DEF F!PutBack, F!Writes
<1>2. wiring.pre \in {None} \cup Texts
  BY <1>1 DEF HandInv
<1>3. RcTypes' /\ disk'.myshellrc = wiring.pre /\ disk'.shellrc = disk.shellrc
  BY <1>1, <1>2, RcWritten DEF F!Files, F!Rc
<1>4. MyBlock' = wiring.block
  BY <1>1, <1>3 DEF MyBlock, StubInv
<1>5. Stays => Inside(wiring.snap.lines) /\ old.shellrc # None /\ old.shellrc.of = wiring.snap
  BY <1>1 DEF StubInv
<1>6. MovedInv'
  BY <1>1, <1>3, <1>5 DEF MovedInv, Inside
<1>7. HandInv'
  BY <1>1, <1>3 DEF HandInv
<1>8. StubInv'
  BY <1>1, <1>3, <1>4 DEF StubInv, Inside
<1>9. RouteInv'
  BY <1>1, RouteIdle
<1> QED
  BY <1>3, <1>6, <1>7, <1>8, <1>9

LEMMA RcDrop == ASSUME RcInv, F!Drop PROVE RcInv'
<1> USE RcApart DEF RcInv, Vetting, Weighed, BackedUp, Guarding, Wiring, Configuring
<1>1. /\ UNCHANGED <<disk, moved, touched>> /\ step = "drop" /\ step' = "read_mine" /\ DOMAIN wiring = Locals
      /\ old' = [old EXCEPT !.shellrc = IF wiring.created THEN None ELSE old.shellrc]
      /\ wiring' = [wiring EXCEPT !.status = "refused"]
  BY DEF F!Drop, RcTypes, Locals
<1>2. /\ DOMAIN wiring' = Locals /\ wiring'.kind = wiring.kind /\ wiring'.mode = wiring.mode
      /\ wiring'.left = wiring.left /\ wiring'.snap = wiring.snap /\ wiring'.block = wiring.block
      /\ wiring'.status = "refused"
  BY <1>1 DEF Locals
<1>3. DOMAIN old' = F!Files /\ old'.shellrc \in {None, old.shellrc}
      /\ (old'.shellrc # old.shellrc => wiring.created = TRUE)
  BY <1>1 DEF RcTypes, F!Files
<1>4. ~IsStub(disk.shellrc) /\ (Stays /\ old'.shellrc # old.shellrc => moved = {})
  BY <1>1, <1>3 DEF HandInv, StubInv
<1>5. RcTypes'
  BY <1>1, <1>2, <1>3 DEF RcTypes, Locals
<1>6. MovedInv'
  BY <1>1, <1>3, <1>4 DEF MovedInv, MyBlock
<1>7. HandInv'
  BY <1>1, <1>2 DEF HandInv
<1>8. StubInv'
  BY <1>1, <1>2 DEF StubInv, MyBlock
<1>9. RouteInv'
  BY <1>1, <1>2, <1>4 DEF RouteInv, Stubbed
<1> QED
  BY <1>5, <1>6, <1>7, <1>8, <1>9

\* The only write that takes a copy of the user's lines away.
LEMMA RcWriteStub == ASSUME RcInv, F!WriteStub PROVE RcInv'
<1> USE RcApart DEF RcInv, Vetting, Weighed, BackedUp, Guarding, Wiring, Configuring
<1>1. /\ UNCHANGED <<old, touched>> /\ step = "stub" /\ step' = "read_mine" /\ DOMAIN wiring = Locals
      /\ disk' = [disk EXCEPT !.shellrc = F!Stub]
      /\ wiring' = [wiring EXCEPT !.status = "consolidated"]
      /\ moved' = moved \cup (IF "late" \in touched THEN wiring.snap.lines ELSE F!Read("shellrc").lines)
  BY DEF F!WriteStub, F!Writes, RcTypes, Locals
<1>2. /\ DOMAIN wiring' = Locals /\ wiring'.kind = wiring.kind /\ wiring'.mode = wiring.mode
      /\ wiring'.left = wiring.left /\ wiring'.status = "consolidated"
  BY <1>1 DEF Locals
<1>3. /\ wiring.snap \in Texts /\ wiring.snap # None
      /\ Stays => /\ Inside(wiring.snap.lines) /\ old.shellrc # None
                  /\ old.shellrc.of = wiring.snap /\ old.shellrc.whole = TRUE
      /\ MyBlock = wiring.snap.lines
      /\ ("late" \notin touched => disk.shellrc = wiring.snap) /\ wiring.snap.stub = FALSE
  BY <1>1 DEF HandInv, StubInv
<1>4. Stays => moved' = wiring.snap.lines
  BY <1>1, <1>3 DEF F!Read, Inside
<1>5. RcTypes' /\ disk'.shellrc = F!Stub /\ disk'.myshellrc = disk.myshellrc
  BY <1>1, <1>2, PlainTexts, RcWritten DEF F!Files, F!Rc, BlockOf
<1>6. F!Stub # wiring.snap /\ IsStub(F!Stub) /\ MyBlock # None /\ MyBlock' = MyBlock
  BY <1>3, <1>5, PlainTexts, TextFields DEF IsStub, MyBlock
<1>7. MovedInv'
  BY <1>1, <1>3, <1>4, <1>5, <1>6 DEF MovedInv, AsSet
<1>8. HandInv'
  BY <1>1, <1>2 DEF HandInv
<1>9. StubInv'
  BY <1>1, <1>2, StubIdle
<1>10. RouteInv'
  BY <1>1, <1>2, <1>5, <1>6 DEF RouteInv, Stubbed
<1> QED
  BY <1>5, <1>7, <1>8, <1>9, <1>10

LEMMA RcReadMine == ASSUME RcInv, F!ReadMine PROVE RcInv'
<1> USE RcApart DEF RcInv, Vetting, Weighed, BackedUp, Guarding, Wiring, Configuring
<1>1. UNCHANGED <<disk, old, moved, touched>> /\ step = "read_mine" /\ step' = "path" /\ DOMAIN wiring = Locals
  BY DEF F!ReadMine, F!Goes, RcTypes, Locals
<1>2. /\ DOMAIN wiring' = Locals /\ wiring'.kind = wiring.kind /\ wiring'.mode = wiring.mode
      /\ wiring'.left = wiring.left /\ wiring'.status = wiring.status /\ wiring'.error = wiring.error
      /\ wiring'.text = F!Read("myshellrc")
  BY <1>1 DEF F!ReadMine, F!Goes, Locals
<1>3. F!Read("myshellrc") \in Texts /\ F!Read("myshellrc").block = MyBlock
  BY PlainTexts DEF F!Read, RcTypes, F!Files, MyBlock, BlockOf
<1>4. RcTypes' /\ MovedInv'
  BY <1>1, <1>2, RcQuiet
<1>5. HandInv'
  BY <1>1, <1>2, <1>3 DEF HandInv, MyBlock
<1>6. StubInv'
  BY <1>1, StubIdle
<1>7. RouteInv'
  BY <1>1, <1>2 DEF RouteInv, Undisturbed, Stubbed
<1> QED
  BY <1>4, <1>5, <1>6, <1>7

LEMMA RcWritePath == ASSUME RcInv, F!WritePath PROVE RcInv'
<1> USE RcApart DEF RcInv, Vetting, Weighed, BackedUp, Guarding, Wiring, Configuring
<1> DEFINE c == [wiring.text EXCEPT !.path = TRUE]
<1>1. /\ UNCHANGED <<old, moved, touched>> /\ step = "path" /\ step' = "route" /\ DOMAIN wiring = Locals
      /\ disk' = [disk EXCEPT !.myshellrc = c] /\ wiring' = [wiring EXCEPT !.text = None]
  BY DEF F!WritePath, F!Writes, RcTypes, Locals
<1>2. /\ DOMAIN wiring' = Locals /\ wiring'.kind = wiring.kind /\ wiring'.mode = wiring.mode
      /\ wiring'.left = wiring.left /\ wiring'.status = wiring.status /\ wiring'.error = wiring.error
  BY <1>1 DEF Locals
<1>3. c \in Texts /\ c # None /\ c.block = MyBlock
  BY <1>1, SetPath DEF HandInv
<1> HIDE DEF c
<1>4. RcTypes' /\ disk'.myshellrc = c /\ disk'.shellrc = disk.shellrc
  BY <1>1, <1>2, <1>3, RcWritten DEF F!Files, F!Rc
<1>5. MyBlock' = MyBlock
  BY <1>3, <1>4 DEF MyBlock, BlockOf
<1>6. MovedInv'
  BY <1>1, <1>4, <1>5 DEF MovedInv
<1>7. HandInv'
  BY <1>1, <1>2 DEF HandInv
<1>8. StubInv'
  BY <1>1, StubIdle
<1>9. RouteInv'
  BY <1>1, <1>2, <1>4 DEF RouteInv, Undisturbed, Stubbed, HandInv
<1> QED
  BY <1>4, <1>6, <1>7, <1>8, <1>9

\* The wiring: each rc file by one route.
LEMMA RcRoute == ASSUME RcInv, F!Route PROVE RcInv'
<1> USE RcApart DEF RcInv, Vetting, Weighed, BackedUp, Guarding, Wiring, Configuring
<1>1. /\ UNCHANGED <<disk, old, moved, touched>> /\ step = "route" /\ DOMAIN wiring = Locals
      /\ wiring.kind = "configure" /\ wiring.left \in Lefts(wiring.mode)
  BY DEF F!Route, F!Goes, F!Ends, RcTypes, Locals, HandInv
<1>2. /\ DOMAIN wiring' = Locals /\ wiring'.kind = wiring.kind /\ wiring'.mode = wiring.mode
      /\ wiring'.left = wiring.left /\ wiring'.status = wiring.status /\ wiring'.error = wiring.error
      /\ step' = (IF wiring.left = <<>> THEN "ended" ELSE "read_rc")
  BY <1>1 DEF F!Route, F!Goes, F!Ends, Locals
<1>3. wiring.left # <<>> => wiring'.route = IF Stubbed /\ SourcesIt(Head(wiring.left)) THEN "stub" ELSE "block"
  <2>1. SUFFICES ASSUME wiring.left # <<>>
                 PROVE  wiring'.route = IF Stubbed /\ SourcesIt(Head(wiring.left)) THEN "stub" ELSE "block"
    OBVIOUS
  <2>2. Head(wiring.left) \in F!Rc
    BY <1>1, <2>1, RcLefts
  <2>3. disk[Head(wiring.left)] # None /\ disk[Head(wiring.left)].block = None
    BY <2>2 DEF RcTypes
  <2>4. F!SourcesTarget(F!Read(Head(wiring.left)), "shellrc") <=> SourcesIt(Head(wiring.left))
    BY <2>3 DEF F!SourcesTarget, F!Read, SourcesIt
  <2>5. wiring' = [wiring EXCEPT !.route =
                 IF F!Stubbed /\ F!SourcesTarget(F!Read(Head(wiring.left)), "shellrc") THEN "stub" ELSE "block"]
    BY <2>1 DEF F!Route, F!Goes
  <2>6. F!Stubbed <=> Stubbed
    BY DEF F!Stubbed, Stubbed
  <2> QED
    BY <1>1, <2>4, <2>5, <2>6 DEF Locals
<1>4. RcTypes' /\ MovedInv'
  BY <1>1, <1>2, RcQuiet
<1>5. HandInv'
  BY <1>1, <1>2 DEF HandInv
<1>6. StubInv'
  BY <1>2, StubIdle
<1>7. RouteInv'
  BY <1>1, <1>2, <1>3 DEF RouteInv, Undisturbed, Stubbed, SourcesIt
<1> QED
  BY <1>4, <1>5, <1>6, <1>7

LEMMA RcReadRc == ASSUME RcInv, F!ReadRc PROVE RcInv'
<1> USE RcApart DEF RcInv, Vetting, Weighed, BackedUp, Guarding, Wiring, Configuring
<1>1. /\ UNCHANGED <<disk, old, moved, touched>> /\ step = "read_rc" /\ step' = "rc" /\ DOMAIN wiring = Locals
      /\ wiring.kind = "configure" /\ wiring.left \in Lefts(wiring.mode) /\ wiring.left # <<>>
  BY DEF F!ReadRc, F!Goes, RcTypes, Locals, HandInv
<1>2. /\ DOMAIN wiring' = Locals /\ wiring'.kind = wiring.kind /\ wiring'.mode = wiring.mode
      /\ wiring'.left = wiring.left /\ wiring'.status = wiring.status /\ wiring'.error = wiring.error
      /\ wiring'.route = wiring.route /\ wiring'.text = disk[Head(wiring.left)]
  BY <1>1 DEF F!ReadRc, F!Goes, Locals
<1>3. wiring'.text \in {None} \cup Texts /\ BlockOf(wiring'.text) = None
  <2>1. Head(wiring.left) \in F!Rc
    BY <1>1, RcLefts
  <2> QED
    BY <1>2, <2>1 DEF RcTypes, F!Files, BlockOf
<1>4. RcTypes' /\ MovedInv'
  BY <1>1, <1>2, RcQuiet
<1>5. HandInv'
  BY <1>1, <1>2, <1>3 DEF HandInv
<1>6. StubInv'
  BY <1>1, StubIdle
<1>7. RouteInv'
  BY <1>1, <1>2 DEF RouteInv, Undisturbed, Stubbed, SourcesIt
<1> QED
  BY <1>4, <1>5, <1>6, <1>7

LEMMA RcWriteRc == ASSUME RcInv, F!WriteRc PROVE RcInv'
<1> USE RcApart DEF RcInv, Vetting, Weighed, BackedUp, Guarding, Wiring, Configuring
<1> DEFINE f == Head(wiring.left)
           t == IF wiring.text = None THEN F!Empty ELSE wiring.text
           c == [t EXCEPT !.source = (wiring.route = "block")]
           quiet == wiring.route = "stub" /\ (wiring.text = None \/ ~wiring.text.source)
<1>1. /\ UNCHANGED <<old, moved, touched>> /\ step = "rc" /\ step' = "route" /\ DOMAIN wiring = Locals
      /\ wiring' = [wiring EXCEPT !.left = Tail(wiring.left), !.text = None, !.route = None]
      /\ disk' = IF quiet THEN disk ELSE [disk EXCEPT ![f] = c]
  BY DEF F!WriteRc, F!Goes, F!Writes, RcTypes, Locals
<1>2. /\ DOMAIN wiring' = Locals /\ wiring'.kind = wiring.kind /\ wiring'.mode = wiring.mode
      /\ wiring'.left = Tail(wiring.left) /\ wiring'.status = wiring.status /\ wiring'.error = wiring.error
  BY <1>1 DEF Locals
<1>3. /\ f \in F!Rc /\ Tail(wiring.left) \in Lefts(wiring.mode) /\ wiring.kind = "configure"
      /\ Paths(wiring.mode) \ Ahead(Tail(wiring.left)) = (Paths(wiring.mode) \ Ahead(wiring.left)) \cup {f}
  BY <1>1, RcLefts DEF HandInv
<1>4. t \in Texts /\ t # None /\ t.block = None /\ t.source \in BOOLEAN
  BY <1>1, PlainTexts, TextFields DEF HandInv, BlockOf
<1> HIDE DEF t
<1>5. c \in Texts /\ c # None /\ c.block = None /\ c.lines = t.lines /\ (c.source = TRUE <=> wiring.route = "block")
  BY <1>4, SetRoute
<1> HIDE DEF c
<1>6. RcTypes' /\ disk'.shellrc = disk.shellrc /\ disk'.myshellrc = disk.myshellrc
      /\ \A g \in F!Rc \ {f} : disk'[g] = disk[g]
  <2>1. CASE quiet
    BY <1>1, <1>2, <2>1, RcQuiet
  <2>2. CASE ~quiet
    <3>1. disk' = [disk EXCEPT ![f] = c] /\ UNCHANGED old /\ DOMAIN wiring' = DOMAIN wiring /\ f \in F!Files
      BY <1>1, <1>2, <1>3, <2>2 DEF F!Files
    <3> HIDE DEF f, quiet
    <3>2. RcTypes' /\ (\A g \in F!Files \ {f} : disk'[g] = disk[g])
      BY <1>3, <1>5, <3>1, RcWritten DEF F!Rc
    <3> QED
      BY <1>3, <3>2 DEF F!Files, F!Rc
  <2> QED
    BY <2>1, <2>2
<1>7. Undisturbed => disk'[f].lines = disk[f].lines /\ (disk'[f].source = TRUE <=> ~(Stubbed /\ SourcesIt(f)))
  <2> SUFFICES ASSUME Undisturbed
               PROVE  disk'[f].lines = disk[f].lines /\ (disk'[f].source = TRUE <=> ~(Stubbed /\ SourcesIt(f)))
    OBVIOUS
  <2>1. wiring.text = disk[f] /\ disk[f] # None /\ disk[f] \in Texts
        /\ wiring.route = IF Stubbed /\ SourcesIt(f) THEN "stub" ELSE "block"
    BY <1>1, <1>3 DEF RouteInv, RcTypes, F!Files
  <2>2. CASE quiet
    <3>1. disk' = disk /\ Stubbed /\ SourcesIt(f) /\ ~disk[f].source
      BY <1>1, <2>1, <2>2
    <3> QED
      BY <3>1
  <2>3. CASE ~quiet
    <3>1. disk'[f] = c
      BY <1>1, <1>3, <2>3 DEF RcTypes, F!Files
    <3>2. t = disk[f]
      BY <2>1 DEF t
    <3> QED
      BY <1>5, <2>1, <3>1, <3>2
  <2> QED
    BY <2>2, <2>3
<1> HIDE DEF f, quiet
<1>8. MovedInv'
  BY <1>1, <1>6 DEF MovedInv, MyBlock
<1>9. HandInv'
  BY <1>1, <1>2, <1>3 DEF HandInv
<1>10. StubInv'
  BY <1>1, StubIdle
<1>11. RouteInv'
  <2>1. SUFFICES ASSUME Undisturbed' PROVE RouteInv'
    BY DEF RouteInv
  <2>2. Undisturbed
    BY <1>1, <1>2, <2>1 DEF Undisturbed
  <2>3. (Stubbed' <=> Stubbed) /\ (Stubbed <=> IsStub(disk.shellrc)) /\ (IsStub(disk'.shellrc) <=> IsStub(disk.shellrc))
    BY <1>1, <1>2, <1>3, <1>6, <2>2 DEF Stubbed, RouteInv
  <2>4. \A g \in Paths(wiring.mode) \ Ahead(Tail(wiring.left)) :
           disk'[g].source = TRUE <=> ~(Stubbed' /\ SourcesIt(g)')
    <3> SUFFICES ASSUME NEW g \in Paths(wiring.mode) \ Ahead(Tail(wiring.left))
                 PROVE  disk'[g].source = TRUE <=> ~(Stubbed' /\ SourcesIt(g)')
      OBVIOUS
    <3>1. CASE g = f
      BY <1>7, <2>2, <2>3, <3>1 DEF SourcesIt
    <3>2. CASE g # f
      <4>1. g \in Paths(wiring.mode) \ Ahead(wiring.left) /\ g \in F!Rc
        BY <1>3, <3>2, RcLefts
      <4>2. disk'[g] = disk[g]
        BY <1>6, <3>2, <4>1
      <4> QED
        BY <1>1, <1>3, <2>2, <2>3, <4>1, <4>2 DEF RouteInv, SourcesIt
    <3> QED
      BY <3>1, <3>2
  <2> QED
    BY <1>1, <1>2, <2>3, <2>4 DEF RouteInv
<1> QED
  BY <1>6, <1>8, <1>9, <1>10, <1>11

\* split mode: each rc file is read and written.
LEMMA RcInline == ASSUME RcInv, F!Inline PROVE RcInv'
<1> USE RcApart DEF RcInv, Vetting, Weighed, BackedUp, Guarding, Wiring, Configuring
<1>1. /\ UNCHANGED <<disk, old, moved, touched>> /\ step = "inline" /\ DOMAIN wiring = Locals
      /\ wiring.kind = "configure" /\ wiring.mode = "split" /\ wiring.left \in Lefts(wiring.mode)
  BY DEF F!Inline, F!Goes, F!Ends, RcTypes, Locals, HandInv
<1>2. /\ DOMAIN wiring' = Locals /\ wiring'.kind = wiring.kind /\ wiring'.mode = wiring.mode
      /\ wiring'.left = wiring.left /\ step' = (IF wiring.left = <<>> THEN "ended" ELSE "write_inline")
      /\ (wiring.left # <<>> => wiring'.text = F!Read(Head(wiring.left)))
  BY <1>1 DEF F!Inline, F!Goes, F!Ends, Locals
<1>3. wiring.left # <<>> => wiring'.text \in Texts /\ wiring'.text # None /\ BlockOf(wiring'.text) = None
  <2>1. SUFFICES ASSUME wiring.left # <<>> PROVE wiring'.text \in Texts /\ wiring'.text # None /\ BlockOf(wiring'.text) = None
    OBVIOUS
  <2>2. Head(wiring.left) \in F!Rc
    BY <1>1, <2>1, RcLefts
  <2> QED
    BY <1>2, <2>1, <2>2 DEF RcTypes, F!Files, F!Read, BlockOf
<1>4. RcTypes' /\ MovedInv'
  BY <1>1, <1>2, RcQuiet
<1>5. HandInv'
  BY <1>1, <1>2, <1>3 DEF HandInv
<1>6. StubInv' /\ RouteInv'
  BY <1>1, <1>2, StubIdle, RouteIdle
<1> QED
  BY <1>4, <1>5, <1>6

LEMMA RcWriteInline == ASSUME RcInv, F!WriteInline PROVE RcInv'
<1> USE RcApart DEF RcInv, Vetting, Weighed, BackedUp, Guarding, Wiring, Configuring
<1> DEFINE f == Head(wiring.left)
           c == [wiring.text EXCEPT !.path = TRUE]
<1>1. /\ UNCHANGED <<old, moved, touched>> /\ step = "write_inline" /\ step' = "inline" /\ DOMAIN wiring = Locals
      /\ wiring' = [wiring EXCEPT !.left = Tail(wiring.left), !.text = None]
      /\ disk' = [disk EXCEPT ![f] = c]
  BY DEF F!WriteInline, F!Writes, RcTypes, Locals
<1>2. /\ DOMAIN wiring' = Locals /\ wiring'.kind = wiring.kind /\ wiring'.mode = wiring.mode
      /\ wiring'.left = Tail(wiring.left)
  BY <1>1 DEF Locals
<1>3. f \in F!Rc /\ Tail(wiring.left) \in Lefts(wiring.mode) /\ wiring.kind = "configure" /\ wiring.mode = "split"
  BY <1>1, RcLefts DEF HandInv
<1>4. wiring.text \in Texts /\ wiring.text.block = None
  BY <1>1 DEF HandInv, BlockOf
<1>5. c \in Texts /\ c # None /\ c.block = None
  BY <1>4, SetPath
<1>6. RcTypes' /\ disk'.shellrc = disk.shellrc /\ disk'.myshellrc = disk.myshellrc
  BY <1>1, <1>2, <1>3, <1>5, RcWritten DEF F!Files, F!Rc
<1> HIDE DEF f, c
<1>7. MovedInv'
  BY <1>1, <1>6 DEF MovedInv, MyBlock
<1>8. HandInv'
  BY <1>1, <1>2, <1>3 DEF HandInv
<1>9. StubInv' /\ RouteInv'
  BY <1>1, StubIdle, RouteIdle
<1> QED
  BY <1>6, <1>7, <1>8, <1>9

\* The guard of the lines that write PATH.
LEMMA RcAsk == ASSUME RcInv, F!Ask PROVE RcInv'
<1> USE RcApart DEF RcInv, Vetting, Weighed, BackedUp, Guarding, Wiring, Configuring
<1>1. /\ UNCHANGED <<disk, old, moved, touched>> /\ step = "ask" /\ DOMAIN wiring = Locals
      /\ wiring.kind = "guard" /\ wiring.left \in Seq(F!Files)
  BY DEF F!Ask, F!Goes, F!Ends, RcTypes, Locals, HandInv
<1>2. /\ DOMAIN wiring' = Locals /\ wiring'.kind = wiring.kind
      /\ \/ step' = "ended"
         \/ step' = "guard_read" /\ wiring.left # <<>> /\ wiring'.created = FALSE /\ wiring'.left = wiring.left
         \/ step' = "ask" /\ wiring.left # <<>> /\ wiring'.left = Tail(wiring.left)
  BY <1>1 DEF F!Ask, F!Goes, F!Ends, Locals
<1>3. RcTypes' /\ MovedInv'
  BY <1>1, <1>2, RcQuiet
<1>4. step' = "ask" => wiring'.left \in Seq(F!Files)
  <2>1. wiring.left # <<>> => Tail(wiring.left) \in Seq(F!Files)
    BY <1>1
  <2> QED
    BY <1>2, <2>1
<1>5. HandInv'
  BY <1>1, <1>2, <1>4 DEF HandInv
<1>6. StubInv' /\ RouteInv'
  BY <1>1, <1>2, StubIdle, RouteIdle
<1> QED
  BY <1>3, <1>5, <1>6

LEMMA RcGuardRead == ASSUME RcInv, F!GuardRead PROVE RcInv'
<1> USE RcApart DEF RcInv, Vetting, Weighed, BackedUp, Guarding, Wiring, Configuring
<1> DEFINE f == Head(wiring.left)
<1>1. /\ UNCHANGED <<disk, old, moved, touched>> /\ step = "guard_read" /\ DOMAIN wiring = Locals
      /\ wiring.kind = "guard" /\ wiring.left \in Seq(F!Files) /\ wiring.left # <<>> /\ wiring.created = FALSE
  BY DEF F!GuardRead, F!NextFile, F!Goes, RcTypes, Locals, HandInv, StubInv
<1>2. f \in F!Files /\ Tail(wiring.left) \in Seq(F!Files)
  BY <1>1
<1>3. CASE ~F!Adds(disk[f]) \/ F!BackupConflict(f, disk[f])
  <2>1. /\ step' = "ask" /\ DOMAIN wiring' = Locals /\ wiring'.kind = wiring.kind /\ wiring'.left = Tail(wiring.left)
    BY <1>1, <1>3 DEF F!GuardRead, F!NextFile, F!Goes, Locals
  <2>2. RcTypes' /\ MovedInv'
    BY <1>1, <2>1, RcQuiet
  <2>3. HandInv'
    BY <1>1, <1>2, <2>1 DEF HandInv
  <2>4. StubInv' /\ RouteInv'
    BY <1>1, <2>1, StubIdle, RouteIdle
  <2> QED
    BY <2>2, <2>3, <2>4
<1>4. CASE F!Adds(disk[f]) /\ ~F!BackupConflict(f, disk[f])
  <2>1. /\ step' = "guard_create" /\ DOMAIN wiring' = Locals /\ wiring'.kind = wiring.kind
        /\ wiring'.left = wiring.left /\ wiring'.snap = disk[f] /\ wiring'.created = FALSE
    BY <1>1, <1>4 DEF F!GuardRead, F!Goes, Locals
  <2>2. disk[f] \in Texts
    BY <1>2, <1>4 DEF F!Adds, RcTypes
  <2>3. f \in F!Rc \cup {"shellrc"} => disk[f].block = None
    BY <1>2, <1>4, <2>2 DEF RcTypes, BlockOf, F!Adds
  \* A stub has a backup of something else, so that its guard is refused.
  <2>4. Stays /\ f = "shellrc" => disk[f].stub = FALSE
    <3>1. SUFFICES ASSUME Stays, f = "shellrc", IsStub(disk.shellrc) PROVE FALSE
      BY <2>2, TextFields DEF IsStub
    <3>2. old.shellrc # None /\ old.shellrc.of.stub = FALSE
      BY <3>1 DEF MovedInv, RcTypes
    <3>3. old.shellrc # [of |-> disk.shellrc, whole |-> TRUE]
      BY <3>1, <3>2 DEF IsStub
    <3> QED
      BY <1>4, <3>1, <3>2, <3>3 DEF F!BackupConflict
  <2> HIDE DEF f
  <2>5. RcTypes' /\ MovedInv'
    BY <1>1, <2>1, RcQuiet
  <2>6. HandInv'
    BY <1>1, <2>1, <2>2, <2>3, <2>4 DEF HandInv, f
  <2>7. StubInv'
    BY <2>1 DEF StubInv
  <2>8. RouteInv'
    BY <2>1, RouteIdle
  <2> QED
    BY <2>5, <2>6, <2>7, <2>8
<1> QED
  BY <1>3, <1>4

LEMMA RcGuardCompare == ASSUME RcInv, F!GuardCompare PROVE RcInv'
<1> USE RcApart DEF RcInv, Vetting, Weighed, BackedUp, Guarding, Wiring, Configuring
<1> DEFINE f == Head(wiring.left)
<1>1. /\ UNCHANGED <<disk, moved, touched>> /\ step = "guard_compare" /\ DOMAIN wiring = Locals
      /\ wiring.kind = "guard" /\ wiring.left \in Seq(F!Files) /\ wiring.left # <<>>
      /\ wiring.snap \in Texts
  BY DEF F!GuardCompare, F!Goes, RcTypes, Locals, HandInv
<1>2. f \in F!Files /\ Tail(wiring.left) \in Seq(F!Files)
  BY <1>1
<1>3. CASE disk[f] = wiring.snap
  <2>1. step' = "guard" /\ UNCHANGED <<old, wiring>>
    BY <1>3 DEF F!GuardCompare, F!Goes
  <2>2. RcTypes' /\ MovedInv'
    BY <1>1, <2>1, RcQuiet
  <2>3. HandInv'
    BY <1>1, <2>1 DEF HandInv
  <2>4. f = "myshellrc" => MyBlock = wiring.snap.block
    BY <1>1, <1>3, TextFields DEF MyBlock, BlockOf
  <2>5. StubInv'
    BY <1>1, <2>1, <2>4 DEF StubInv, MyBlock
  <2>6. RouteInv'
    BY <2>1, RouteIdle
  <2> QED
    BY <2>2, <2>3, <2>5, <2>6
<1>4. CASE disk[f] # wiring.snap
  <2>1. /\ step' = "ask" /\ old' = [old EXCEPT ![f] = IF wiring.created THEN None ELSE old[f]]
        /\ wiring' = [wiring EXCEPT !.left = Tail(wiring.left), !.snap = None]
    BY <1>4 DEF F!GuardCompare
  <2>2. DOMAIN wiring' = Locals /\ wiring'.kind = wiring.kind /\ wiring'.left = Tail(wiring.left)
    BY <1>1, <2>1 DEF Locals
  <2>3. /\ DOMAIN old' = F!Files /\ old'.shellrc \in {None, old.shellrc}
        /\ old'.shellrc # old.shellrc => f = "shellrc" /\ wiring.created = TRUE
    BY <1>2, <2>1 DEF RcTypes, F!Files
  <2>4. Stays /\ old'.shellrc # old.shellrc => moved = {} /\ ~IsStub(disk.shellrc)
    BY <1>1, <2>3 DEF StubInv
  <2>5. RcTypes'
    BY <1>1, <2>2, <2>3 DEF RcTypes, Locals
  <2>6. MovedInv'
    BY <1>1, <2>3, <2>4 DEF MovedInv, MyBlock
  <2>7. HandInv'
    BY <1>1, <1>2, <2>1, <2>2 DEF HandInv
  <2>8. StubInv' /\ RouteInv'
    BY <2>1, StubIdle, RouteIdle
  <2> QED
    BY <2>5, <2>6, <2>7, <2>8
<1> QED
  BY <1>3, <1>4

\* A line that is guarded, or taken away, in a content and in what was moved.
LEMMA RcLinesOf ==
  /\ \A b \in {None} \cup SUBSET Words : /\ F!Guarded(b) \in {None} \cup SUBSET Words /\ F!Stripped(b) \in {None} \cup SUBSET Words
  /\ \A b \in SUBSET Words :
       /\ F!Guarded(b) = (IF "writer" \in b THEN (b \ {"writer"}) \cup {"guarded"} ELSE b)
       /\ F!Stripped(b) = b \ {"writer"} /\ "writer" \notin F!Guarded(b)
       /\ F!Guarded(b) \in SUBSET Words /\ F!Stripped(b) \in SUBSET Words
  /\ F!Guarded(None) = None /\ F!Stripped(None) = None
<1>1. "guarded" \in Words
  BY DEF Words, F!UserLines
<1> QED
  BY <1>1, RcApart DEF F!Guarded, F!Stripped

LEMMA RcGuarded ==
  ASSUME NEW c \in Texts
  PROVE  LET d == [c EXCEPT !.lines = F!Guarded(c.lines), !.block = F!Guarded(c.block)] IN
         /\ d \in Texts /\ d # None /\ d.lines = F!Guarded(c.lines) /\ d.block = F!Guarded(c.block)
         /\ d.stub = c.stub /\ "writer" \notin d.lines
<1>1. c.lines \in SUBSET Words /\ c.block \in {None} \cup SUBSET Words
  BY TextFields
<1>2. PICK L \in SUBSET Words, B \in {None} \cup SUBSET Words :
        L = F!Guarded(c.lines) /\ B = F!Guarded(c.block) /\ "writer" \notin L
  BY <1>1, RcLinesOf
<1> SUFFICES ASSUME NEW d, d = [c EXCEPT !.lines = F!Guarded(c.lines), !.block = F!Guarded(c.block)]
             PROVE  /\ d \in Texts /\ d # None /\ d.lines = L /\ d.block = B
                    /\ d.stub = c.stub /\ "writer" \notin L
  BY <1>2
<1>3. d = [c EXCEPT !.lines = L, !.block = B]
  BY <1>2
<1>4. d \in Texts /\ d # None /\ d.lines = L /\ d.block = B /\ d.stub = c.stub
  BY <1>2, <1>3, RcApart DEF Texts
<1> QED
  BY <1>2, <1>4

LEMMA RcStripped ==
  ASSUME NEW c \in Texts
  PROVE  LET d == [c EXCEPT !.lines = F!Stripped(c.lines), !.block = F!Stripped(c.block)] IN
         /\ d \in Texts /\ d # None /\ d.lines = F!Stripped(c.lines) /\ d.block = F!Stripped(c.block)
         /\ d.stub = c.stub /\ "writer" \notin d.lines
<1>1. c.lines \in SUBSET Words /\ c.block \in {None} \cup SUBSET Words
  BY TextFields
<1>2. PICK L \in SUBSET Words, B \in {None} \cup SUBSET Words :
        L = F!Stripped(c.lines) /\ B = F!Stripped(c.block) /\ "writer" \notin L
  BY <1>1, RcLinesOf
<1> SUFFICES ASSUME NEW d, d = [c EXCEPT !.lines = F!Stripped(c.lines), !.block = F!Stripped(c.block)]
             PROVE  /\ d \in Texts /\ d # None /\ d.lines = L /\ d.block = B
                    /\ d.stub = c.stub /\ "writer" \notin L
  BY <1>2
<1>3. d = [c EXCEPT !.lines = L, !.block = B]
  BY <1>2
<1>4. d \in Texts /\ d # None /\ d.lines = L /\ d.block = B /\ d.stub = c.stub
  BY <1>2, <1>3, RcApart DEF Texts
<1> QED
  BY <1>2, <1>4

LEMMA RcSets == RcInv => (Stays => moved \in SUBSET Words) /\ MyBlock \in {None} \cup SUBSET Words
<1> SUFFICES ASSUME RcInv PROVE (Stays => moved \in SUBSET Words) /\ MyBlock \in {None} \cup SUBSET Words
  OBVIOUS
<1>1. MyBlock \in {None} \cup SUBSET Words
  <2>1. disk.myshellrc \in {None} \cup Texts
    BY DEF RcInv, RcTypes, F!Files
  <2> QED
    BY <2>1, TextFields DEF MyBlock, BlockOf
<1>2. old.shellrc # None => old.shellrc.of.lines \subseteq Words
  BY TextFields DEF RcInv, RcTypes
<1> QED
  BY <1>1, <1>2 DEF RcInv, MovedInv, AsSet

LEMMA RcGuard == ASSUME RcInv, F!Guard PROVE RcInv'
<1> USE RcApart DEF RcInv, Vetting, Weighed, BackedUp, Guarding, Wiring, Configuring
<1> DEFINE f == Head(wiring.left)
           c == [wiring.snap EXCEPT !.lines = F!Guarded(wiring.snap.lines), !.block = F!Guarded(wiring.snap.block)]
<1>1. /\ UNCHANGED <<old, touched>> /\ step = "guard" /\ step' = "ask" /\ DOMAIN wiring = Locals
      /\ disk' = [disk EXCEPT ![f] = c]
      /\ wiring' = [wiring EXCEPT !.left = Tail(wiring.left), !.snap = None]
      /\ moved' = IF f = "myshellrc" THEN F!Guarded(moved) ELSE moved
  BY DEF F!Guard, F!Writes, RcTypes, Locals
<1>2. /\ wiring.kind = "guard" /\ wiring.left \in Seq(F!Files) /\ wiring.left # <<>>
      /\ wiring.snap \in Texts
      /\ f \in F!Rc \cup {"shellrc"} => wiring.snap.block = None
      /\ Stays /\ f = "shellrc" => wiring.snap.stub = FALSE
      /\ f = "myshellrc" => MyBlock = wiring.snap.block
  BY <1>1 DEF HandInv, StubInv
<1>3. f \in F!Files /\ Tail(wiring.left) \in Seq(F!Files)
  BY <1>2
<1>4. DOMAIN wiring' = Locals /\ wiring'.kind = wiring.kind /\ wiring'.left = Tail(wiring.left)
  BY <1>1 DEF Locals
<1>5. /\ c \in Texts /\ c # None /\ c.lines = F!Guarded(wiring.snap.lines)
      /\ c.block = F!Guarded(wiring.snap.block) /\ c.stub = wiring.snap.stub /\ "writer" \notin c.lines
  BY <1>2, RcGuarded
<1>6. f \in F!Rc \cup {"shellrc"} => c.block = None
  BY <1>2, <1>5, RcLinesOf
<1> HIDE DEF c, f
<1>7. /\ RcTypes' /\ disk'[f] = c
      /\ f = "myshellrc" => disk'.shellrc = disk.shellrc
      /\ f # "myshellrc" => disk'.myshellrc = disk.myshellrc
      /\ f \in F!Rc => disk'.shellrc = disk.shellrc
  BY <1>1, <1>3, <1>4, <1>5, <1>6, RcWritten DEF BlockOf
<1>8. MovedInv'
  <2>1. CASE f \in F!Rc
    <3>1. f # "myshellrc"
      BY <2>1 DEF F!Rc
    <3> QED
      BY <1>1, <1>7, <2>1, <3>1 DEF MovedInv, MyBlock
  <2>2. CASE f = "shellrc"
    <3>1. disk'.shellrc = c /\ disk'.myshellrc = disk.myshellrc /\ moved' = moved /\ (Stays => ~IsStub(disk'.shellrc))
      BY <1>1, <1>2, <1>5, <1>7, <2>2 DEF IsStub
    <3>2. old.shellrc # None /\ disk'.shellrc = old.shellrc.of => "writer" \notin old.shellrc.of.lines
      BY <1>5, <3>1
    <3> QED
      BY <1>1, <3>1, <3>2 DEF MovedInv, MyBlock
  <2>3. CASE f = "myshellrc"
    <3>1. disk'.shellrc = disk.shellrc /\ MyBlock' = F!Guarded(MyBlock)
      BY <1>2, <1>5, <1>7, <2>3 DEF MyBlock, BlockOf
    <3>2. Stays => moved' = (IF "writer" \in moved THEN (moved \ {"writer"}) \cup {"guarded"} ELSE moved)
      BY <1>1, <2>3, RcSets, RcLinesOf
    <3>3. AsSet(MyBlock') = IF "writer" \in AsSet(MyBlock) THEN (AsSet(MyBlock) \ {"writer"}) \cup {"guarded"} ELSE AsSet(MyBlock)
      BY <3>1, RcSets, RcLinesOf DEF AsSet
    <3> QED
      BY <1>1, <3>1, <3>2, <3>3 DEF MovedInv
  <2> QED
    BY <1>3, <2>1, <2>2, <2>3 DEF F!Files
<1>9. HandInv'
  BY <1>1, <1>2, <1>3, <1>4 DEF HandInv
<1>10. StubInv' /\ RouteInv'
  BY <1>1, StubIdle, RouteIdle
<1> QED
  BY <1>7, <1>8, <1>9, <1>10

LEMMA RcClean == ASSUME RcInv, F!Clean PROVE RcInv'
<1> USE RcApart DEF RcInv, Vetting, Weighed, BackedUp, Guarding, Wiring, Configuring
<1> DEFINE f == Head(wiring.left)
           c == [wiring.snap EXCEPT !.lines = F!Stripped(wiring.snap.lines), !.block = F!Stripped(wiring.snap.block)]
<1>1. /\ UNCHANGED <<old, touched, wiring>> /\ step = "clean" /\ step' = "ended" /\ DOMAIN wiring = Locals
      /\ wiring.kind = "clean" /\ f \in F!Files /\ wiring.snap # None
  BY DEF F!Clean, F!Writes, F!Goes, F!Ends, RcTypes, Locals, HandInv
<1>2. HandInv' /\ StubInv' /\ RouteInv'
  <2>1. HandInv'
    BY <1>1 DEF HandInv
  <2> QED
    BY <1>1, <2>1, StubIdle, RouteIdle
<1>3. CASE disk[f] # wiring.snap
  <2>1. UNCHANGED <<disk, moved>>
    BY <1>3 DEF F!Clean, F!Goes, F!Ends
  <2> QED
    BY <1>1, <1>2, <2>1, RcQuiet
<1>4. CASE disk[f] = wiring.snap
  <2>1. /\ disk' = [disk EXCEPT ![f] = c]
        /\ moved' = IF f = "myshellrc" THEN F!Stripped(moved) ELSE moved
    BY <1>4 DEF F!Clean, F!Writes
  <2>2. wiring.snap \in Texts /\ (f \in F!Rc \cup {"shellrc"} => wiring.snap.block = None)
    BY <1>1, <1>4 DEF RcTypes, BlockOf
  <2>3. /\ c \in Texts /\ c # None /\ c.lines = F!Stripped(wiring.snap.lines)
        /\ c.block = F!Stripped(wiring.snap.block) /\ c.stub = wiring.snap.stub /\ "writer" \notin c.lines
    BY <2>2, RcStripped
  <2>4. f \in F!Rc \cup {"shellrc"} => c.block = None
    BY <2>2, <2>3, RcLinesOf
  <2> HIDE DEF c, f
  <2>5. /\ RcTypes' /\ disk'[f] = c
        /\ f = "myshellrc" => disk'.shellrc = disk.shellrc
        /\ f # "myshellrc" => disk'.myshellrc = disk.myshellrc
        /\ f \in F!Rc => disk'.shellrc = disk.shellrc
    BY <1>1, <2>1, <2>3, <2>4, RcWritten DEF BlockOf
  <2>6. MovedInv'
    <3>1. CASE f \in F!Rc
      <4>1. f # "myshellrc"
        BY <3>1 DEF F!Rc
      <4> QED
        BY <1>1, <2>1, <2>5, <3>1, <4>1 DEF MovedInv, MyBlock
    <3>2. CASE f = "shellrc"
      <4>1. disk'.shellrc = c /\ disk'.myshellrc = disk.myshellrc /\ moved' = moved
            /\ (IsStub(disk'.shellrc) => IsStub(disk.shellrc))
        BY <1>1, <1>4, <2>1, <2>3, <2>5, <3>2 DEF IsStub
      <4>2. old.shellrc # None /\ disk'.shellrc = old.shellrc.of => "writer" \notin old.shellrc.of.lines
        BY <2>3, <4>1
      <4> QED
        BY <1>1, <4>1, <4>2 DEF MovedInv, MyBlock
    <3>3. CASE f = "myshellrc"
      <4>1. disk'.shellrc = disk.shellrc /\ MyBlock' = F!Stripped(MyBlock)
        BY <1>1, <1>4, <2>3, <2>5, <3>3 DEF MyBlock, BlockOf
      <4>2. Stays => moved' = moved \ {"writer"}
        BY <2>1, <3>3, RcSets, RcLinesOf
      <4>3. AsSet(MyBlock') = AsSet(MyBlock) \ {"writer"}
        BY <4>1, RcSets, RcLinesOf DEF AsSet
      <4> QED
        BY <1>1, <4>1, <4>2, <4>3 DEF MovedInv
    <3> QED
      BY <1>1, <3>1, <3>2, <3>3 DEF F!Files
  <2> QED
    BY <1>2, <2>5, <2>6
<1> QED
  BY <1>3, <1>4

\* Failures and kills.
LEMMA RcRaise == ASSUME RcInv, F!Raise PROVE RcInv'
<1> USE RcApart DEF RcInv, Vetting, Weighed, BackedUp, Guarding, Wiring, Configuring
<1>1. /\ UNCHANGED <<disk, old, moved, touched>> /\ DOMAIN wiring = Locals
      /\ step \notin {"idle", "ended", "ask", "snapshot", "weigh", "compare", "guard_read", "guard_compare"}
  BY DEF F!Raise, RcTypes, Locals
<1>2. CASE wiring.kind = "guard"
  <2>1. step' = "ask" /\ wiring' = [wiring EXCEPT !.left = Tail(wiring.left), !.snap = None]
    BY <1>2 DEF F!Raise
  <2>2. DOMAIN wiring' = Locals /\ wiring'.kind = "guard" /\ wiring'.left = Tail(wiring.left)
    BY <1>1, <1>2, <2>1 DEF Locals
  <2>3. wiring.left \in Seq(F!Files) /\ wiring.left # <<>>
    BY <1>1, <1>2 DEF HandInv
  <2>4. Tail(wiring.left) \in Seq(F!Files)
    BY <2>3
  <2>5. RcTypes' /\ MovedInv'
    BY <1>1, <2>2, RcQuiet
  <2>6. HandInv'
    BY <1>1, <2>1, <2>2, <2>4 DEF HandInv
  <2>7. StubInv' /\ RouteInv'
    BY <2>1, <2>2, StubIdle, RouteIdle
  <2> QED
    BY <2>5, <2>6, <2>7
<1>3. CASE wiring.kind # "guard"
  <2>1. step' = "ended" /\ wiring' = [wiring EXCEPT !.error = TRUE]
    BY <1>3 DEF F!Raise
  <2>2. DOMAIN wiring' = Locals /\ wiring'.kind = wiring.kind /\ wiring'.error = TRUE
    BY <1>1, <2>1 DEF Locals
  <2>3. RcTypes' /\ MovedInv'
    BY <1>1, <2>2, RcQuiet
  <2>4. HandInv'
    BY <1>1, <2>1, <2>2 DEF HandInv
  <2>5. StubInv' /\ RouteInv'
    BY <2>1, <2>2, StubIdle, RouteIdle
  <2> QED
    BY <2>3, <2>4, <2>5
<1> QED
  BY <1>2, <1>3

LEMMA RcUnreadable == ASSUME RcInv, F!Unreadable PROVE RcInv'
<1> USE RcApart DEF RcInv, Vetting, Weighed, BackedUp, Guarding, Wiring, Configuring
<1>1. UNCHANGED <<disk, old, moved, touched>> /\ DOMAIN wiring = Locals
  BY DEF F!Unreadable, RcTypes, Locals
<1>2. CASE step = "guard_read"
  <2>1. step' = "ask" /\ wiring' = [wiring EXCEPT !.left = Tail(wiring.left), !.snap = None]
    BY <1>2 DEF F!Unreadable
  <2>2. wiring.left \in Seq(F!Files) /\ wiring.left # <<>> /\ wiring.kind = "guard"
    BY <1>2 DEF HandInv
  <2>3. DOMAIN wiring' = Locals /\ wiring'.kind = "guard" /\ wiring'.left = Tail(wiring.left)
    BY <1>1, <2>1, <2>2 DEF Locals
  <2>4. Tail(wiring.left) \in Seq(F!Files)
    BY <2>2
  <2>5. RcTypes' /\ MovedInv'
    BY <1>1, <2>3, RcQuiet
  <2>6. HandInv'
    BY <1>1, <2>1, <2>3, <2>4 DEF HandInv
  <2>7. StubInv' /\ RouteInv'
    BY <2>1, <2>3, StubIdle, RouteIdle
  <2> QED
    BY <2>5, <2>6, <2>7
<1>3. CASE step # "guard_read"
  <2>1. \/ /\ step \in {"snapshot", "weigh"} /\ step' = "read_mine"
           /\ wiring' = [wiring EXCEPT !.status = "refused", !.error = TRUE]
        \/ step = "compare" /\ step' = "put_back" /\ wiring' = [wiring EXCEPT !.error = TRUE]
    BY <1>3 DEF F!Unreadable
  <2>2. /\ DOMAIN wiring' = Locals /\ wiring'.kind = wiring.kind /\ wiring'.mode = wiring.mode
        /\ wiring'.left = wiring.left /\ wiring'.created = wiring.created /\ wiring'.snap = wiring.snap
        /\ wiring'.block = wiring.block /\ wiring'.pre = wiring.pre /\ wiring'.error = TRUE
    BY <1>1, <2>1 DEF Locals
  <2>3. RcTypes' /\ MovedInv'
    BY <1>1, <2>2, RcQuiet
  <2>4. HandInv'
    BY <1>1, <2>1, <2>2 DEF HandInv
  <2>5. StubInv'
    <3>1. CASE step \in {"snapshot", "weigh"}
      BY <1>1, <2>1, <2>2, <3>1 DEF StubInv, HandInv, MyBlock
    <3>2. CASE step = "compare"
      BY <1>1, <2>1, <2>2, <3>2 DEF StubInv, MyBlock, Inside
    <3> QED
      BY <2>1, <3>1, <3>2
  <2>6. RouteInv'
    BY <2>1, <2>2, RouteIdle
  <2> QED
    BY <2>3, <2>4, <2>5, <2>6
<1> QED
  BY <1>2, <1>3

LEMMA RcRests == ASSUME RcInv, F!Rests PROVE RcInv'
<1> USE RcApart DEF RcInv, Vetting, Weighed, BackedUp, Guarding, Wiring, Configuring
<1>1. UNCHANGED <<disk, old, moved>> /\ step' = "idle" /\ wiring' = F!Idle
  BY DEF F!Rests
<1>2. DOMAIN wiring' = Locals /\ wiring'.kind = None
  BY <1>1 DEF F!Idle, Locals
<1>3. RcTypes' /\ MovedInv'
  BY <1>1, <1>2, RcQuiet DEF RcTypes, Locals
<1>4. HandInv'
  BY <1>1, <1>2 DEF HandInv
<1>5. StubInv' /\ RouteInv'
  BY <1>1, StubIdle, RouteIdle
<1> QED
  BY <1>3, <1>4, <1>5

\* The user.
LEMMA RcTouched ==
  ASSUME NEW f, F!Edited(f)
  PROVE  /\ step = "idle" \/ touched' # {}
         /\ step = "stub" /\ "late" \notin touched' => "late" \notin touched /\ f # "shellrc"
<1>1. CASE step = "idle"
  BY <1>1 DEF F!Edited
<1>2. CASE step # "idle"
  <2>1. touched' = touched \cup {IF step = "stub" /\ f = "shellrc" THEN "late" ELSE f}
    BY <1>2 DEF F!Edited
  <2> QED
    BY <1>2, <2>1
<1> QED
  BY <1>1, <1>2

LEMMA RcEditShellrc == ASSUME RcInv, F!EditShellrc PROVE RcInv'
<1> USE RcApart
<1>1. PICK l \in SUBSET Lines :
        /\ disk' = [disk EXCEPT !.shellrc =
                      IF disk.shellrc # None /\ disk.shellrc.stub THEN [disk.shellrc EXCEPT !.lines = l] ELSE F!Text(l)]
        /\ moved' = IF old.shellrc # None /\ disk'.shellrc = old.shellrc.of THEN {} ELSE moved
  BY DEF F!EditShellrc
<1> DEFINE c == IF disk.shellrc # None /\ disk.shellrc.stub THEN [disk.shellrc EXCEPT !.lines = l] ELSE F!Text(l)
<1>2. UNCHANGED <<old, step, wiring>> /\ F!Edited("shellrc")
  BY DEF F!EditShellrc
<1>3. l \in SUBSET Words
  BY LinesAreTheUsers DEF Words
<1>4. disk.shellrc \in {None} \cup Texts /\ BlockOf(disk.shellrc) = None
  BY DEF RcInv, RcTypes, F!Files
<1>5. c \in Texts /\ c # None /\ c.block = None /\ (c.stub = TRUE => IsStub(disk.shellrc))
  <2>1. CASE disk.shellrc # None /\ disk.shellrc.stub
    <3>1. disk.shellrc \in Texts /\ disk.shellrc.block = None /\ disk.shellrc.stub = TRUE
      BY <1>4, <2>1, TextFields DEF BlockOf
    <3> QED
      BY <1>3, <2>1, <3>1, SetLines DEF IsStub
  <2>2. CASE ~(disk.shellrc # None /\ disk.shellrc.stub)
    <3>1. c = F!Text(l)
      BY <2>2
    <3> HIDE DEF c
    <3> QED
      BY <1>3, <3>1, PlainTexts, TextFields
  <2> QED
    BY <2>1, <2>2
<1>6. disk' = [disk EXCEPT !.shellrc = c]
  BY <1>1
<1> HIDE DEF c
<1>7. RcTypes' /\ disk'.shellrc = c /\ disk'.myshellrc = disk.myshellrc
  BY <1>2, <1>5, <1>6, RcWritten DEF RcInv, BlockOf, F!Files, F!Rc
<1>8. IsStub(disk'.shellrc) => IsStub(disk.shellrc)
  BY <1>5, <1>7 DEF IsStub
<1>9. MovedInv'
  BY <1>1, <1>2, <1>7, <1>8 DEF RcInv, MovedInv, MyBlock
<1>10. HandInv' /\ StubInv' /\ RouteInv'
  BY <1>1, <1>2, <1>7, <1>8, RcEdited, RcTouched DEF MyBlock
<1> QED
  BY <1>7, <1>9, <1>10 DEF RcInv

LEMMA RcMoveBack == ASSUME RcInv, F!MoveBack PROVE RcInv'
<1> USE RcApart DEF RcInv
<1>1. /\ UNCHANGED <<step, wiring>> /\ step = "idle" /\ old.shellrc # None /\ F!Edited("shellrc")
      /\ disk' = [disk EXCEPT !.shellrc = old.shellrc.of] /\ old' = [old EXCEPT !.shellrc = None]
      /\ moved' = IF old.shellrc.of.stub THEN moved ELSE {}
  BY DEF F!MoveBack
<1>2. old.shellrc.of \in Texts /\ (Stays => old.shellrc.of.stub = FALSE) /\ old.shellrc.of.block = None
  BY <1>1 DEF RcTypes
<1>3. (Stays => moved' = {}) /\ old'.shellrc = None /\ DOMAIN old' = F!Files
  BY <1>1, <1>2 DEF RcTypes, F!Files
<1>4. disk' \in [F!Files -> {None} \cup Texts] /\ disk'.shellrc = old.shellrc.of /\ (\A g \in F!Rc : disk'[g] = disk[g])
  BY <1>1, <1>2 DEF RcTypes, F!Files, F!Rc
<1>5. RcTypes'
  BY <1>1, <1>2, <1>3, <1>4 DEF RcTypes, BlockOf
<1>6. MovedInv'
  BY <1>2, <1>3, <1>4 DEF MovedInv, IsStub
<1>7. HandInv'
  BY <1>1 DEF HandInv, Vetting, Weighed, BackedUp, Guarding, Wiring, Configuring
<1>8. StubInv' /\ RouteInv'
  BY <1>1, StubIdle, RouteIdle DEF Wiring
<1> QED
  BY <1>5, <1>6, <1>7, <1>8

LEMMA RcRemoveStub == ASSUME RcInv, F!RemoveStub PROVE RcInv'
<1> USE RcApart
<1>1. /\ UNCHANGED <<old, step, wiring, moved>> /\ F!Edited("shellrc") /\ disk' = [disk EXCEPT !.shellrc = None]
  BY DEF F!RemoveStub
<1>2. RcTypes' /\ disk'.shellrc = None /\ disk'.myshellrc = disk.myshellrc
  BY <1>1, RcWritten DEF RcInv, BlockOf, F!Files, F!Rc
<1>3. ~IsStub(disk'.shellrc)
  BY <1>2 DEF IsStub
<1>4. MovedInv'
  <2>1. old.shellrc # None => old.shellrc.of # None
    BY DEF RcInv, RcTypes
  <2> QED
    BY <1>1, <1>2, <1>3, <2>1 DEF RcInv, MovedInv, MyBlock
<1>5. HandInv' /\ StubInv' /\ RouteInv'
  BY <1>1, <1>2, <1>3, RcEdited, RcTouched DEF MyBlock
<1> QED
  BY <1>2, <1>4, <1>5 DEF RcInv

LEMMA RcEditLine == ASSUME RcInv, NEW f \in F!Rc \cup {"myshellrc"}, F!EditLine(f, "shellrc") PROVE RcInv'
<1> USE RcApart
<1> DEFINE t == F!Read(f)
           L == IF "shellrc" \in t.lines THEN t.lines \ {"shellrc"} ELSE t.lines \cup {"shellrc"}
           c == [t EXCEPT !.lines = L]
<1>1. UNCHANGED <<old, step, wiring, moved>> /\ F!Edited(f) /\ disk' = [disk EXCEPT ![f] = c] /\ f \in F!Files /\ f # "shellrc"
  BY DEF F!EditLine, F!Files, F!Rc
<1>2. t \in Texts /\ (f \in F!Rc => t.block = None) /\ (f = "myshellrc" => t.block = MyBlock)
  <2>1. disk[f] \in {None} \cup Texts
    BY <1>1 DEF RcInv, RcTypes
  <2>2. f \in F!Rc => disk[f] # None /\ disk[f].block = None
    BY DEF RcInv, RcTypes
  <2> QED
    BY <2>1, <2>2, PlainTexts DEF F!Read, MyBlock, BlockOf
<1> HIDE DEF t
<1>3. L \in SUBSET Words
  BY <1>2, TextFields DEF Words
<1> HIDE DEF L
<1>4. c \in Texts /\ c # None /\ c.block = t.block
  BY <1>2, <1>3, SetLines
<1> HIDE DEF c
<1>5. RcTypes' /\ disk'[f] = c /\ disk'.shellrc = disk.shellrc /\ (f # "myshellrc" => disk'.myshellrc = disk.myshellrc)
  BY <1>1, <1>2, <1>4, RcWritten DEF RcInv
<1>6. MyBlock' = MyBlock
  BY <1>2, <1>4, <1>5 DEF MyBlock, BlockOf
<1>7. MovedInv'
  BY <1>1, <1>5, <1>6 DEF RcInv, MovedInv
<1>8. HandInv' /\ StubInv' /\ RouteInv'
  BY <1>1, <1>5, <1>6, RcEdited, RcTouched
<1> QED
  BY <1>5, <1>7, <1>8 DEF RcInv

LEMMA RcRemoveBackup == ASSUME RcInv, F!RemoveBackup PROVE RcInv'
<1>1. /\ UNCHANGED <<disk, step, wiring, moved>> /\ F!Edited("old") /\ ~Stays
      /\ old' = [old EXCEPT !.shellrc = None]
  BY DEF F!RemoveBackup, Stays
<1>2. DOMAIN old' = F!Files /\ old'.shellrc = None
  BY <1>1 DEF RcInv, RcTypes, F!Files
<1>3. RcTypes' /\ MovedInv'
  BY <1>1, <1>2 DEF RcInv, RcTypes, MovedInv, Stays
<1>4. HandInv'
  BY <1>1 DEF RcInv, HandInv, MyBlock, Stays
<1>5. StubInv'
  BY <1>1, RcTouched DEF RcInv, StubInv, MyBlock, Stays, Vetting, Weighed, BackedUp, Guarding
<1>6. RouteInv'
  BY <1>1, RouteIdle, RcTouched DEF RcInv, HandInv, Wiring, Configuring
<1> QED
  BY <1>3, <1>4, <1>5, <1>6 DEF RcInv

-----------------------------------------------------------------------------
LEMMA RcStep == RcInv /\ [F!Next]_(F!vars) => RcInv'
<1> SUFFICES ASSUME RcInv, [F!Next]_(F!vars) PROVE RcInv'
  OBVIOUS
<1>1. CASE \E mode \in Modes : F!Configure(mode)
  BY <1>1, RcConfigure
<1>2. CASE F!Snapshot
  BY <1>2, RcSnapshot
<1>3. CASE F!Vet
  BY <1>3, RcVet
<1>4. CASE F!Weigh
  BY <1>4, RcWeigh
<1>5. CASE F!ReadBefore
  BY <1>5, RcReadBefore
<1>6. CASE F!Merge
  BY <1>6, RcMerge
<1>7. CASE F!Create
  BY <1>7, RcCreate
<1>8. CASE F!Fill
  BY <1>8, RcFill
<1>9. CASE F!Compare
  BY <1>9, RcCompare
<1>10. CASE F!PutBack
  BY <1>10, RcPutBack
<1>11. CASE F!Drop
  BY <1>11, RcDrop
<1>12. CASE F!WriteStub
  BY <1>12, RcWriteStub
<1>13. CASE F!ReadMine
  BY <1>13, RcReadMine
<1>14. CASE F!WritePath
  BY <1>14, RcWritePath
<1>15. CASE F!Route
  BY <1>15, RcRoute
<1>16. CASE F!ReadRc
  BY <1>16, RcReadRc
<1>17. CASE F!WriteRc
  BY <1>17, RcWriteRc
<1>18. CASE F!Inline
  BY <1>18, RcInline
<1>19. CASE F!WriteInline
  BY <1>19, RcWriteInline
<1>20. CASE F!Scan
  BY <1>20, RcScan
<1>21. CASE F!Ask
  BY <1>21, RcAsk
<1>22. CASE F!GuardRead
  BY <1>22, RcGuardRead
<1>23. CASE F!GuardCompare
  BY <1>23, RcGuardCompare
<1>24. CASE F!Guard
  BY <1>24, RcGuard
<1>25. CASE F!Preview
  BY <1>25, RcPreview
<1>26. CASE F!Clean
  BY <1>26, RcClean
<1>27. CASE F!Raise
  BY <1>27, RcRaise
<1>28. CASE F!Unreadable
  BY <1>28, RcUnreadable
<1>29. CASE F!Return \/ F!Kill
  BY <1>29, RcRests DEF F!Return, F!Kill
<1>30. CASE F!EditShellrc
  BY <1>30, RcEditShellrc
<1>31. CASE F!MoveBack
  BY <1>31, RcMoveBack
<1>32. CASE F!RemoveBackup
  BY <1>32, RcRemoveBackup
<1>33. CASE F!RemoveStub
  BY <1>33, RcRemoveStub
<1>34. CASE F!EditLine("myshellrc", "shellrc") \/ \E f \in F!Rc : F!EditLine(f, "shellrc")
  BY <1>34, RcEditLine
<1>35. CASE UNCHANGED F!vars
  <2>1. UNCHANGED <<disk, old, step, wiring, moved, touched>>
    BY <1>35 DEF F!vars
  <2>2. RcTypes' /\ MovedInv'
    BY <2>1, RcQuiet DEF RcInv
  <2>3. HandInv'
    BY <2>1 DEF RcInv, HandInv, MyBlock
  <2>4. StubInv'
    BY <2>1 DEF RcInv, StubInv, Inside, MyBlock
  <2>5. RouteInv'
    BY <2>1 DEF RcInv, RouteInv, Undisturbed, Stubbed, SourcesIt
  <2> QED
    BY <2>2, <2>3, <2>4, <2>5 DEF RcInv
<1> QED
  BY <1>1, <1>2, <1>3, <1>4, <1>5, <1>6, <1>7, <1>8, <1>9, <1>10, <1>11, <1>12, <1>13, <1>14, <1>15, <1>16, <1>17,
     <1>18, <1>19, <1>20, <1>21, <1>22, <1>23, <1>24, <1>25, <1>26, <1>27, <1>28, <1>29, <1>30, <1>31, <1>32, <1>33,
     <1>34, <1>35 DEF F!Next

\* The steps that BackupInv says nothing of, and those that leave what it speaks of alone.
LEMMA BackupIdle ==
  ASSUME \/ step' \notin {"read_mine"} \cup Vetting \cup Weighed \cup BackedUp
         \/ step' = "read_mine" /\ (wiring'.status # "refused" \/ wiring'.snap = None)
  PROVE  BackupInv'
  BY DEF BackupInv, Vetting, Weighed, BackedUp

LEMMA BackupSame ==
  ASSUME BackupInv, UNCHANGED <<old, step, wiring>>, "old" \notin touched' => "old" \notin touched
  PROVE  BackupInv'
  BY DEF BackupInv

\* A user's edit while a run is under way.
LEMMA BackupEdited ==
  ASSUME BackupInv, NEW f, F!Edited(f), UNCHANGED <<step, wiring>>, f # "old" => UNCHANGED old
  PROVE  BackupInv'
<1>1. CASE step = "idle"
  BY <1>1, BackupIdle DEF Vetting, Weighed, BackedUp
<1>2. CASE step # "idle"
  <2>1. touched' = touched \cup {IF step = "stub" /\ f = "shellrc" THEN "late" ELSE f}
    BY <1>2 DEF F!Edited
  <2>2. CASE f = "old"
    BY <2>1, <2>2 DEF BackupInv
  <2>3. CASE f # "old"
    BY <2>1, <2>3, BackupSame
  <2> QED
    BY <2>2, <2>3
<1> QED
  BY <1>1, <1>2

\* A consolidation up to its backup: what it found is what is there.
LEMMA BackupBefore ==
  ASSUME RcInv, BackupInv, F!Snapshot \/ F!Vet \/ F!Weigh \/ F!ReadBefore \/ F!Merge
  PROVE  BackupInv'
<1> USE DEF Vetting, Weighed, BackedUp
<1>1. UNCHANGED <<old, touched>> /\ DOMAIN wiring = Locals
  BY DEF F!Snapshot, F!Vet, F!Weigh, F!ReadBefore, F!Merge, F!Answers, F!Goes, F!Writes, RcInv, RcTypes, Locals
<1>2. CASE F!Snapshot
  <2>1. CASE disk.shellrc = None \/ disk.shellrc.stub
    <3>1. step' = "read_mine" /\ wiring.snap = None
      BY <1>2, <2>1 DEF F!Snapshot, F!Answers, F!Goes, RcInv, HandInv
    <3>2. wiring'.snap = wiring.snap
      BY <1>1, <1>2, <2>1 DEF F!Snapshot, F!Answers, F!Goes, Locals
    <3> QED
      BY <3>1, <3>2, BackupIdle
  <2>2. CASE ~(disk.shellrc = None \/ disk.shellrc.stub)
    <3>1. step' = "vet" /\ wiring'.backup = old.shellrc
      BY <1>1, <1>2, <2>2 DEF F!Snapshot, F!Goes, Locals
    <3> QED
      BY <1>1, <3>1 DEF BackupInv
  <2> QED
    BY <2>1, <2>2
<1>3. CASE F!Vet \/ F!Weigh \/ F!ReadBefore \/ F!Merge
  <2>1. /\ step \in {"vet", "weigh", "pre", "merge"}
        /\ step' \in {"read_mine", "weigh", "pre", "merge", "create"}
        /\ wiring'.backup = wiring.backup
    BY <1>1, <1>3 DEF F!Vet, F!Weigh, F!ReadBefore, F!Merge, F!Answers, F!Goes, F!Writes, Locals
  <2> QED
    BY <1>1, <2>1 DEF BackupInv
<1> QED
  BY <1>2, <1>3

\* The backup, and the way back.
LEMMA BackupMade ==
  ASSUME RcInv, BackupInv, F!Create \/ F!Fill \/ F!Compare \/ F!PutBack \/ F!Drop \/ F!WriteStub
  PROVE  BackupInv'
<1> USE RcApart DEF Vetting, Weighed, BackedUp
<1>1. UNCHANGED touched /\ DOMAIN wiring = Locals /\ DOMAIN old = F!Files
  BY DEF F!Create, F!Fill, F!Compare, F!PutBack, F!Drop, F!WriteStub, F!Goes, F!Writes, RcInv, RcTypes, Locals
<1>2. CASE F!Create
  <2>1. CASE step = "create" /\ old.shellrc # None
    <3>1. UNCHANGED <<old, wiring>> /\ step' = "compare" /\ wiring.created = FALSE
      BY <1>2, <2>1 DEF F!Create, F!Goes, RcInv, StubInv
    <3> QED
      BY <1>1, <2>1, <3>1 DEF BackupInv
  <2>2. CASE step = "create" /\ old.shellrc = None
    <3>1. step' = "fill" /\ wiring' = [wiring EXCEPT !.created = TRUE]
      BY <1>2, <2>2 DEF F!Create
    <3>2. wiring'.created = TRUE /\ wiring'.backup = wiring.backup
      BY <1>1, <3>1 DEF Locals
    <3> QED
      BY <1>1, <2>2, <3>1, <3>2 DEF BackupInv
  <2>3. CASE step # "create"
    <3>1. step' \in {"guard_compare", "guard_fill"}
      BY <1>2, <2>3 DEF F!Create, F!Goes
    <3> QED
      BY <3>1, BackupIdle
  <2> QED
    BY <2>1, <2>2, <2>3
<1>3. CASE F!Fill
  <2>1. CASE step = "fill"
    BY <1>1, <1>3, <2>1 DEF F!Fill, BackupInv
  <2>2. CASE step # "fill"
    BY <1>3, <2>2, BackupIdle DEF F!Fill
  <2> QED
    BY <2>1, <2>2
<1>4. CASE F!Compare \/ F!PutBack
  <2>1. /\ UNCHANGED <<old, wiring>> /\ step \in {"compare", "put_back"}
        /\ step' \in {"stub", "put_back", "drop"}
    BY <1>4 DEF F!Compare, F!PutBack, F!Goes, F!Writes
  <2> QED
    BY <1>1, <2>1 DEF BackupInv
<1>5. CASE F!Drop
  <2>1. /\ step = "drop" /\ step' = "read_mine"
        /\ old' = [old EXCEPT !.shellrc = IF wiring.created THEN None ELSE old.shellrc]
        /\ wiring' = [wiring EXCEPT !.status = "refused"]
    BY <1>5 DEF F!Drop
  <2>2. wiring'.backup = wiring.backup
    BY <1>1, <2>1 DEF Locals
  <2>3. old'.shellrc = IF wiring.created THEN None ELSE old.shellrc
    BY <1>1, <2>1 DEF F!Files
  <2> QED
    BY <1>1, <2>1, <2>2, <2>3 DEF BackupInv
<1>6. CASE F!WriteStub
  <2>1. step' = "read_mine" /\ wiring'.status = "consolidated"
    BY <1>1, <1>6 DEF F!WriteStub, F!Writes, Locals
  <2> QED
    BY <2>1, BackupIdle
<1> QED
  BY <1>2, <1>3, <1>4, <1>5, <1>6

\* A call of a consolidation that answers its own OSError.
LEMMA BackupUnreadable == ASSUME RcInv, BackupInv, F!Unreadable PROVE BackupInv'
<1> USE DEF Vetting, Weighed, BackedUp
<1>1. UNCHANGED <<old, touched>> /\ DOMAIN wiring = Locals
  BY DEF F!Unreadable, RcInv, RcTypes, Locals
<1>2. CASE step = "guard_read"
  BY <1>2, BackupIdle DEF F!Unreadable
<1>3. CASE step \in {"snapshot", "weigh"}
  <2>1. step' = "read_mine" /\ wiring' = [wiring EXCEPT !.status = "refused", !.error = TRUE]
    BY <1>3 DEF F!Unreadable
  <2>2. wiring'.snap = wiring.snap /\ wiring'.backup = wiring.backup
    BY <1>1, <2>1 DEF Locals
  <2>3. step = "snapshot" => wiring.snap = None
    BY DEF RcInv, HandInv
  <2> QED
    BY <1>1, <1>3, <2>1, <2>2, <2>3, BackupIdle DEF BackupInv
<1>4. CASE step = "compare"
  <2>1. step' = "put_back" /\ wiring' = [wiring EXCEPT !.error = TRUE]
    BY <1>4 DEF F!Unreadable
  <2>2. wiring'.created = wiring.created /\ wiring'.backup = wiring.backup
    BY <1>1, <2>1 DEF Locals
  <2> QED
    BY <1>1, <1>4, <2>1, <2>2 DEF BackupInv
<1> QED
  BY <1>2, <1>3, <1>4 DEF F!Unreadable

\* The rest of a run: the wiring, the guard chain, and the ends.
LEMMA BackupElsewhere ==
  ASSUME RcInv,
         \/ \E mode \in Modes : F!Configure(mode)
         \/ F!ReadMine \/ F!WritePath \/ F!Route \/ F!ReadRc \/ F!WriteRc \/ F!Inline \/ F!WriteInline
         \/ F!Scan \/ F!Ask \/ F!GuardRead \/ F!GuardCompare \/ F!Guard \/ F!Preview \/ F!Clean
         \/ F!Raise \/ F!Return \/ F!Kill
  PROVE  BackupInv'
<1>1. step' \in {"snapshot", "inline", "path", "route", "read_rc", "rc", "ended", "write_inline", "ask", "idle",
                 "guard_read", "guard_create", "guard", "clean"}
  BY DEF F!Configure, F!ReadMine, F!WritePath, F!Route, F!ReadRc, F!WriteRc, F!Inline, F!WriteInline, F!Scan,
         F!Ask, F!GuardRead, F!GuardCompare, F!Guard, F!Preview, F!Clean, F!Raise, F!Return, F!Kill, F!Rests,
         F!Begin, F!Goes, F!Writes, F!Ends, F!NextFile
<1> QED
  BY <1>1, BackupIdle DEF Vetting, Weighed, BackedUp

LEMMA BackupStep == RcInv /\ BackupInv /\ [F!Next]_(F!vars) => BackupInv'
<1> SUFFICES ASSUME RcInv, BackupInv, [F!Next]_(F!vars) PROVE BackupInv'
  OBVIOUS
<1>1. CASE F!Snapshot \/ F!Vet \/ F!Weigh \/ F!ReadBefore \/ F!Merge
  BY <1>1, BackupBefore
<1>2. CASE F!Create \/ F!Fill \/ F!Compare \/ F!PutBack \/ F!Drop \/ F!WriteStub
  BY <1>2, BackupMade
<1>3. CASE F!Unreadable
  BY <1>3, BackupUnreadable
<1>4. CASE F!EditShellrc \/ F!RemoveStub
  <2>1. UNCHANGED <<old, step, wiring>> /\ F!Edited("shellrc")
    BY <1>4 DEF F!EditShellrc, F!RemoveStub
  <2> QED
    BY <2>1, BackupEdited
<1>5. CASE F!EditLine("myshellrc", "shellrc") \/ \E f \in F!Rc : F!EditLine(f, "shellrc")
  <2>1. PICK f \in F!Rc \cup {"myshellrc"} : F!EditLine(f, "shellrc")
    BY <1>5
  <2>2. UNCHANGED <<old, step, wiring>> /\ F!Edited(f)
    BY <2>1 DEF F!EditLine
  <2> QED
    BY <2>2, BackupEdited
<1>6. CASE F!MoveBack
  BY <1>6, BackupIdle DEF F!MoveBack, Vetting, Weighed, BackedUp
<1>7. CASE F!RemoveBackup
  <2>1. UNCHANGED <<step, wiring>> /\ F!Edited("old")
    BY <1>7 DEF F!RemoveBackup
  <2> QED
    BY <2>1, BackupEdited
<1>8. CASE UNCHANGED F!vars
  BY <1>8, BackupSame DEF F!vars
<1> QED
  BY <1>1, <1>2, <1>3, <1>4, <1>5, <1>6, <1>7, <1>8, BackupElsewhere DEF F!Next

LEMMA RcLives == FilesSpec => [](about = "startup" => RcInv /\ BackupInv)
<1>1. FilesInit => (about = "startup" => RcInv /\ BackupInv)
  BY RcStart DEF FilesInit, F!Init, BackupInv, Vetting, Weighed, BackedUp
<1>2. (about = "startup" => RcInv /\ BackupInv) /\ [FilesNext]_<<about, vars, shared, rcVars, omzVars>>
      => (about = "startup" => RcInv /\ BackupInv)'
  BY OneFile, RcStep, BackupStep
<1> QED
  BY <1>1, <1>2, PTL DEF FilesSpec

(***************************************************************************)
(* Every line of the user's that a stub took the place of is in the        *)
(* consolidated block or in the backup, and where a stub is in place a     *)
(* whole backup is, of a user who does not remove it (shellrc.py 1018,     *)
(* 1024).                                                                  *)
(***************************************************************************)
THEOREM ContentAlwaysKept == ASSUME DropsOld = FALSE PROVE FilesSpec => []ContentIsKept
<1>1. (about = "startup" => RcInv /\ BackupInv) => ContentIsKept
  <2> SUFFICES ASSUME RcInv PROVE F!ContentIsKept /\ F!MvRestores
    BY DEF ContentIsKept
  <2>1. F!Block = AsSet(MyBlock)
    BY DEF F!Block, AsSet, MyBlock, BlockOf
  <2>2. F!ContentIsKept
    BY <2>1 DEF RcInv, MovedInv, Stays, F!ContentIsKept
  <2>3. disk.shellrc # None /\ disk.shellrc.stub => IsStub(disk.shellrc)
    <3>1. disk.shellrc \in {None} \cup Texts
      BY DEF RcInv, RcTypes, F!Files
    <3> QED
      BY <3>1, TextFields DEF IsStub
  <2>4. F!MvRestores
    BY <2>3 DEF RcInv, MovedInv, Stays, F!MvRestores
  <2> QED
    BY <2>2, <2>4
<1> QED
  BY <1>1, RcLives, PTL

(***************************************************************************)
(* A refused consolidation, the one that finds ~/.shellrc changed under it *)
(* included, leaves the block of ~/.myshellrc and the backup as it found   *)
(* them, but for a file the user edited meanwhile (shellrc.py 1094-1108).  *)
(***************************************************************************)
THEOREM RefusedAlwaysUndone == FilesSpec => []RefusedIsUndone
<1>1. (about = "startup" => RcInv /\ BackupInv) => RefusedIsUndone
  <2> SUFFICES ASSUME RcInv, BackupInv PROVE F!RefusedIsUndone
    BY DEF RefusedIsUndone
  <2>1. F!Read("myshellrc").block = MyBlock
    BY PlainTexts DEF F!Read, MyBlock, BlockOf
  <2> QED
    BY <2>1 DEF RcInv, StubInv, BackupInv, F!RefusedIsUndone
<1> QED
  BY <1>1, RcLives, PTL

(***************************************************************************)
(* After a run that wired the shells, failed nowhere and met no edit, each *)
(* rc file it wired reaches ~/.myshellrc by exactly one route (app.py      *)
(* 245).                                                                   *)
(***************************************************************************)
THEOREM OneRouteAlways == FilesSpec => []OneRoute
<1>1. (about = "startup" => RcInv /\ BackupInv) => OneRoute
  <2> SUFFICES ASSUME RcInv PROVE F!OneRoute
    BY DEF OneRoute
  <2> SUFFICES ASSUME step = "ended", wiring.kind = "configure", wiring.mode # "split", ~wiring.error, touched = {},
                      NEW i \in DOMAIN F!RcPaths(wiring.mode)
               PROVE  \E route \in {"block", "stub"} : F!Routes(F!RcPaths(wiring.mode)[i]) = {route}
    BY DEF F!OneRoute
  <2> DEFINE f == F!RcPaths(wiring.mode)[i]
  <2>1. f \in Paths(wiring.mode) /\ f \in F!Rc
    BY DEF F!RcPaths, F!RcList, Paths, F!Rc
  <2> HIDE DEF f
  <2>2. (disk[f].source = TRUE <=> ~(Stubbed /\ SourcesIt(f))) /\ (Stubbed <=> IsStub(disk.shellrc))
    <3>1. Undisturbed
      BY DEF RcInv, HandInv, Undisturbed
    <3>2. wiring.left = <<>>
      BY <3>1 DEF RcInv, RouteInv
    <3>3. f \in Paths(wiring.mode) \ Ahead(wiring.left)
      BY <2>1, <3>2, RcLefts
    <3> QED
      BY <3>1, <3>3 DEF RcInv, RouteInv
  <2>3. /\ disk[f].source \in BOOLEAN
        /\ disk.shellrc # None /\ disk.shellrc.stub <=> IsStub(disk.shellrc)
    BY <2>1, TextFields DEF RcInv, RcTypes, F!Files, IsStub
  <2>4. F!Routes(f) = {"stub"} \/ F!Routes(f) = {"block"}
    BY <2>2, <2>3 DEF F!Routes, SourcesIt
  <2> QED
    BY <2>4 DEF f
<1> QED
  BY <1>1, RcLives, PTL
-----------------------------------------------------------------------------
(***************************************************************************)
(* A file f, the file b it would be without the installer, the entries of  *)
(* a ledger, and the keys that look like ours.                             *)
(***************************************************************************)
\* A key differs only by our value, and its entry says what was there.
Differs(f, b, entries, look) ==
  \A k \in Keys \ look : f.key[k] # b.key[k] =>
    /\ f.key[k] = "ours" /\ k \in DOMAIN entries
    /\ b.key[k] = IF entries[k].replaced THEN "dflt" ELSE "absent"

\* A recorded key that is ours for the user, too, looks like ours.
Looks(b, entries, look) == \A k \in DOMAIN entries : b.key[k] = "ours" => k \in look

SameContent(f, b) ==
  /\ f.extra = b.extra /\ (f.parent = "scalar") = (b.parent = "scalar")
  /\ b.extra \/ b.parent = "scalar" => f.there

\* What looks like ours is ours for the user, too.
Alike(b, look) == look \subseteq {k \in Keys : b.key[k] = "ours"}

\* A nested key has its parent.
Nests(d) == d.parent # "object" => Present(d) = {}

(***************************************************************************)
(* A run that has read: what it will write is computed from what it read,  *)
(* and the ledger on disk is the old one or, from the reservation on, the  *)
(* planned one.  An edit makes a key of the file and of its history agree, *)
(* so both ledgers stay right about the file under any edit.               *)
(***************************************************************************)
Reading == {"idle", "read"}

ApplyInv ==
  /\ run.new = Applied(run.snap, run.setting)
  /\ run.plan.entries = KeptEntries(run.led.entries, run.snap, run.setting)
  /\ Differs(file, base, run.plan.entries, lookalike)
  /\ pc \in {"reserve", "compare", "replace", "rollback"}
  /\ pc = "reserve" => ledger.entries = run.led.entries
  /\ pc # "reserve" => ledger.entries = run.plan.entries
  /\ pc = "reserve" /\ run.then = "end" => Written(run.snap, run.setting) = {}

RevertInv ==
  /\ run.new = Reverted(run.snap, run.led, run.setting)
  /\ run.plan = Remaining(run.led, run.setting)
  /\ ledger.entries = run.led.entries
  /\ pc \in {"compare", "replace", "record"}
  /\ pc = "record" => Differs(file, base, run.plan.entries, lookalike)

\* What the write that was agreed on makes of the file, whatever is edited until then.
AgreedInv ==
  /\ run.agreed[1] \in Docs /\ Alike(run.agreed[1], run.agreed[2])
  /\ Differs(run.new, run.agreed[1], run.plan.entries, run.agreed[2])
  /\ SameContent(run.new, run.agreed[1])
  /\ Looks(run.agreed[1], run.led.entries, run.agreed[2])
  /\ run.kind = "apply" => Looks(run.agreed[1], run.plan.entries, run.agreed[2])

RunInv ==
  /\ aside = None /\ run.setting \in Settings /\ run.kind \in {"apply", "revert"}
  /\ run.led \in Ledgers /\ run.plan \in Ledgers /\ ~run.led.bad
  /\ run.snap \in Docs /\ run.new \in Docs /\ Nests(run.snap) /\ Nests(run.new)
  /\ Differs(file, base, run.led.entries, lookalike)
  /\ Looks(base, run.led.entries, lookalike)
  /\ run.kind = "apply" => ApplyInv
  /\ run.kind = "revert" => RevertInv
  /\ pc = "replace" => AgreedInv

\* The fields of a run, whatever they hold.
RunFields ==
  run = [kind |-> run.kind, setting |-> run.setting, attempt |-> run.attempt, led |-> run.led,
         snap |-> run.snap, new |-> run.new, plan |-> run.plan, then |-> run.then,
         agreed |-> run.agreed]

FileInv ==
  /\ file \in Docs /\ base \in Docs /\ Nests(file)
  /\ Alike(base, lookalike) /\ SameContent(file, base)

LedgerInv ==
  /\ ledger \in Ledgers /\ aside \in Ledgers \cup {None}
  /\ aside # None => ledger = NoLedger /\ pc \in Reading

SettingsInv ==
  /\ FileInv /\ LedgerInv /\ RunFields
  /\ pc \in Reading \cup {"reserve", "compare", "replace", "rollback", "record"}
  /\ Differs(file, base, Book.entries, lookalike)
  /\ pc \in Reading => Looks(base, Book.entries, lookalike)
  /\ pc = "read" => run.setting \in Settings /\ run.kind \in {"apply", "revert"}
  /\ pc \notin Reading => RunInv
-----------------------------------------------------------------------------
(***************************************************************************)
(* What the operators on documents and ledgers return.                     *)
(***************************************************************************)
DocKeys == {"absent", "ours", "other", "dflt"}

LEMMA DocFields ==
  ASSUME NEW d \in Docs
  PROVE  /\ d.there \in BOOLEAN /\ d.ok \in BOOLEAN /\ d.extra \in BOOLEAN
         /\ d.parent \in {"none", "object", "scalar"}
         /\ d.key \in [Keys -> DocKeys] /\ \A k \in Keys : d.key[k] \in DocKeys
  BY DEF Docs, DocKeys

LEMMA KeysHold ==
  /\ \A s \in Settings : KeysOf(s) \subseteq Keys
  /\ Nested \subseteq Keys
  /\ Missing \in Docs /\ NoLedger \in Ledgers /\ NoLedger.entries = [k \in {} |-> None]
<1>1. \A s \in Settings : KeysOf(s) \subseteq Keys
  BY DEF Keys
<1>2. NoKeys \in [Keys -> {"absent", "ours", "other", "dflt"}]
  BY DEF NoKeys
<1>3. Missing \in Docs
  BY <1>2 DEF Missing, Docs
<1>4. [k \in {} |-> None] \in [{} -> [createdParent : BOOLEAN, replaced : BOOLEAN]]
  OBVIOUS
<1>5. NoLedger.entries \in UNION {[recorded -> [createdParent : BOOLEAN, replaced : BOOLEAN]] :
                                    recorded \in SUBSET Keys}
  <2>1. NoLedger.entries = [k \in {} |-> None] /\ {} \in SUBSET Keys
    BY DEF NoLedger
  <2> QED
    BY <1>4, <2>1
<1>6. NoLedger \in Ledgers
  BY <1>5 DEF NoLedger, Ledgers
<1> QED
  BY <1>1, <1>3, <1>6, SettingsAssumption DEF NoLedger

LEMMA LedgerFields ==
  ASSUME NEW l \in Ledgers
  PROVE  /\ DOMAIN l.entries \subseteq Keys
         /\ \A k \in DOMAIN l.entries : l.entries[k].createdParent \in BOOLEAN /\ l.entries[k].replaced \in BOOLEAN
         /\ l.created \in BOOLEAN /\ l.bad \in BOOLEAN
         /\ l.entries \in UNION {[recorded -> [createdParent : BOOLEAN, replaced : BOOLEAN]] :
                                   recorded \in SUBSET Keys}
         /\ \A b \in BOOLEAN : [l EXCEPT !.bad = b] \in Ledgers /\ [l EXCEPT !.bad = b].entries = l.entries
<1>1. l.entries \in UNION {[recorded -> [createdParent : BOOLEAN, replaced : BOOLEAN]] :
                             recorded \in SUBSET Keys}
  BY DEF Ledgers
<1>2. PICK recorded \in SUBSET Keys :
        l.entries \in [recorded -> [createdParent : BOOLEAN, replaced : BOOLEAN]]
  BY <1>1
<1>3. \A b \in BOOLEAN : [l EXCEPT !.bad = b] \in Ledgers /\ [l EXCEPT !.bad = b].entries = l.entries
  BY DEF Ledgers
<1> QED
  BY <1>1, <1>2, <1>3 DEF Ledgers

\* A ledger that is made of its parts.
LEMMA LedgerMade ==
  ASSUME NEW recorded \in SUBSET Keys,
         NEW entries \in [recorded -> [createdParent : BOOLEAN, replaced : BOOLEAN]],
         NEW created \in BOOLEAN, NEW bad \in BOOLEAN
  PROVE  [entries |-> entries, created |-> created, bad |-> bad] \in Ledgers
  BY DEF Ledgers

LEMMA AppliedDoc ==
  ASSUME NEW d \in Docs, Nests(d), NEW s \in Settings
  PROVE  LET new == Applied(d, s) IN
         /\ new \in Docs /\ Nests(new) /\ new.extra = d.extra
         /\ (new.parent = "scalar") = (d.parent = "scalar") /\ (d.there => new.there)
         /\ \A k \in Keys : new.key[k] = IF k \in Written(d, s) THEN "ours" ELSE d.key[k]
<1> DEFINE new == Applied(d, s)
           w == Written(d, s)
<1>1. w \subseteq Keys
  BY KeysHold DEF Written
<1>2. /\ new.there = (d.there \/ w # {}) /\ new.ok = d.ok /\ new.extra = d.extra
      /\ new.key = [k \in Keys |-> IF k \in w THEN "ours" ELSE d.key[k]]
      /\ new.parent = IF w \cap Nested # {} THEN "object" ELSE d.parent
  <2>1. d = [there |-> d.there, ok |-> d.ok, parent |-> d.parent, extra |-> d.extra, key |-> d.key]
    BY DEF Docs
  <2> QED
    BY <2>1 DEF Applied
<1>3. new.key \in [Keys -> {"absent", "ours", "other", "dflt"}]
  BY <1>2, DocFields DEF DocKeys
<1>4. new \in Docs
  <2>1. (new.there \in BOOLEAN) /\ (new.parent \in {"none", "object", "scalar"})
    BY <1>2, DocFields
  <2> QED
    BY <1>2, <1>3, <2>1, DocFields DEF Applied, Docs
<1>5. d.parent = "scalar" => w \cap Nested = {}
  BY DEF Written, Dropped
<1>6. Nests(new)
  <2>1. CASE w \cap Nested # {}
    BY <1>2, <2>1 DEF Nests
  <2>2. CASE w \cap Nested = {}
    <3>1. \A k \in Nested : new.key[k] = d.key[k]
      BY <1>2, <2>2, KeysHold
    <3>2. Present(new) = Present(d)
      BY <3>1 DEF Present
    <3> QED
      BY <1>2, <2>2, <3>2 DEF Nests
  <2> QED
    BY <2>1, <2>2
<1> QED
  BY <1>2, <1>4, <1>5, <1>6

LEMMA KeptLedger ==
  ASSUME NEW d \in Docs, NEW s \in Settings, NEW l \in Ledgers
  PROVE  LET e == KeptEntries(l.entries, d, s) IN
         /\ DOMAIN e = (DOMAIN l.entries \ Dropped(d, s)) \cup Written(d, s)
         /\ \A k \in Written(d, s) : e[k].replaced = (d.key[k] = "dflt")
         /\ \A k \in DOMAIN e \ Written(d, s) : e[k] = l.entries[k]
         /\ \A c, b \in BOOLEAN : [entries |-> e, created |-> c, bad |-> b] \in Ledgers
<1> DEFINE e == KeptEntries(l.entries, d, s)
           dom == (DOMAIN l.entries \ Dropped(d, s)) \cup Written(d, s)
<1>1. DOMAIN e = dom
  BY DEF KeptEntries
<1>2. \A k \in Written(d, s) : e[k] = Entry(d, s, k)
  BY DEF KeptEntries
<1>3. \A k \in DOMAIN e \ Written(d, s) : e[k] = l.entries[k]
  BY DEF KeptEntries
<1>4. \A k : Entry(d, s, k) \in [createdParent : BOOLEAN, replaced : BOOLEAN] /\ Entry(d, s, k).replaced = (d.key[k] = "dflt")
  BY DEF Entry, FirstNested
<1>5. PICK recorded \in SUBSET Keys :
        l.entries \in [recorded -> [createdParent : BOOLEAN, replaced : BOOLEAN]]
  BY LedgerFields
<1>6. dom \in SUBSET Keys
  BY <1>5, KeysHold DEF Written
<1>7. e \in [dom -> [createdParent : BOOLEAN, replaced : BOOLEAN]]
  <2>1. e = [k \in dom |-> IF k \in Written(d, s) THEN Entry(d, s, k) ELSE l.entries[k]]
    BY DEF KeptEntries
  <2>2. \A k \in dom : (IF k \in Written(d, s) THEN Entry(d, s, k) ELSE l.entries[k])
                         \in [createdParent : BOOLEAN, replaced : BOOLEAN]
    BY <1>4, <1>5
  <2> HIDE DEF dom, e
  <2> QED
    BY <2>1, <2>2
<1>8. \A c, b \in BOOLEAN : [entries |-> e, created |-> c, bad |-> b] \in Ledgers
  BY <1>6, <1>7, LedgerMade
<1> QED
  BY <1>1, <1>2, <1>3, <1>4, <1>8

LEMMA RevertedDoc ==
  ASSUME NEW d \in Docs, Nests(d), NEW s \in Settings, NEW l \in Ledgers
  PROVE  LET new == Reverted(d, l, s) IN
         /\ new \in Docs /\ Nests(new) /\ new.extra = d.extra
         /\ (new.parent = "scalar") = (d.parent = "scalar")
         /\ new.there \/ (~new.extra /\ new.parent # "scalar") \/ ~d.there
         /\ \A k \in Keys : new.key[k] = IF k \in Gone(d, l, s) THEN "absent"
                                         ELSE IF k \in Held(d, l, s) THEN "dflt" ELSE d.key[k]
<1> DEFINE p == RevertPass(d, l, s)
           gone == Gone(d, l, s)
           held == Held(d, l, s)
<1>1. gone \subseteq held /\ held \subseteq Keys /\ \A k \in held : d.key[k] = "ours"
  BY KeysHold DEF Gone, Held, Mine
<1>2. /\ p.there = d.there /\ p.ok = d.ok /\ p.extra = d.extra
      /\ p.key = [k \in Keys |-> IF k \in gone THEN "absent" ELSE IF k \in held THEN "dflt" ELSE d.key[k]]
      /\ p.parent = IF (\E k \in gone \cap Nested : l.entries[k].createdParent) /\ Present(d) \subseteq gone THEN "none" ELSE d.parent
  <2>1. d = [there |-> d.there, ok |-> d.ok, parent |-> d.parent, extra |-> d.extra, key |-> d.key]
    BY DEF Docs
  <2> QED
    BY <2>1 DEF RevertPass
<1>3. p.key \in [Keys -> {"absent", "ours", "other", "dflt"}]
  BY <1>2, DocFields DEF DocKeys
<1>4. p \in Docs
  BY <1>2, <1>3, DocFields DEF RevertPass, Docs
<1> HIDE DEF gone, held
<1>5. Present(d) \subseteq gone => Present(p) = {}
  BY <1>1, <1>2, KeysHold DEF Present
<1>6. Present(p) \subseteq Present(d)
  BY <1>1, <1>2, KeysHold DEF Present
<1>7. Nests(p)
  BY <1>2, <1>5, <1>6 DEF Nests
<1>8. (p.parent = "scalar") = (d.parent = "scalar")
  <2>1. CASE p.parent = d.parent
    BY <2>1
  <2>2. CASE p.parent # d.parent
    <3>1. PICK k \in gone \cap Nested : l.entries[k].createdParent
      BY <1>2, <2>2
    <3>2. k \in Present(d)
      BY <1>1, <3>1 DEF Present
    <3>3. d.parent = "object"
      BY <3>2 DEF Nests
    <3> QED
      BY <1>2, <2>2, <3>3
  <2> QED
    BY <2>1, <2>2
<1>9. CASE Reverted(d, l, s) = p
  <2>1. \A k \in Keys : p.key[k] = IF k \in gone THEN "absent" ELSE IF k \in held THEN "dflt" ELSE d.key[k]
    BY <1>2
  <2>2. p.there \/ ~d.there
    BY <1>2, DocFields
  <2> QED
    BY <1>2, <1>4, <1>7, <1>8, <1>9, <2>1, <2>2 DEF gone, held
<1>10. CASE Reverted(d, l, s) # p
  <2>1. Reverted(d, l, s) = Missing /\ Bare(p)
    BY <1>10 DEF Reverted
  <2>2. /\ Missing.extra = FALSE /\ Missing.parent = "none" /\ Missing.key = NoKeys /\ Missing \in Docs
        /\ \A k \in Keys : NoKeys[k] = "absent"
    BY KeysHold DEF Missing, NoKeys
  <2>3. p.key = NoKeys /\ p.parent = "none" /\ ~p.extra
    BY <2>1 DEF Bare
  <2>4. Nests(Missing)
    BY <2>2, KeysHold DEF Nests, Present
  <2>5. Missing.extra = d.extra
    BY <1>2, <2>2, <2>3, DocFields
  <2>6. \A k \in Keys : Missing.key[k] = IF k \in gone THEN "absent"
                                           ELSE IF k \in held THEN "dflt" ELSE d.key[k]
    BY <1>2, <2>2, <2>3
  <2>7. (Missing.parent = "scalar") = (d.parent = "scalar")
    BY <1>8, <2>2, <2>3
  <2> QED
    BY <2>1, <2>2, <2>4, <2>5, <2>6, <2>7 DEF gone, held
<1> QED
  BY <1>9, <1>10
-----------------------------------------------------------------------------
(***************************************************************************)
(* An edit by others: what it does to the file it does to the history too. *)
(***************************************************************************)
\* A key either agrees in the file and its history afterwards, or was left alone in both.
SameEdit(f, b, f2, b2) ==
  /\ f2 \in Docs /\ b2 \in Docs /\ Nests(f2) /\ SameContent(f2, b2)
  /\ \A k \in Keys : f2.key[k] = b2.key[k] \/ (f2.key[k] = f.key[k] /\ b2.key[k] = b.key[k])

LEMMA EditsOfKeys ==
  ASSUME NEW d \in Docs, NEW k \in Keys, NEW v \in DocKeys
  PROVE  /\ SetKey(d, k, v) \in Docs /\ SetKey(d, k, v).there
         /\ SetKey(d, k, v).extra = d.extra
         /\ SetKey(d, k, v).parent = IF k \in Nested THEN "object" ELSE d.parent
         /\ \A x \in Keys : SetKey(d, k, v).key[x] = IF x = k THEN v ELSE d.key[x]
         /\ DropKey(d, k) \in Docs /\ DropKey(d, k).there = d.there
         /\ DropKey(d, k).extra = d.extra /\ DropKey(d, k).parent = d.parent
         /\ \A x \in Keys : DropKey(d, k).key[x] = IF x = k THEN "absent" ELSE d.key[x]
<1>1. d = [there |-> d.there, ok |-> d.ok, parent |-> d.parent, extra |-> d.extra, key |-> d.key]
  BY DEF Docs
<1> DEFINE Set(x) == [d.key EXCEPT ![k] = x]
<1>2. /\ \A x \in DocKeys : Set(x) \in [Keys -> DocKeys]
      /\ \A x \in DocKeys : \A y \in Keys : Set(x)[y] = IF y = k THEN x ELSE d.key[y]
  BY DocFields
<1>3. /\ SetKey(d, k, v).there = TRUE /\ SetKey(d, k, v).ok = d.ok /\ SetKey(d, k, v).extra = d.extra
      /\ SetKey(d, k, v).parent = IF k \in Nested THEN "object" ELSE d.parent
      /\ SetKey(d, k, v).key = Set(v)
      /\ DropKey(d, k).there = d.there /\ DropKey(d, k).ok = d.ok /\ DropKey(d, k).extra = d.extra
      /\ DropKey(d, k).parent = d.parent /\ DropKey(d, k).key = Set("absent")
  BY <1>1 DEF SetKey, DropKey
<1> HIDE DEF Set
<1>4. "absent" \in DocKeys /\ DocKeys = {"absent", "ours", "other", "dflt"}
  BY DEF DocKeys
<1>5. (SetKey(d, k, v).parent \in {"none", "object", "scalar"}) /\ (DropKey(d, k).parent \in {"none", "object", "scalar"})
  BY <1>3, DocFields
<1>6. SetKey(d, k, v) \in Docs
  BY <1>2, <1>3, <1>4, <1>5, DocFields DEF SetKey, Docs
<1>7. DropKey(d, k) \in Docs
  BY <1>2, <1>3, <1>4, <1>5, DocFields DEF DropKey, Docs
<1> QED
  BY <1>2, <1>3, <1>4, <1>6, <1>7

LEMMA EditsOfTheParent ==
  ASSUME NEW d \in Docs, NEW p \in {"none", "scalar"}
  PROVE  /\ SetParent(d, p) \in Docs /\ SetParent(d, p).there = (d.there \/ p = "scalar")
         /\ SetParent(d, p).extra = d.extra /\ SetParent(d, p).parent = p
         /\ \A x \in Keys : SetParent(d, p).key[x] = IF x \in Nested THEN "absent" ELSE d.key[x]
<1>1. d = [there |-> d.there, ok |-> d.ok, parent |-> d.parent, extra |-> d.extra, key |-> d.key]
  BY DEF Docs
<1> DEFINE key == [k \in Keys |-> IF k \in Nested THEN "absent" ELSE d.key[k]]
<1>2. key \in [Keys -> {"absent", "ours", "other", "dflt"}]
  BY DocFields DEF DocKeys
<1>3. /\ SetParent(d, p).there = (d.there \/ p = "scalar") /\ SetParent(d, p).ok = d.ok
      /\ SetParent(d, p).extra = d.extra /\ SetParent(d, p).parent = p /\ SetParent(d, p).key = key
  BY <1>1 DEF SetParent
<1>4. (d.there \/ p = "scalar") \in BOOLEAN
  BY DocFields
<1>5. SetParent(d, p) \in Docs
  BY <1>2, <1>3, <1>4, DocFields DEF SetParent, Docs
<1> QED
  BY <1>3, <1>5

LEMMA EditsOfTheRest ==
  ASSUME NEW d \in Docs
  PROVE  /\ AddExtra(d) \in Docs /\ AddExtra(d).there /\ AddExtra(d).extra
         /\ AddExtra(d).parent = d.parent /\ AddExtra(d).key = d.key
         /\ [d EXCEPT !.ok = ~@] \in Docs /\ [d EXCEPT !.ok = ~@].there = d.there
         /\ [d EXCEPT !.ok = ~@].extra = d.extra /\ [d EXCEPT !.ok = ~@].parent = d.parent
         /\ [d EXCEPT !.ok = ~@].key = d.key
<1>1. d = [there |-> d.there, ok |-> d.ok, parent |-> d.parent, extra |-> d.extra, key |-> d.key]
  BY DEF Docs
<1>2. /\ AddExtra(d).there = TRUE /\ AddExtra(d).ok = d.ok /\ AddExtra(d).extra = TRUE
      /\ AddExtra(d).parent = d.parent /\ AddExtra(d).key = d.key
  BY <1>1 DEF AddExtra
<1>3. AddExtra(d) \in Docs
  BY <1>2, DocFields DEF AddExtra, Docs, DocKeys
<1>4. [d EXCEPT !.ok = ~@] \in Docs
  BY <1>1, DocFields DEF Docs
<1> QED
  BY <1>1, <1>2, <1>3, <1>4

\* A file and its history that are kept as one another by an edit of both.
LEMMA KeyEditIsSame ==
  ASSUME NEW f \in Docs, NEW b \in Docs, Nests(f), SameContent(f, b), NEW k \in Keys
  PROVE  /\ \A v \in DocKeys : SameEdit(f, b, SetKey(f, k, v), SetKey(b, k, v))
         /\ SameEdit(f, b, DropKey(f, k), DropKey(b, k))
<1>1. ASSUME NEW v \in DocKeys
      PROVE  SameEdit(f, b, SetKey(f, k, v), SetKey(b, k, v))
  <2> DEFINE f2 == SetKey(f, k, v)
             b2 == SetKey(b, k, v)
  <2>1. /\ f2 \in Docs /\ f2.there /\ f2.extra = f.extra
        /\ f2.parent = IF k \in Nested THEN "object" ELSE f.parent
        /\ \A x \in Keys : f2.key[x] = IF x = k THEN v ELSE f.key[x]
    BY <1>1, EditsOfKeys
  <2>2. /\ b2 \in Docs /\ b2.there /\ b2.extra = b.extra
        /\ b2.parent = IF k \in Nested THEN "object" ELSE b.parent
        /\ \A x \in Keys : b2.key[x] = IF x = k THEN v ELSE b.key[x]
    BY <1>1, EditsOfKeys
  <2> HIDE DEF f2, b2
  <2>3. k \notin Nested => Present(f2) = Present(f)
    BY <2>1, KeysHold DEF Present
  <2>4. Nests(f2)
    BY <2>1, <2>3 DEF Nests
  <2>5. SameContent(f2, b2)
    BY <2>1, <2>2 DEF SameContent
  <2>6. SameEdit(f, b, f2, b2)
    BY <2>1, <2>2, <2>4, <2>5 DEF SameEdit
  <2> QED
    BY <2>6 DEF f2, b2
<1>2. SameEdit(f, b, DropKey(f, k), DropKey(b, k))
  <2> DEFINE f2 == DropKey(f, k)
             b2 == DropKey(b, k)
  <2>1. /\ f2 \in Docs /\ f2.there = f.there /\ f2.extra = f.extra /\ f2.parent = f.parent
        /\ \A x \in Keys : f2.key[x] = IF x = k THEN "absent" ELSE f.key[x]
    BY EditsOfKeys DEF DocKeys
  <2>2. /\ b2 \in Docs /\ b2.there = b.there /\ b2.extra = b.extra /\ b2.parent = b.parent
        /\ \A x \in Keys : b2.key[x] = IF x = k THEN "absent" ELSE b.key[x]
    BY EditsOfKeys DEF DocKeys
  <2> HIDE DEF f2, b2
  <2>3. Present(f2) \subseteq Present(f)
    BY <2>1, KeysHold DEF Present
  <2>4. Nests(f2)
    BY <2>1, <2>3 DEF Nests
  <2>5. SameContent(f2, b2)
    BY <2>1, <2>2 DEF SameContent
  <2>6. SameEdit(f, b, f2, b2)
    BY <2>1, <2>2, <2>4, <2>5 DEF SameEdit
  <2> QED
    BY <2>6 DEF f2, b2
<1> QED
  BY <1>1, <1>2

LEMMA RestEditIsSame ==
  ASSUME NEW f \in Docs, NEW b \in Docs, Nests(f), SameContent(f, b)
  PROVE  /\ \A p \in {"none", "scalar"} : SameEdit(f, b, SetParent(f, p), SetParent(b, p))
         /\ SameEdit(f, b, AddExtra(f), AddExtra(b))
         /\ SameEdit(f, b, Missing, Missing)
         /\ SameEdit(f, b, [f EXCEPT !.ok = ~@], b)
<1>1. ASSUME NEW p \in {"none", "scalar"}
      PROVE  SameEdit(f, b, SetParent(f, p), SetParent(b, p))
  <2> DEFINE f2 == SetParent(f, p)
             b2 == SetParent(b, p)
  <2>1. /\ f2 \in Docs /\ f2.there = (f.there \/ p = "scalar") /\ f2.extra = f.extra /\ f2.parent = p
        /\ \A x \in Keys : f2.key[x] = IF x \in Nested THEN "absent" ELSE f.key[x]
    BY <1>1, EditsOfTheParent
  <2>2. /\ b2 \in Docs /\ b2.there = (b.there \/ p = "scalar") /\ b2.extra = b.extra /\ b2.parent = p
        /\ \A x \in Keys : b2.key[x] = IF x \in Nested THEN "absent" ELSE b.key[x]
    BY <1>1, EditsOfTheParent
  <2> HIDE DEF f2, b2
  <2>3. Nests(f2)
    BY <2>1, KeysHold DEF Nests, Present
  <2>4. SameContent(f2, b2)
    BY <2>1, <2>2 DEF SameContent
  <2>5. SameEdit(f, b, f2, b2)
    BY <2>1, <2>2, <2>3, <2>4 DEF SameEdit
  <2> QED
    BY <2>5 DEF f2, b2
<1>2. SameEdit(f, b, AddExtra(f), AddExtra(b))
  <2> DEFINE f2 == AddExtra(f)
             b2 == AddExtra(b)
  <2>1. /\ f2 \in Docs /\ f2.there /\ f2.extra /\ f2.parent = f.parent /\ f2.key = f.key
        /\ b2 \in Docs /\ b2.there /\ b2.extra /\ b2.parent = b.parent /\ b2.key = b.key
    BY EditsOfTheRest
  <2>2. f2.extra = TRUE /\ b2.extra = TRUE
    BY <2>1, DocFields
  <2> HIDE DEF f2, b2
  <2>3. Nests(f2) /\ SameContent(f2, b2)
    BY <2>1, <2>2 DEF Nests, Present, SameContent
  <2>4. SameEdit(f, b, f2, b2)
    BY <2>1, <2>3 DEF SameEdit
  <2> QED
    BY <2>4 DEF f2, b2
<1>3. SameEdit(f, b, Missing, Missing)
  BY KeysHold DEF SameEdit, SameContent, Nests, Present, Missing, NoKeys
<1>4. SameEdit(f, b, [f EXCEPT !.ok = ~@], b)
  <2> DEFINE f2 == [f EXCEPT !.ok = ~@]
  <2>1. f2 \in Docs /\ f2.there = f.there /\ f2.extra = f.extra /\ f2.parent = f.parent /\ f2.key = f.key
    BY EditsOfTheRest
  <2> HIDE DEF f2
  <2>2. Nests(f2) /\ SameContent(f2, b)
    BY <2>1 DEF Nests, Present, SameContent
  <2>3. SameEdit(f, b, f2, b)
    BY <2>1, <2>2 DEF SameEdit
  <2> QED
    BY <2>3 DEF f2
<1> QED
  BY <1>1, <1>2, <1>3, <1>4

\* What an edit makes of the keys that look like ours, where the records are of keys in rest.
Lookalikes(b, b2, look, rest) ==
  {k \in Keys : b2.key[k] = "ours" /\ (k \in look \/ (b.key[k] # "ours" /\ k \in rest))}

LEMMA EditKeepsRecords ==
  ASSUME NEW f \in Docs, NEW b \in Docs, NEW f2, NEW b2, NEW look, NEW rest, NEW entries,
         SameEdit(f, b, f2, b2), Alike(b, look)
  PROVE  LET look2 == Lookalikes(b, b2, look, rest) IN
         /\ Alike(b2, look2)
         /\ Differs(f, b, entries, look) => Differs(f2, b2, entries, look2)
         /\ Looks(b, entries, look) /\ DOMAIN entries \subseteq rest /\ DOMAIN entries \subseteq Keys
              => Looks(b2, entries, look2)
<1>1. Alike(b2, Lookalikes(b, b2, look, rest))
  BY DEF Alike, Lookalikes
<1>2. ASSUME Differs(f, b, entries, look)
      PROVE  Differs(f2, b2, entries, Lookalikes(b, b2, look, rest))
  BY <1>2 DEF Differs, SameEdit, Alike, Lookalikes
<1>3. ASSUME Looks(b, entries, look), DOMAIN entries \subseteq rest, DOMAIN entries \subseteq Keys
      PROVE  Looks(b2, entries, Lookalikes(b, b2, look, rest))
  BY <1>3 DEF Looks, Lookalikes
<1> QED
  BY <1>1, <1>2, <1>3
-----------------------------------------------------------------------------
(***************************************************************************)
(* What is written is as right as what was read.                           *)
(***************************************************************************)
LEMMA ApplyIsRight ==
  ASSUME NEW d \in Docs, Nests(d), NEW s \in Settings, NEW l \in Ledgers, NEW b \in Docs, NEW look,
         Differs(d, b, l.entries, look), Looks(b, l.entries, look), SameContent(d, b)
  PROVE  LET new == Applied(d, s)
             e == KeptEntries(l.entries, d, s)
         IN  /\ Differs(d, b, e, look) /\ Differs(new, b, e, look)
             /\ SameContent(new, b) /\ Looks(b, e, look)
<1> DEFINE new == Applied(d, s)
           e == KeptEntries(l.entries, d, s)
           w == Written(d, s)
           x == Dropped(d, s)
<1>1. /\ new.extra = d.extra /\ (new.parent = "scalar") = (d.parent = "scalar") /\ (d.there => new.there)
      /\ \A k \in Keys : new.key[k] = IF k \in w THEN "ours" ELSE d.key[k]
  BY AppliedDoc
<1>2. /\ DOMAIN e = (DOMAIN l.entries \ x) \cup w
      /\ \A k \in w : e[k].replaced = (d.key[k] = "dflt")
      /\ \A k \in DOMAIN e \ w : e[k] = l.entries[k]
  BY KeptLedger
<1>3. /\ \A k \in w : k \in Keys /\ d.key[k] \in {"absent", "dflt"}
      /\ \A k \in w : d.key[k] # "ours"
      /\ \A k \in Keys : d.key[k] = "ours" => k \notin x /\ k \notin w
  <2>1. \A k \in w : k \in Keys /\ d.key[k] # "ours" /\ d.key[k] # "other"
    BY KeysHold DEF Written, Dropped
  <2>2. \A k \in Keys : d.key[k] = "ours" => k \notin x
    BY DEF Dropped, Nests, Present
  <2> QED
    BY <2>1, <2>2, DocFields DEF DocKeys
<1> HIDE DEF new, e, w, x
<1>4. Differs(d, b, e, look)
  BY <1>2, <1>3 DEF Differs
<1>5. Differs(new, b, e, look)
  <2>1. ASSUME NEW k \in Keys \ look, new.key[k] # b.key[k]
        PROVE  /\ new.key[k] = "ours" /\ k \in DOMAIN e
               /\ b.key[k] = IF e[k].replaced THEN "dflt" ELSE "absent"
    <3>1. CASE k \in w
      <4>1. d.key[k] = b.key[k]
        BY <1>3, <3>1, <2>1 DEF Differs
      <4> QED
        BY <1>1, <1>2, <1>3, <2>1, <3>1, <4>1
    <3>2. CASE k \notin w
      BY <1>1, <1>4, <2>1, <3>2 DEF Differs
    <3> QED
      BY <3>1, <3>2
  <2> QED
    BY <2>1 DEF Differs
<1>6. SameContent(new, b)
  BY <1>1 DEF SameContent
<1>7. Looks(b, e, look)
  <2>1. ASSUME NEW k \in DOMAIN e, b.key[k] = "ours"
        PROVE  k \in look
    BY <1>2, <1>3, <2>1 DEF Looks, Differs
  <2> QED
    BY <2>1 DEF Looks
<1> QED
  BY <1>4, <1>5, <1>6, <1>7 DEF new, e

LEMMA RevertIsRight ==
  ASSUME NEW d \in Docs, Nests(d), NEW s \in Settings, NEW l \in Ledgers, NEW b \in Docs, NEW look,
         Differs(d, b, l.entries, look), Looks(b, l.entries, look), SameContent(d, b)
  PROVE  LET new == Reverted(d, l, s)
             e == Remaining(l, s).entries
         IN  /\ Remaining(l, s) \in Ledgers /\ DOMAIN e = DOMAIN l.entries \ KeysOf(s)
             /\ \A k \in DOMAIN e : e[k] = l.entries[k]
             /\ Differs(new, b, e, look) /\ SameContent(new, b)
<1> DEFINE new == Reverted(d, l, s)
           rest == Recorded(l) \ KeysOf(s)
           e == [k \in rest |-> l.entries[k]]
           c == l.created /\ rest # {}
           gone == Gone(d, l, s)
           held == Held(d, l, s)
<1>1. Remaining(l, s) = [entries |-> e, created |-> c, bad |-> FALSE]
  BY DEF Remaining
<1>2. PICK recorded \in SUBSET Keys :
        l.entries \in [recorded -> [createdParent : BOOLEAN, replaced : BOOLEAN]]
  BY LedgerFields
<1>3. rest \in SUBSET Keys /\ e \in [rest -> [createdParent : BOOLEAN, replaced : BOOLEAN]]
  BY <1>2 DEF Recorded
<1>4. c \in BOOLEAN
  BY LedgerFields
<1>5. Remaining(l, s) \in Ledgers
  <2> HIDE DEF rest, e, c
  <2> QED
    BY <1>1, <1>3, <1>4, LedgerMade
<1>6. /\ Remaining(l, s).entries = e /\ DOMAIN e = rest
      /\ \A k \in rest : e[k] = l.entries[k]
      /\ rest = DOMAIN l.entries \ KeysOf(s)
  BY <1>1 DEF Recorded
<1>7. /\ new.extra = d.extra /\ (new.parent = "scalar") = (d.parent = "scalar")
      /\ new.there \/ (~new.extra /\ new.parent # "scalar") \/ ~d.there
      /\ \A k \in Keys : new.key[k] = IF k \in gone THEN "absent"
                                      ELSE IF k \in held THEN "dflt" ELSE d.key[k]
  BY RevertedDoc
<1>8. /\ \A k \in gone : k \in held /\ l.entries[k].replaced = FALSE
      /\ \A k \in held \ gone : l.entries[k].replaced
      /\ \A k \in held : k \in DOMAIN l.entries /\ d.key[k] = "ours"
      /\ \A k \in DOMAIN l.entries : k \in KeysOf(s) /\ d.key[k] = "ours" => k \in held
  <2>1. \A k \in DOMAIN l.entries : l.entries[k].replaced \in BOOLEAN
    BY LedgerFields
  <2> QED
    BY <2>1 DEF Gone, Held, Mine, Recorded
<1> HIDE DEF new, rest, e, gone, held
<1>9. Differs(new, b, e, look)
  <2>1. ASSUME NEW k \in Keys \ look, new.key[k] # b.key[k]
        PROVE  /\ new.key[k] = "ours" /\ k \in DOMAIN e
               /\ b.key[k] = IF e[k].replaced THEN "dflt" ELSE "absent"
    <3>1. CASE k \in held
      <4>1. d.key[k] = "ours" /\ k \in DOMAIN l.entries
        BY <1>8, <3>1
      <4>2. b.key[k] # "ours"
        BY <4>1 DEF Looks
      <4>3. b.key[k] = IF l.entries[k].replaced THEN "dflt" ELSE "absent"
        BY <4>1, <4>2 DEF Differs
      <4>4. b.key[k] = new.key[k]
        BY <1>7, <1>8, <3>1, <4>3
      <4> QED
        BY <2>1, <4>4
    <3>2. CASE k \notin held
      <4>1. new.key[k] = d.key[k]
        BY <1>7, <1>8, <3>2
      <4>2. /\ d.key[k] = "ours" /\ k \in DOMAIN l.entries
            /\ b.key[k] = IF l.entries[k].replaced THEN "dflt" ELSE "absent"
        BY <2>1, <4>1 DEF Differs
      <4>3. k \in rest
        BY <1>6, <1>8, <3>2, <4>2
      <4> QED
        BY <1>6, <4>1, <4>2, <4>3
    <3> QED
      BY <3>1, <3>2
  <2> QED
    BY <2>1 DEF Differs
<1>10. SameContent(new, b)
  BY <1>7 DEF SameContent
<1> QED
  BY <1>5, <1>6, <1>9, <1>10 DEF new
-----------------------------------------------------------------------------
(***************************************************************************)
(* The steps of a run.                                                     *)
(***************************************************************************)
LEMMA BookHolds ==
  ASSUME LedgerInv
  PROVE  /\ Book.entries = IF aside = None THEN ledger.entries ELSE aside.entries
         /\ Book \in Ledgers /\ DOMAIN Book.entries \subseteq Keys
<1>1. CASE aside = None
  <2>1. Book = [ledger EXCEPT !.bad = FALSE]
    BY <1>1 DEF Book
  <2> QED
    BY <1>1, <2>1, LedgerFields DEF LedgerInv
<1>2. CASE aside # None
  <2>1. Book = aside /\ aside \in Ledgers
    BY <1>2 DEF Book, LedgerInv
  <2> QED
    BY <1>2, <2>1, LedgerFields
<1> QED
  BY <1>1, <1>2

LEMMA NextBook ==
  ASSUME ledger' \in Ledgers, aside' \in Ledgers \cup {None}
  PROVE  Book'.entries = IF aside' = None THEN ledger'.entries ELSE aside'.entries
<1>1. CASE aside' = None
  <2>1. Book' = [ledger' EXCEPT !.bad = FALSE]
    BY <1>1 DEF Book
  <2> QED
    BY <1>1, <2>1, LedgerFields
<1>2. CASE aside' # None
  BY <1>2 DEF Book
<1> QED
  BY <1>1, <1>2

\* A run that ends, or goes back to reading.
LEMMA EndsAtRest ==
  ASSUME FileInv', LedgerInv', RunFields', NEW entries,
         entries = IF aside' = None THEN ledger'.entries ELSE aside'.entries,
         Differs(file', base', entries, lookalike'), Looks(base', entries, lookalike'),
         pc' \in Reading, pc' = "read" => run'.setting \in Settings /\ run'.kind \in {"apply", "revert"}
  PROVE  SettingsInv'
<1>1. ledger' \in Ledgers /\ aside' \in Ledgers \cup {None}
  BY DEF LedgerInv
<1>2. Book'.entries = entries
  BY <1>1, NextBook
<1> QED
  BY <1>2 DEF SettingsInv, Reading

\* A run that goes on.
LEMMA RunsOn ==
  ASSUME FileInv', LedgerInv', RunFields', RunInv', pc' \in {"reserve", "compare", "replace", "rollback", "record"},
         Differs(file', base', ledger'.entries, lookalike')
  PROVE  SettingsInv'
<1>1. ledger' \in Ledgers /\ aside' \in Ledgers \cup {None} /\ aside' = None
  BY DEF LedgerInv, RunInv
<1>2. Book'.entries = ledger'.entries
  BY <1>1, NextBook
<1> QED
  BY <1>2 DEF SettingsInv, Reading

LEMMA IdleFields == Idle = [kind |-> Idle.kind, setting |-> Idle.setting, attempt |-> Idle.attempt,
  led |-> Idle.led, snap |-> Idle.snap, new |-> Idle.new, plan |-> Idle.plan, then |-> Idle.then,
  agreed |-> Idle.agreed]
  BY DEF Idle

\* A run that ends with nothing changed but the ledger.
LEMMA EndsWith ==
  ASSUME SettingsInv, UNCHANGED <<file, base, lookalike, aside>>, aside = None, ledger' \in Ledgers,
         Ended(result'), Differs(file, base, ledger'.entries, lookalike), Looks(base, ledger'.entries, lookalike)
  PROVE  SettingsInv'
<1>1. pc' = "idle" /\ run' = Idle
  BY DEF Ended
<1>2. FileInv'
  BY DEF SettingsInv, FileInv
<1>3. LedgerInv'
  BY DEF LedgerInv
<1>4. RunFields'
  BY <1>1, IdleFields DEF RunFields
<1> QED
  BY <1>1, <1>2, <1>3, <1>4, EndsAtRest DEF Reading

LEMMA BeginStep == ASSUME SettingsInv, Begin PROVE SettingsInv'
<1>1. FileInv' /\ LedgerInv'
  BY DEF Begin, others, SettingsInv, FileInv, LedgerInv, Reading
<1>2. PICK kind \in {"apply", "revert"}, s \in Settings :
        run' = [Idle EXCEPT !.kind = kind, !.setting = s, !.attempt = 1]
  BY DEF Begin
<1>3. RunFields' /\ run'.setting = s /\ run'.kind = kind
  BY <1>2, IdleFields DEF RunFields
<1>4. UNCHANGED <<file, base, lookalike, aside, ledger>> /\ pc' = "read" /\ pc = "idle"
  BY DEF Begin, others
<1>5. Differs(file, base, Book.entries, lookalike) /\ Looks(base, Book.entries, lookalike)
  BY <1>4 DEF SettingsInv, Reading
<1>6. Book.entries = IF aside' = None THEN ledger'.entries ELSE aside'.entries
  BY <1>4, BookHolds DEF SettingsInv
<1> QED
  BY <1>1, <1>3, <1>4, <1>5, <1>6, EndsAtRest DEF Reading

LEMMA ReadUntrustedStep == ASSUME SettingsInv, ReadUntrusted PROVE SettingsInv'
<1>1. pc = "read" /\ pc' = "idle" /\ run' = Idle /\ UNCHANGED <<file, base, lookalike>>
  BY DEF ReadUntrusted, Ended, others
<1>2. FileInv'
  BY <1>1 DEF SettingsInv, FileInv
<1>3. RunFields'
  BY <1>1, IdleFields DEF RunFields
<1>4. Differs(file, base, Book.entries, lookalike) /\ Looks(base, Book.entries, lookalike)
  BY <1>1 DEF SettingsInv, Reading
<1>5. LedgerInv
  BY DEF SettingsInv
<1>6. CASE ledger.bad
  <2>1. aside = None
    BY <1>5, <1>6 DEF LedgerInv, NoLedger
  <2>2. aside' = [ledger EXCEPT !.bad = FALSE] /\ ledger' = NoLedger
    BY <1>6 DEF ReadUntrusted
  <2>3. aside' \in Ledgers /\ aside'.entries = ledger.entries
    BY <1>5, <2>2, LedgerFields DEF LedgerInv
  <2>4. aside' # None
    BY <2>3, NoneIsNoLedger
  <2>5. LedgerInv'
    BY <1>1, <2>2, <2>3, KeysHold DEF LedgerInv, Reading
  <2>6. Book.entries = aside'.entries
    BY <1>5, <2>1, <2>3, BookHolds
  <2> QED
    BY <1>1, <1>2, <1>3, <1>4, <2>4, <2>5, <2>6, EndsAtRest DEF Reading
<1>7. CASE ~ledger.bad
  <2>1. UNCHANGED <<aside, ledger>>
    BY <1>7 DEF ReadUntrusted
  <2>2. LedgerInv'
    BY <1>1, <1>5, <2>1 DEF LedgerInv, Reading
  <2>3. Book.entries = IF aside' = None THEN ledger'.entries ELSE aside'.entries
    BY <1>5, <2>1, BookHolds
  <2> QED
    BY <1>1, <1>2, <1>3, <1>4, <2>2, <2>3, EndsAtRest DEF Reading
<1> QED
  BY <1>6, <1>7

\* A trusted ledger is the book.
LEMMA TrustedHolds ==
  ASSUME SettingsInv, Trusted
  PROVE  /\ ledger \in Ledgers /\ aside = None /\ ledger.bad = FALSE
         /\ Differs(file, base, ledger.entries, lookalike) /\ Looks(base, ledger.entries, lookalike)
         /\ run.setting \in Settings /\ run.kind \in {"apply", "revert"}
<1>1. pc = "read" /\ aside = None /\ LedgerInv
  BY DEF Trusted, SettingsInv
<1>2. ledger.bad = FALSE
  BY <1>1, LedgerFields DEF Trusted, LedgerInv
<1>3. Book.entries = ledger.entries
  BY <1>1, BookHolds
<1> QED
  BY <1>1, <1>2, <1>3 DEF SettingsInv, Reading, LedgerInv

LEMMA ReadRefusedStep == ASSUME SettingsInv, ReadRefused PROVE SettingsInv'
<1>1. Trusted /\ Ended(result') /\ UNCHANGED <<file, ledger, aside, base, lookalike>>
  BY DEF ReadRefused, Ended, others
<1> QED
  BY <1>1, TrustedHolds, EndsWith

LEMMA ReadApplyStep == ASSUME SettingsInv, ReadApply PROVE SettingsInv'
<1> DEFINE s == run.setting
           e == KeptEntries(ledger.entries, file, s)
           c == ledger.created \/ (~(Written(file, s) = {}) /\ ~file.there)
           plan == [entries |-> e, created |-> c, bad |-> FALSE]
<1>1. Trusted /\ run.kind = "apply" /\ pc' = "reserve" /\ UNCHANGED <<file, ledger, aside, base, lookalike>>
  BY DEF ReadApply, Goto, others
<1>2. run' = [run EXCEPT !.led = ledger, !.snap = file, !.new = Applied(file, s), !.plan = plan,
                         !.then = IF Written(file, s) = {} THEN "end" ELSE "compare"]
  BY DEF ReadApply, Goto
<1>3. /\ run'.kind = run.kind /\ run'.setting = s /\ run'.led = ledger /\ run'.snap = file
      /\ run'.new = Applied(file, s) /\ run'.plan = plan
      /\ run'.then = IF Written(file, s) = {} THEN "end" ELSE "compare"
      /\ RunFields'
  BY <1>2 DEF SettingsInv, RunFields
<1>4. FileInv' /\ LedgerInv'
  BY <1>1, TrustedHolds DEF SettingsInv, FileInv, LedgerInv
<1>5. /\ ledger \in Ledgers /\ aside = None /\ ledger.bad = FALSE /\ s \in Settings
      /\ Differs(file, base, ledger.entries, lookalike) /\ Looks(base, ledger.entries, lookalike)
      /\ file \in Docs /\ base \in Docs /\ Nests(file) /\ SameContent(file, base)
  BY <1>1, TrustedHolds DEF SettingsInv, FileInv
<1>6. Applied(file, s) \in Docs /\ Nests(Applied(file, s))
  BY <1>5, AppliedDoc
<1>7. Differs(file, base, e, lookalike)
  BY <1>5, ApplyIsRight
<1>8. plan \in Ledgers
  <2>1. c \in BOOLEAN
    BY <1>5, LedgerFields
  <2> QED
    BY <1>5, <2>1, KeptLedger
<1>9. plan.entries = e
  OBVIOUS
<1> HIDE DEF plan, e
<1>10. ApplyInv'
  BY <1>1, <1>3, <1>7, <1>9 DEF ApplyInv, e
<1>11. RunInv'
  BY <1>1, <1>3, <1>5, <1>6, <1>8, <1>10 DEF RunInv
<1> QED
  BY <1>1, <1>3, <1>4, <1>5, <1>11, RunsOn

LEMMA ReadRevertStep == ASSUME SettingsInv, ReadRevert PROVE SettingsInv'
<1> DEFINE s == run.setting
           new == Reverted(file, ledger, s)
           plan == Remaining(ledger, s)
<1>1. Trusted /\ run.kind = "revert" /\ UNCHANGED <<file, ledger, aside, base, lookalike>>
  BY DEF ReadRevert, others
<1>2. CASE Mine(ledger, s) = {}
  <2>1. Ended(result')
    BY <1>2 DEF ReadRevert, Ended
  <2> QED
    BY <1>1, <2>1, TrustedHolds, EndsWith
<1>3. CASE Mine(ledger, s) # {}
  <2>1. /\ pc' = IF new = file THEN "record" ELSE "compare"
        /\ run' = [run EXCEPT !.led = ledger, !.snap = file, !.new = new, !.plan = plan]
    BY <1>3 DEF ReadRevert, Goto
  <2>2. /\ run'.kind = run.kind /\ run'.setting = s /\ run'.led = ledger /\ run'.snap = file
        /\ run'.new = new /\ run'.plan = plan /\ RunFields'
    BY <2>1 DEF SettingsInv, RunFields
  <2>3. FileInv' /\ LedgerInv'
    BY <1>1, TrustedHolds DEF SettingsInv, FileInv, LedgerInv
  <2>4. /\ ledger \in Ledgers /\ aside = None /\ ledger.bad = FALSE /\ s \in Settings
        /\ Differs(file, base, ledger.entries, lookalike) /\ Looks(base, ledger.entries, lookalike)
        /\ file \in Docs /\ base \in Docs /\ Nests(file) /\ SameContent(file, base)
    BY <1>1, TrustedHolds DEF SettingsInv, FileInv
  <2>5. new \in Docs /\ Nests(new)
    BY <2>4, RevertedDoc
  <2>6. plan \in Ledgers /\ Differs(new, base, plan.entries, lookalike)
    BY <2>4, RevertIsRight
  <2> HIDE DEF s, new, plan
  <2>7. pc' = "record" => new = file
    BY <2>1
  <2>8. RevertInv'
    BY <1>1, <2>1, <2>2, <2>6, <2>7 DEF RevertInv, s, new, plan
  <2>9. RunInv'
    BY <1>1, <2>1, <2>2, <2>4, <2>5, <2>6, <2>8 DEF RunInv
  <2> QED
    BY <1>1, <2>1, <2>2, <2>3, <2>4, <2>9, RunsOn
<1> QED
  BY <1>2, <1>3

\* What a run that is under way knows.
LEMMA RunHolds ==
  ASSUME SettingsInv, pc \notin Reading
  PROVE  /\ RunInv /\ FileInv /\ LedgerInv /\ RunFields /\ aside = None
         /\ Differs(file, base, ledger.entries, lookalike)
         /\ DOMAIN ledger.entries \subseteq Keys
<1>1. RunInv /\ FileInv /\ LedgerInv /\ RunFields /\ aside = None
  BY DEF SettingsInv, RunInv
<1>2. Book.entries = ledger.entries
  BY <1>1, BookHolds
<1>3. ledger \in Ledgers
  BY <1>1 DEF LedgerInv
<1> QED
  BY <1>1, <1>2, <1>3, LedgerFields DEF SettingsInv

\* An apply that found nothing to write records no more than it did.
LEMMA NothingWritten ==
  ASSUME SettingsInv, pc = "reserve", run.then = "end"
  PROVE  Looks(base, run.plan.entries, lookalike)
<1>1. RunInv /\ run.kind = "apply"
  BY RunHolds DEF Reading, RunInv, RevertInv
<1>2. /\ run.plan.entries = KeptEntries(run.led.entries, run.snap, run.setting)
      /\ Written(run.snap, run.setting) = {} /\ Looks(base, run.led.entries, lookalike)
      /\ run.snap \in Docs /\ run.setting \in Settings /\ run.led \in Ledgers
  BY <1>1 DEF RunInv, ApplyInv
<1>3. DOMAIN run.plan.entries \subseteq DOMAIN run.led.entries
  <2>1. DOMAIN KeptEntries(run.led.entries, run.snap, run.setting)
          = (DOMAIN run.led.entries \ Dropped(run.snap, run.setting)) \cup Written(run.snap, run.setting)
    BY <1>2, KeptLedger
  <2> QED
    BY <1>2, <2>1
<1> QED
  BY <1>2, <1>3 DEF Looks

LEMMA ReserveStep == ASSUME SettingsInv, Reserve PROVE SettingsInv'
<1>1. pc = "reserve" /\ UNCHANGED <<file, aside, base, lookalike>> /\ pc \notin Reading
  BY DEF Reserve, others, Reading
<1>2. RunInv /\ FileInv /\ LedgerInv /\ RunFields /\ aside = None
  BY <1>1, RunHolds
<1>3. run.kind = "apply" /\ ApplyInv
  BY <1>1, <1>2 DEF RunInv, RevertInv
<1>4. CASE ledger' = run.plan /\ run.then = "end" /\ Ended(result')
  <2>1. Looks(base, run.plan.entries, lookalike)
    BY <1>1, <1>4, NothingWritten
  <2> QED
    BY <1>1, <1>2, <1>3, <1>4, <2>1, EndsWith DEF ApplyInv, RunInv
<1>5. CASE ledger' = run.plan /\ run.then # "end" /\ Goto("compare", run)
  <2>1. pc' = "compare" /\ run' = run
    BY <1>5 DEF Goto
  <2>2. FileInv' /\ LedgerInv' /\ RunFields'
    BY <1>1, <1>2, <1>5, <2>1 DEF FileInv, LedgerInv, RunFields, RunInv
  <2>3. ApplyInv'
    BY <1>1, <1>3, <1>5, <2>1 DEF ApplyInv
  <2>4. RunInv'
    BY <1>1, <1>2, <1>3, <2>1, <2>3 DEF RunInv
  <2> QED
    BY <1>1, <1>3, <1>5, <2>1, <2>2, <2>4, RunsOn DEF ApplyInv
<1>6. CASE UNCHANGED ledger /\ Ended(result')
  <2>1. ledger.entries = run.led.entries
    BY <1>1, <1>3 DEF ApplyInv
  <2> QED
    BY <1>1, <1>2, <1>6, <2>1, EndsWith DEF LedgerInv, RunInv
<1> QED
  BY <1>4, <1>5, <1>6 DEF Reserve, Ended

LEMMA CompareStep == ASSUME SettingsInv, Compare PROVE SettingsInv'
<1>1. pc = "compare" /\ UNCHANGED <<file, ledger, aside, base, lookalike>> /\ pc \notin Reading
  BY DEF Compare, others, Reading
<1>2. /\ RunInv /\ FileInv /\ LedgerInv /\ RunFields /\ aside = None
      /\ Differs(file, base, ledger.entries, lookalike)
  BY <1>1, RunHolds
<1>3. FileInv' /\ LedgerInv'
  BY <1>1, <1>2 DEF FileInv, LedgerInv
<1>4. /\ run.kind \in {"apply", "revert"} /\ run.setting \in Settings /\ run.led \in Ledgers
      /\ Differs(file, base, run.led.entries, lookalike) /\ Looks(base, run.led.entries, lookalike)
      /\ file \in Docs /\ base \in Docs /\ Nests(file) /\ SameContent(file, base) /\ Alike(base, lookalike)
  BY <1>2 DEF RunInv, FileInv
<1>5. CASE file = run.snap
  <2>1. pc' = "replace" /\ run' = [run EXCEPT !.agreed = <<base, lookalike>>]
    BY <1>5 DEF Compare, Goto
  <2>2. /\ run'.kind = run.kind /\ run'.setting = run.setting /\ run'.led = run.led /\ run'.snap = run.snap
        /\ run'.new = run.new /\ run'.plan = run.plan /\ run'.then = run.then /\ RunFields'
        /\ run'.agreed = <<base, lookalike>>
    BY <1>2, <2>1 DEF RunFields
  <2>3. run.kind = "apply" => ApplyInv' /\ Looks(base, run.plan.entries, lookalike)
                               /\ Differs(run.new, base, run.plan.entries, lookalike) /\ SameContent(run.new, base)
    <3>1. SUFFICES ASSUME run.kind = "apply"
                   PROVE  ApplyInv' /\ Looks(base, run.plan.entries, lookalike)
                          /\ Differs(run.new, base, run.plan.entries, lookalike) /\ SameContent(run.new, base)
      OBVIOUS
    <3>2. ApplyInv
      BY <1>2, <3>1 DEF RunInv
    <3>3. ApplyInv'
      BY <1>1, <2>1, <2>2, <3>2 DEF ApplyInv
    <3>4. run.new = Applied(file, run.setting) /\ run.plan.entries = KeptEntries(run.led.entries, file, run.setting)
      BY <1>5, <3>2 DEF ApplyInv
    <3> QED
      BY <1>4, <3>3, <3>4, ApplyIsRight
  <2>4. run.kind = "revert" => RevertInv' /\ Differs(run.new, base, run.plan.entries, lookalike)
                                /\ SameContent(run.new, base)
    <3>1. SUFFICES ASSUME run.kind = "revert"
                   PROVE  RevertInv' /\ Differs(run.new, base, run.plan.entries, lookalike)
                          /\ SameContent(run.new, base)
      OBVIOUS
    <3>2. RevertInv
      BY <1>2, <3>1 DEF RunInv
    <3>3. RevertInv'
      BY <1>1, <2>1, <2>2, <3>2 DEF RevertInv
    <3>4. run.new = Reverted(file, run.led, run.setting) /\ run.plan = Remaining(run.led, run.setting)
      BY <1>5, <3>2 DEF RevertInv
    <3>5. /\ Differs(Reverted(file, run.led, run.setting), base, Remaining(run.led, run.setting).entries, lookalike)
          /\ SameContent(Reverted(file, run.led, run.setting), base)
      BY <1>4, RevertIsRight
    <3> QED
      BY <3>3, <3>4, <3>5
  <2>5. AgreedInv'
    BY <1>1, <1>4, <2>2, <2>3, <2>4 DEF AgreedInv
  <2>6. RunInv'
    BY <1>1, <1>2, <2>1, <2>2, <2>3, <2>4, <2>5 DEF RunInv
  <2> QED
    BY <1>1, <1>2, <1>3, <2>1, <2>2, <2>6, RunsOn
<1>6. CASE file # run.snap /\ run.kind = "apply"
  <2>1. pc' = "rollback" /\ run' = [run EXCEPT !.then = "retry"]
    BY <1>6 DEF Compare, Goto
  <2>2. /\ run'.kind = run.kind /\ run'.setting = run.setting /\ run'.led = run.led /\ run'.snap = run.snap
        /\ run'.new = run.new /\ run'.plan = run.plan /\ RunFields'
    BY <1>2, <2>1 DEF RunFields
  <2>3. ApplyInv
    BY <1>2, <1>6 DEF RunInv
  <2>4. ApplyInv'
    BY <1>1, <2>1, <2>2, <2>3 DEF ApplyInv
  <2>5. RunInv'
    BY <1>1, <1>2, <1>6, <2>1, <2>2, <2>4 DEF RunInv
  <2> QED
    BY <1>1, <1>2, <1>3, <2>1, <2>2, <2>5, RunsOn
<1>7. CASE file # run.snap /\ run.kind # "apply" /\ run.attempt < 2
  <2>1. pc' = "read" /\ run' = [run EXCEPT !.attempt = @ + 1]
    BY <1>7 DEF Compare, Goto
  <2>2. run'.kind = run.kind /\ run'.setting = run.setting /\ RunFields'
    BY <1>2, <2>1 DEF RunFields
  <2>3. ledger.entries = run.led.entries
    BY <1>2, <1>4, <1>7 DEF RunInv, RevertInv
  <2> QED
    BY <1>1, <1>2, <1>3, <1>4, <2>1, <2>2, <2>3, EndsAtRest DEF Reading
<1>8. CASE file # run.snap /\ run.kind # "apply" /\ ~(run.attempt < 2)
  <2>1. Ended(result')
    BY <1>8 DEF Compare, Ended
  <2>2. ledger.entries = run.led.entries
    BY <1>2, <1>4, <1>8 DEF RunInv, RevertInv
  <2> QED
    BY <1>1, <1>2, <1>4, <2>1, <2>2, EndsWith DEF LedgerInv
<1> QED
  BY <1>5, <1>6, <1>7, <1>8

LEMMA ReplaceStep == ASSUME SettingsInv, Replace PROVE SettingsInv'
<1>1. /\ pc = "replace" /\ pc \notin Reading /\ UNCHANGED <<ledger, aside>>
      /\ file' = run.new /\ base' = run.agreed[1] /\ lookalike' = run.agreed[2]
  BY DEF Replace, Reading
<1>2. RunInv /\ LedgerInv /\ RunFields /\ aside = None /\ AgreedInv
  BY <1>1, RunHolds DEF RunInv
<1>3. FileInv' /\ LedgerInv'
  BY <1>1, <1>2 DEF FileInv, LedgerInv, AgreedInv, RunInv
<1>4. /\ Differs(file', base', run.plan.entries, lookalike') /\ Looks(base', run.led.entries, lookalike')
      /\ run.kind = "apply" => Looks(base', run.plan.entries, lookalike')
      /\ SameContent(file', base') /\ Alike(base', lookalike')
  BY <1>1, <1>2 DEF AgreedInv
<1>5. CASE run.kind = "apply"
  <2>1. pc' = "idle" /\ run' = Idle
    BY <1>5 DEF Replace, Ended
  <2>2. RunFields'
    BY <2>1, IdleFields DEF RunFields
  <2>3. ledger'.entries = run.plan.entries
    BY <1>1, <1>2, <1>5 DEF RunInv, ApplyInv
  <2> QED
    BY <1>1, <1>2, <1>3, <1>4, <1>5, <2>1, <2>2, <2>3, EndsAtRest DEF Reading
<1>6. CASE run.kind # "apply"
  <2>1. pc' = "record" /\ run' = run
    BY <1>6 DEF Replace, Goto
  <2>2. run.kind = "revert" /\ RevertInv /\ RunFields' /\ run.setting \in Settings /\ run.led \in Ledgers
    BY <1>2, <1>6, <2>1 DEF RunInv, RunFields
  <2>3. RevertInv'
    BY <1>1, <1>4, <2>1, <2>2 DEF RevertInv
  <2>4. /\ run.plan.entries = [k \in Recorded(run.led) \ KeysOf(run.setting) |-> run.led.entries[k]]
    BY <2>2 DEF RevertInv, Remaining
  <2>5. Differs(file', base', run.led.entries, lookalike')
    BY <1>4, <2>4 DEF Differs, Recorded
  <2>6. RunInv'
    BY <1>1, <1>2, <1>4, <2>1, <2>2, <2>3, <2>5 DEF RunInv
  <2>7. ledger'.entries = run.led.entries
    BY <1>1, <2>2 DEF RevertInv
  <2> QED
    BY <1>3, <2>1, <2>2, <2>5, <2>6, <2>7, RunsOn
<1> QED
  BY <1>5, <1>6

LEMMA ReplaceFailsStep == ASSUME SettingsInv, ReplaceFails PROVE SettingsInv'
<1>1. pc = "replace" /\ UNCHANGED <<file, ledger, aside, base, lookalike>> /\ pc \notin Reading
  BY DEF ReplaceFails, others, Reading
<1>2. /\ RunInv /\ FileInv /\ LedgerInv /\ RunFields /\ aside = None
      /\ Differs(file, base, ledger.entries, lookalike)
  BY <1>1, RunHolds
<1>3. FileInv' /\ LedgerInv'
  BY <1>1, <1>2 DEF FileInv, LedgerInv
<1>4. CASE run.kind = "apply"
  <2>1. pc' = "rollback" /\ run' = [run EXCEPT !.then = "refuse"]
    BY <1>4 DEF ReplaceFails, Goto
  <2>2. /\ run'.kind = run.kind /\ run'.setting = run.setting /\ run'.led = run.led /\ run'.snap = run.snap
        /\ run'.new = run.new /\ run'.plan = run.plan /\ RunFields'
    BY <1>2, <2>1 DEF RunFields
  <2>3. ApplyInv
    BY <1>2, <1>4 DEF RunInv
  <2>4. ApplyInv'
    BY <1>1, <2>1, <2>2, <2>3 DEF ApplyInv
  <2>5. RunInv'
    BY <1>1, <1>2, <1>4, <2>1, <2>2, <2>4 DEF RunInv
  <2> QED
    BY <1>1, <1>2, <1>3, <2>1, <2>2, <2>5, RunsOn
<1>5. CASE run.kind # "apply"
  <2>1. Ended(result')
    BY <1>5 DEF ReplaceFails, Ended
  <2>2. ledger.entries = run.led.entries /\ Looks(base, run.led.entries, lookalike)
    BY <1>2, <1>5 DEF RunInv, RevertInv
  <2> QED
    BY <1>1, <1>2, <2>1, <2>2, EndsWith DEF LedgerInv
<1> QED
  BY <1>4, <1>5

LEMMA RollbackStep == ASSUME SettingsInv, Rollback PROVE SettingsInv'
<1>1. /\ pc = "rollback" /\ UNCHANGED <<file, aside, base, lookalike>> /\ pc \notin Reading
      /\ ledger' = run.led
  BY DEF Rollback, others, Reading
<1>2. RunInv /\ FileInv /\ LedgerInv /\ RunFields /\ aside = None
  BY <1>1, RunHolds
<1>3. FileInv' /\ LedgerInv'
  BY <1>1, <1>2 DEF FileInv, LedgerInv, RunInv
<1>4. /\ Differs(file, base, ledger'.entries, lookalike) /\ Looks(base, ledger'.entries, lookalike)
      /\ run.setting \in Settings /\ run.kind \in {"apply", "revert"} /\ run.led \in Ledgers
  BY <1>1, <1>2 DEF RunInv
<1>5. CASE run.then = "retry" /\ run.attempt < 2
  <2>1. pc' = "read" /\ run' = [run EXCEPT !.attempt = @ + 1]
    BY <1>5 DEF Rollback, AfterRollback, Goto
  <2>2. run'.kind = run.kind /\ run'.setting = run.setting /\ RunFields'
    BY <1>2, <2>1 DEF RunFields
  <2> QED
    BY <1>1, <1>2, <1>3, <1>4, <2>1, <2>2, EndsAtRest DEF Reading
<1>6. CASE ~(run.then = "retry" /\ run.attempt < 2)
  <2>1. Ended(result')
    BY <1>6 DEF Rollback, AfterRollback, Ended
  <2> QED
    BY <1>1, <1>2, <1>4, <2>1, EndsWith
<1> QED
  BY <1>5, <1>6

LEMMA RecordRevertStep == ASSUME SettingsInv, RecordRevert PROVE SettingsInv'
<1>1. pc = "record" /\ UNCHANGED <<file, aside, base, lookalike>> /\ pc \notin Reading /\ Ended(result')
  BY DEF RecordRevert, others, Reading, Ended
<1>2. RunInv /\ FileInv /\ LedgerInv /\ RunFields /\ aside = None
  BY <1>1, RunHolds
<1>3. run.kind = "revert" /\ RevertInv
  BY <1>1, <1>2 DEF RunInv, ApplyInv
<1>4. Differs(file, base, run.led.entries, lookalike) /\ Looks(base, run.led.entries, lookalike)
  BY <1>2 DEF RunInv
<1>5. CASE ledger' = run.plan
  <2>1. run.plan.entries = [k \in Recorded(run.led) \ KeysOf(run.setting) |-> run.led.entries[k]]
    BY <1>3 DEF RevertInv, Remaining
  <2>2. Looks(base, run.plan.entries, lookalike)
    BY <1>4, <2>1 DEF Looks, Recorded
  <2>3. Differs(file, base, run.plan.entries, lookalike) /\ run.plan \in Ledgers
    BY <1>1, <1>2, <1>3 DEF RevertInv, RunInv
  <2> QED
    BY <1>1, <1>2, <1>5, <2>2, <2>3, EndsWith
<1>6. CASE UNCHANGED ledger
  <2>1. ledger'.entries = run.led.entries /\ ledger' \in Ledgers
    BY <1>2, <1>3, <1>6 DEF RevertInv, LedgerInv
  <2> QED
    BY <1>1, <1>2, <1>4, <2>1, EndsWith
<1> QED
  BY <1>5, <1>6 DEF RecordRevert

\* A run that stops where it is leaves what it reserved reserved.
LEMMA StopsStep ==
  ASSUME SettingsInv, pc' = "idle", run' = Idle, lookalike' = lookalike \cup Reserved,
         UNCHANGED <<file, ledger, aside, base>>
  PROVE  SettingsInv'
<1>1. FileInv /\ LedgerInv
  BY DEF SettingsInv
<1>2. DOMAIN ledger.entries \subseteq Keys
  BY <1>1, LedgerFields DEF LedgerInv
<1>3. Alike(base, lookalike')
  BY <1>1, <1>2 DEF Alike, Reserved, FileInv, Recorded
<1>4. FileInv'
  BY <1>1, <1>3 DEF FileInv
<1>5. LedgerInv' /\ RunFields'
  BY <1>1, IdleFields DEF LedgerInv, RunFields, Reading
<1>6. Book.entries = IF aside' = None THEN ledger'.entries ELSE aside'.entries
  BY <1>1, BookHolds
<1>7. Differs(file, base, Book.entries, lookalike')
  BY DEF SettingsInv, Differs
<1>8. Looks(base, Book.entries, lookalike')
  <2>1. CASE aside = None
    <3>1. Book.entries = ledger.entries
      BY <1>1, <2>1, BookHolds
    <3> QED
      BY <3>1 DEF Looks, Reserved, Recorded, SettingsInv
  <2>2. CASE aside # None
    <3>1. pc \in Reading
      BY <1>1, <2>2 DEF LedgerInv
    <3> QED
      BY <3>1 DEF SettingsInv, Looks
  <2> QED
    BY <2>1, <2>2
<1> QED
  BY <1>4, <1>5, <1>6, <1>7, <1>8, EndsAtRest DEF Reading

LEMMA RollbackFailsStep == ASSUME SettingsInv, RollbackFails PROVE SettingsInv'
  BY StopsStep DEF RollbackFails, Ended

LEMMA KillStep == ASSUME SettingsInv, Kill PROVE SettingsInv'
  BY StopsStep DEF Kill, Ended

-----------------------------------------------------------------------------
(***************************************************************************)
(* The steps of the others.                                                *)
(***************************************************************************)
LEMMA SavedStep ==
  ASSUME SettingsInv, SameEdit(file, base, file', base'), UNCHANGED <<ledger, aside, pc, run>>,
         lookalike' = Lookalikes(base, base', lookalike, AtRest)
  PROVE  SettingsInv'
<1>1. FileInv /\ LedgerInv /\ RunFields /\ file \in Docs /\ base \in Docs /\ Alike(base, lookalike)
  BY DEF SettingsInv, FileInv
<1>2. ASSUME NEW entries
      PROVE  /\ Alike(base', lookalike')
             /\ Differs(file, base, entries, lookalike) => Differs(file', base', entries, lookalike')
             /\ Looks(base, entries, lookalike) /\ DOMAIN entries \subseteq AtRest /\ DOMAIN entries \subseteq Keys
                  => Looks(base', entries, lookalike')
  BY <1>1, EditKeepsRecords
<1>3. FileInv'
  BY <1>2 DEF FileInv, SameEdit
<1>4. LedgerInv' /\ RunFields'
  BY <1>1 DEF LedgerInv, RunFields
<1>5. CASE pc \in Reading
  <2>1. AtRest = DOMAIN Book.entries /\ DOMAIN Book.entries \subseteq Keys
    BY <1>1, <1>5, BookHolds DEF AtRest, Recorded, Reading
  <2>2. Differs(file', base', Book.entries, lookalike') /\ Looks(base', Book.entries, lookalike')
    BY <1>2, <1>5, <2>1 DEF SettingsInv
  <2>3. Book.entries = IF aside' = None THEN ledger'.entries ELSE aside'.entries
    BY <1>1, BookHolds
  <2> QED
    BY <1>3, <1>4, <1>5, <2>2, <2>3, EndsAtRest DEF SettingsInv
<1>6. CASE pc \notin Reading
  <2>1. RunInv /\ aside = None /\ Differs(file, base, ledger.entries, lookalike)
    BY <1>6, RunHolds
  <2>2. AtRest = DOMAIN run.led.entries /\ DOMAIN run.led.entries \subseteq Keys
    BY <1>6, <2>1, LedgerFields DEF AtRest, Recorded, Reading, RunInv
  <2>3. Differs(file', base', run.led.entries, lookalike') /\ Looks(base', run.led.entries, lookalike')
    BY <1>2, <2>1, <2>2 DEF RunInv
  <2>4. Differs(file, base, run.plan.entries, lookalike) => Differs(file', base', run.plan.entries, lookalike')
    BY <1>2
  <2>5. run.kind = "apply" => ApplyInv'
    BY <2>1, <2>4 DEF RunInv, ApplyInv
  <2>6. run.kind = "revert" => RevertInv'
    BY <2>1, <2>4 DEF RunInv, RevertInv
  <2>7. pc = "replace" => AgreedInv'
    BY <2>1 DEF RunInv, AgreedInv
  <2>8. RunInv'
    BY <2>1, <2>3, <2>5, <2>6, <2>7 DEF RunInv
  <2>9. Differs(file', base', ledger'.entries, lookalike')
    BY <1>2, <2>1
  <2> QED
    BY <1>3, <1>4, <1>6, <2>8, <2>9, RunsOn DEF SettingsInv
<1> QED
  BY <1>5, <1>6

LEMMA EditStep == ASSUME SettingsInv, Edit PROVE SettingsInv'
<1>1. file \in Docs /\ base \in Docs /\ Nests(file) /\ SameContent(file, base)
  BY DEF SettingsInv, FileInv
<1>2. \A k \in Keys : \A v \in Values(k) : v \in DocKeys
  BY DEF Values, DocKeys
<1>3. PICK f, b : Saved(f, b) /\ SameEdit(file, base, f, b)
  <2>1. CASE \E k \in Keys : \E v \in Values(k) \ {"absent"} : Saved(SetKey(file, k, v), SetKey(base, k, v))
    BY <1>1, <1>2, <2>1, KeyEditIsSame
  <2>2. CASE \E k \in Keys : Saved(DropKey(file, k), DropKey(base, k))
    BY <1>1, <2>2, KeyEditIsSame
  <2>3. CASE \E p \in {"none", "scalar"} : Saved(SetParent(file, p), SetParent(base, p))
    BY <1>1, <2>3, RestEditIsSame
  <2>4. CASE Saved(AddExtra(file), AddExtra(base))
    BY <1>1, <2>4, RestEditIsSame
  <2>5. CASE Saved(Missing, Missing)
    BY <1>1, <2>5, RestEditIsSame
  <2>6. CASE Saved([file EXCEPT !.ok = ~@], base)
    BY <1>1, <2>6, RestEditIsSame
  <2> QED
    BY <2>1, <2>2, <2>3, <2>4, <2>5, <2>6 DEF Edit
<1>4. /\ UNCHANGED <<ledger, aside, pc, run>> /\ file' = f /\ base' = b
      /\ lookalike' = Lookalikes(base, base', lookalike, AtRest)
  BY <1>3 DEF Edit, Saved, Lookalikes
<1> QED
  BY <1>3, <1>4, SavedStep

LEMMA DamageStep == ASSUME SettingsInv, Damage PROVE SettingsInv'
<1>1. UNCHANGED <<file, base, lookalike, aside, pc, run>> /\ ledger # NoLedger /\ ledger' = [ledger EXCEPT !.bad = TRUE]
  BY DEF Damage
<1>2. FileInv /\ LedgerInv /\ RunFields
  BY DEF SettingsInv
<1>3. aside = None /\ ledger' \in Ledgers /\ ledger'.entries = ledger.entries
  BY <1>1, <1>2, LedgerFields DEF LedgerInv
<1>4. FileInv' /\ LedgerInv' /\ RunFields'
  BY <1>1, <1>2, <1>3 DEF FileInv, LedgerInv, RunFields
<1>5. CASE pc \in Reading
  <2>1. Book.entries = ledger'.entries
    BY <1>2, <1>3, BookHolds
  <2> QED
    BY <1>1, <1>3, <1>4, <1>5, <2>1, EndsAtRest DEF SettingsInv
<1>6. CASE pc \notin Reading
  <2>1. RunInv /\ Differs(file, base, ledger.entries, lookalike)
    BY <1>6, RunHolds
  <2>2. (run.kind = "apply" => ApplyInv') /\ (run.kind = "revert" => RevertInv') /\ (pc = "replace" => AgreedInv')
    BY <1>1, <1>3, <2>1 DEF RunInv, ApplyInv, RevertInv, AgreedInv
  <2>3. RunInv'
    BY <1>1, <2>1, <2>2 DEF RunInv
  <2> QED
    BY <1>1, <1>3, <1>4, <1>6, <2>1, <2>3, RunsOn DEF SettingsInv
<1> QED
  BY <1>5, <1>6

LEMMA RestoreStep == ASSUME SettingsInv, Restore PROVE SettingsInv'
<1>1. UNCHANGED <<file, base, lookalike, pc, run>> /\ aside # None /\ ledger' = aside /\ aside' = None
  BY DEF Restore, others
<1>2. FileInv /\ LedgerInv /\ RunFields
  BY DEF SettingsInv
<1>3. pc \in Reading /\ ledger' \in Ledgers
  BY <1>1, <1>2 DEF LedgerInv
<1>4. FileInv' /\ LedgerInv' /\ RunFields'
  BY <1>1, <1>2, <1>3 DEF FileInv, LedgerInv, RunFields
<1>5. Book.entries = ledger'.entries
  BY <1>1, <1>2, BookHolds
<1> QED
  BY <1>1, <1>3, <1>4, <1>5, EndsAtRest DEF SettingsInv

-----------------------------------------------------------------------------
LEMMA SettingsInitially == Init => SettingsInv
<1> SUFFICES ASSUME Init PROVE SettingsInv
  OBVIOUS
<1>1. /\ base = file /\ lookalike = {} /\ ledger = NoLedger /\ aside = None /\ pc = "idle" /\ run = Idle
      /\ (file.parent # "object" => Present(file) = {})
  BY DEF Init
<1>2. file \in Docs
  BY KeysHold DEF Init
<1>3. (file.extra \/ file.parent = "scalar") => file.there
  BY DEF Init, Missing
<1>4. FileInv
  BY <1>1, <1>2, <1>3 DEF FileInv, Nests, Alike, SameContent
<1>5. LedgerInv /\ RunFields
  BY <1>1, KeysHold, IdleFields DEF LedgerInv, RunFields
<1>6. Differs(file, base, Book.entries, lookalike)
  BY <1>1 DEF Differs
<1>7. Looks(base, Book.entries, lookalike)
  <2>1. Book.entries = [k \in {} |-> None]
    BY <1>1, <1>5, BookHolds, KeysHold
  <2> QED
    BY <2>1 DEF Looks
<1> QED
  BY <1>1, <1>4, <1>5, <1>6, <1>7 DEF SettingsInv, Reading

LEMMA SettingsStep == SettingsInv /\ [Next]_vars => SettingsInv'
<1> SUFFICES ASSUME SettingsInv, [Next]_vars PROVE SettingsInv'
  OBVIOUS
<1>1. CASE Installer
  BY <1>1, BeginStep, ReadUntrustedStep, ReadRefusedStep, ReadApplyStep, ReadRevertStep, ReserveStep,
     CompareStep, ReplaceStep, ReplaceFailsStep, RollbackStep, RollbackFailsStep, RecordRevertStep,
     KillStep DEF Installer
<1>2. CASE Edit \/ Damage \/ Restore
  BY <1>2, EditStep, DamageStep, RestoreStep
<1>3. CASE UNCHANGED vars
  BY <1>3 DEF vars, others, SettingsInv, FileInv, LedgerInv, RunFields, Book, RunInv, ApplyInv, RevertInv, AgreedInv
<1> QED
  BY <1>1, <1>2, <1>3 DEF Next

LEMMA SettingsAreRight ==
  SettingsInv => OnlyRecordedDiffers /\ YoursStaysYours /\ UsersContentStays
<1> SUFFICES ASSUME SettingsInv PROVE OnlyRecordedDiffers /\ YoursStaysYours /\ UsersContentStays
  OBVIOUS
<1>1. OnlyRecordedDiffers
  BY DEF SettingsInv, Differs, OnlyRecordedDiffers, Recorded
<1>2. YoursStaysYours
  BY DEF SettingsInv, Looks, YoursStaysYours, Recorded, Reading
<1>3. UsersContentStays
  BY DEF SettingsInv, FileInv, SameContent, UsersContentStays
<1> QED
  BY <1>1, <1>2, <1>3

LEMMA SettingsLive == FilesSpec => [](about = "settings" => SettingsInv)
<1>1. FilesInit => (about = "settings" => SettingsInv)
  BY SettingsInitially DEF FilesInit
<1>2. (about = "settings" => SettingsInv) /\ [FilesNext]_<<about, vars, shared, rcVars, omzVars>>
      => (about = "settings" => SettingsInv)'
  BY OneFile, SettingsStep
<1> QED
  BY <1>1, <1>2, PTL DEF FilesSpec

(***************************************************************************)
(* Whatever is killed, fails or races with a run, a key differs from what  *)
(* it would be without the installer only if it holds our value, where     *)
(* there was none or a CLI default, and the ledger can take it back        *)
(* (agent_settings.py 644-741, 791-841).                                   *)
(***************************************************************************)
THEOREM OnlyOursEverDiffers == FilesSpec => []OnlyOursDiffers
<1>1. (about = "settings" => SettingsInv) => OnlyOursDiffers
  BY SettingsAreRight DEF OnlyOursDiffers
<1> QED
  BY <1>1, SettingsLive, PTL

(***************************************************************************)
(* A key the user set to our value is not recorded, and everything else in *)
(* the file, and the file that holds it, survive every apply and revert    *)
(* (agent_settings.py 694-741, 744-841).                                   *)
(***************************************************************************)
THEOREM UsersValueAlwaysStays == FilesSpec => []UsersValueStays
<1>1. (about = "settings" => SettingsInv) => UsersValueStays
  BY SettingsAreRight DEF UsersValueStays
<1> QED
  BY <1>1, SettingsLive, PTL
=============================================================================
