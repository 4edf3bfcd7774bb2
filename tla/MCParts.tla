------------------------------- MODULE MCParts -------------------------------
(***************************************************************************)
(* Parts and Questions, for TLC: a behaviour is a life of one part, or one *)
(* question put to an algorithm and its answer.                            *)
(***************************************************************************)
EXTENDS Parts, Questions, TLC

CONSTANTS claude, codex

-----------------------------------------------------------------------------
\* The ladders of registry.toml with the most kinds, and the tools with a hook.
MCTools ==
  {[ladder |-> l, hook |-> FALSE] : l \in
     {<<"download", "brew">>, <<"script", "brew">>, <<"script", "native", "cask">>, <<"node">>,
      <<"download", "uv-tool", "brew">>, <<"download", "native", "brew">>}}
  \cup {[ladder |-> l, hook |-> TRUE] : l \in {<<"download">>, <<"download", "brew">>}}
MCHosts == {claude, codex}

\* Two tweaks, one of them with a helper.  At most ~/.myshellrc, which every removal reads
\* first, is not UTF-8.
MCOrder == <<"ban", "t1", "t2">>
MCUndecodable == {{}, {"myshellrc"}}

-----------------------------------------------------------------------------
\* The sets of kinds the tools of registry.toml declare.
MCKindSets ==
  {{"download", "brew"}, {"native", "brew"}, {"brew", "script"}, {"script"}, {"sdkman"}, {"brew"},
   {"cask", "script"}, {"app", "cask", "download"}, {"node"}, {"native", "brew", "download"},
   {"brew", "download", "uv-tool"}, {"uv-tool"}, {"brew", "native", "script"}, {"download"},
   {"cask", "download"}, {"native", "cask", "script"}, {"cask", "download", "native"},
   {"native"}, {"host_setup"}, {"app", "download"}}

\* The catalog's one group, a group of three beside it, and a package of the user's.
MCDeclared == {[first |-> "mmdc", members |-> {"mmdc", "puppeteer"}],
               [first |-> "x", members |-> {"x", "y", "z"}]}
MCAllowBuild == {"puppeteer", "z"}
MCPackages == {"mmdc", "puppeteer", "x", "y", "z", "own"}

-----------------------------------------------------------------------------
MCMaxArgs == [npm |-> 4, npx |-> 5]

-----------------------------------------------------------------------------
\* Lines of four words; two of three that a backslash joins; and longer ones of the words that
\* may stand before what is sourced.
MCLineBounds ==
  {[words |-> Src!Words, most |-> 4, parts |-> 1], [words |-> Src!Words, most |-> 3, parts |-> 2],
   [words |-> {".", "target", "command", "-p", ">f"}, most |-> 6, parts |-> 1]}

-----------------------------------------------------------------------------
\* PATH lines of every value, and of every form; a variable of the file before one that uses it.
MCValues == {<<"m", "PATH">>, <<"PATH", "m">>, <<"n", "PATH">>, <<"m", "n", "PATH">>, <<"m">>,
             <<"B", "PATH">>, <<"v", "PATH">>, <<"B", "n", "PATH">>}
TestsOf == [f \in Rc!Forms |-> IF f = "case" THEN {TRUE} ELSE IF f \in {"and", "if"} THEN BOOLEAN ELSE {FALSE}]
Writers ==
  {Rc!Write(v, "plain", FALSE, i) : v \in MCValues, i \in BOOLEAN}
  \cup UNION {{Rc!Write(v, f, t, FALSE) : v \in {<<"m", "PATH">>, <<"B", "PATH">>}, t \in TestsOf[f]} : f \in Rc!Forms}
Assigns == {Rc!Assign(x) : x \in {"m", "n", "v", "B"}}
Bodies == {<<w>> : w \in Writers} \cup {<<a, Rc!Write(<<"B", "PATH">>, "plain", FALSE, FALSE)>> : a \in Assigns}

\* The blocks a body may stand in; the other branch of an if has a line of its own.
Wrapped(body) ==
  LET other == <<Rc!Write(<<"n", "PATH">>, "plain", FALSE, TRUE)>>
      If(test, rest) == <<Rc!Opens("if", test)>> \o rest \o <<Rc!Line("fi")>>
  IN  {<<Rc!Opens(h, t)>> \o body \o <<Rc!Line(Rc!CloserOf[h])>> : h \in {"if", "while", "case"}, t \in BOOLEAN}
      \cup {<<Rc!Line("for")>> \o body \o <<Rc!Line("done")>>, <<Rc!Line("heredoc")>> \o body \o <<Rc!Line("EOF")>>,
            <<Rc!Line("theirs >>>")>> \o body \o <<Rc!Line("<<< theirs")>>}
      \cup {If(t, other \o <<Rc!Opens("elif", u)>> \o body) : t, u \in BOOLEAN}
      \cup {If(t, body \o <<Rc!Opens("elif", u)>> \o other) : t, u \in BOOLEAN}
      \cup {If(t, other \o <<Rc!Line("else")>> \o body) : t \in BOOLEAN}

Ours == <<Rc!Line("ours >>>"), Rc!Write(<<"m", "PATH">>, "case", TRUE, FALSE), Rc!Line("<<< ours")>>

\* Each of them alone, behind a line that replaces PATH, and behind or before a block of ours; what
\* adds the variable also behind two assignments of it; two of them in a block of a block.
MCStartupFiles ==
  LET Blocks(body) == Wrapped(body) \cup {body}
      Files(body) ==
        LET Replacing == <<Rc!Write(<<"n">>, "plain", FALSE, FALSE)>>
            before == {<<>>, Ours, Replacing}
              \cup IF "B" \in Rc!Range(body[Len(body)].value) THEN {<<a, b>> : a, b \in Assigns} ELSE {}
        IN  {a \o block : a \in before, block \in Blocks(body)} \cup {block \o Ours : block \in Blocks(body)}
      Plain == {<<Rc!Write(w, "plain", FALSE, FALSE)>> : w \in {<<"m", "PATH">>, <<"m">>}}
  IN  UNION {Files(body) : body \in Bodies}
      \cup UNION {UNION {Wrapped(block) : block \in Blocks(body)} : body \in Plain}

-----------------------------------------------------------------------------
NoQuestion == [part |-> "none"]

MCInit ==
  /\ answer = Unset
  /\ \/ PartsInit /\ asked = NoQuestion
     \/ /\ life = "none" /\ Asks(asked)
        /\ EngineAsleep /\ DaemonAsleep /\ PoliciesAsleep /\ ShimsAsleep /\ RunnerAsleep

MCNext ==
  \/ PartsNext /\ UNCHANGED <<asked, answer>>
  \/ QuestionsNext /\ UNCHANGED partsVars

MCSpec == MCInit /\ [][MCNext]_<<asked, answer, partsVars>>
=============================================================================
