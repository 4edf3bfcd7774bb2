--------------------------- MODULE QuestionsProofs ---------------------------
(***************************************************************************)
(* Machine-checked proofs about the decisions of Questions, for every      *)
(* value of the constants: pnpm's globals, who owns a tool's copy, the     *)
(* arguments of the npm and npx shims, the lines of ~/.shellrc and the     *)
(* PATH lines of a startup file, however many arguments, words and lines   *)
(* there are.                                                              *)
(***************************************************************************)
EXTENDS Questions, Sequences, SequenceTheorems, FiniteSetTheorems, WellFoundedInduction, TLAPS

-----------------------------------------------------------------------------
(***************************************************************************)
(* An answer is the one its definition gives to the question.              *)
(***************************************************************************)
AnswersAsDefined ==
  /\ Asks(asked)
  /\ Answered("owner") => answer = O!ResolveOwnership(asked)
  /\ Answered("globals") => answer = UpdatePnpm(asked.from, asked.run, asked.lost)
  /\ Answered("file") => answer = [stripped |-> Rc!StripLines(asked.lines),
                                   guarded |-> Rc!GuardWriters(asked.lines),
                                   reported |-> Rc!Indices(Rc!Writers(asked.lines))]

\* A step of a shim is a step of the shim that was called.
LEMMA ShimsOnly ==
  ASSUME A!ShimArgsNext
  PROVE  asked' = asked /\ asked.part \in {"npm", "npx"}
<1>1. A!At("reads") \/ A!At("keeps") \/ A!At("translates") \/ A!At("rotates") => asked.part \in {"npm", "npx"}
  BY DEF A!At
<1>2. A!Calls("npm") \/ A!Calls("npx") => asked.part \in {"npm", "npx"}
  BY DEF A!Calls
<1>3. asked' = asked
  BY DEF A!ShimArgsNext
<1>4. A!StartsWrapper \/ A!StartsNpx => A!Calls("npm") \/ A!Calls("npx")
  BY DEF A!StartsWrapper, A!StartsNpx
<1>5. A!ReadsToken \/ A!Decides \/ A!KeepsToken \/ A!RunsVolta => A!At("reads") \/ A!At("keeps")
  BY DEF A!ReadsToken, A!Decides, A!KeepsToken, A!RunsVolta
<1>6. A!DropsYes \/ A!TakesPackage \/ A!TakesAttached \/ A!Refuses => A!At("translates")
  BY DEF A!DropsYes, A!TakesPackage, A!TakesAttached, A!Refuses, A!OptionIs
<1>7. A!FindsCommand \/ A!RotatesToken \/ A!RunsPnpm => A!At("translates") \/ A!At("rotates")
  BY DEF A!FindsCommand, A!RotatesToken, A!RunsPnpm
<1> QED
  BY <1>1, <1>2, <1>3, <1>4, <1>5, <1>6, <1>7 DEF A!ShimArgsNext

\* A step of a line is a step of the line that is asked about.
LEMMA LinesOnly ==
  ASSUME Src!SourceLinesNext
  PROVE  asked' = asked /\ asked.part = "line"
BY DEF Src!SourceLinesNext, Src!StartsLine, Src!ReadsWord, Src!JoinsNext, Src!Judges, Src!At

LEMMA AnswersInvariant == QuestionsSpec => []AnswersAsDefined
<1>1. QuestionsInit => AnswersAsDefined
  BY DEF QuestionsInit, AnswersAsDefined, Answered
<1>2. AnswersAsDefined /\ [QuestionsNext]_<<asked, answer>> => AnswersAsDefined'
  <2> SUFFICES ASSUME AnswersAsDefined, [QuestionsNext]_<<asked, answer>>
               PROVE  AnswersAsDefined'
    OBVIOUS
  <2>1. asked' = asked
    BY ShimsOnly, LinesOnly DEF QuestionsNext, TellOwner, TellGlobals, TellFile
  <2>2. Asks(asked)'
    BY <2>1 DEF AnswersAsDefined
  <2>3. CASE TellOwner
    BY <2>1, <2>2, <2>3 DEF TellOwner, AnswersAsDefined, Answered
  <2>4. CASE TellGlobals
    BY <2>1, <2>2, <2>4 DEF TellGlobals, AnswersAsDefined, Answered
  <2>5. CASE UNCHANGED <<asked, answer>>
    BY <2>2, <2>5 DEF AnswersAsDefined, Answered
  <2>6. CASE A!ShimArgsNext
    BY <2>1, <2>2, <2>6, ShimsOnly DEF AnswersAsDefined, Answered
  <2>7. CASE Src!SourceLinesNext
    BY <2>1, <2>2, <2>7, LinesOnly DEF AnswersAsDefined, Answered
  <2>8. CASE TellFile
    BY <2>1, <2>2, <2>8 DEF TellFile, AnswersAsDefined, Answered
  <2> QED
    BY <2>3, <2>4, <2>5, <2>6, <2>7, <2>8 DEF QuestionsNext
<1> QED
  BY <1>1, <1>2, PTL DEF QuestionsSpec

-----------------------------------------------------------------------------
\* A set of globals is a record, and so is a replay.
IsGlobals(g) == g = [groups |-> g.groups, unread |-> g.unread, allowed |-> g.allowed]

LEMMA LostFields ==
  ASSUME NEW g, IsGlobals(g), NEW lost
  PROVE  /\ Lost(g, lost).groups = {group \ lost : group \in g.groups} \ {{}}
         /\ Lost(g, lost).allowed = g.allowed
         /\ Packages(Lost(g, lost)) \subseteq Packages(g)
<1>1. DOMAIN g = {"groups", "unread", "allowed"}
  BY DEF IsGlobals
<1>2. /\ Lost(g, lost).groups = {group \ lost : group \in g.groups} \ {{}}
      /\ Lost(g, lost).allowed = g.allowed
  BY <1>1 DEF Lost
<1>3. ASSUME NEW p \in Packages(Lost(g, lost))
      PROVE  p \in Packages(g)
  <2>1. PICK group \in {group \ lost : group \in g.groups} : p \in group
    BY <1>2, <1>3 DEF Packages
  <2> QED
    BY <2>1 DEF Packages
<1> QED
  BY <1>2, <1>3

LEMMA SpecsCover ==
  ASSUME NEW packages
  PROVE  /\ packages \subseteq UNION Specs(packages)
         /\ \A p \in UNION Specs(packages) :
              p \in packages \/ \E d \in Formed(packages) : p \in d.members
         /\ \A d \in Formed(packages) : d.members \in Specs(packages)
<1>1. ASSUME NEW p \in packages PROVE p \in UNION Specs(packages)
  <2>1. CASE \E d \in Formed(packages) : p \in d.members
    BY <2>1 DEF Specs
  <2>2. CASE ~\E d \in Formed(packages) : p \in d.members
    <3>1. {p} \in Specs(packages)
      BY <2>2 DEF Specs
    <3> QED
      BY <3>1
  <2> QED
    BY <2>1, <2>2
<1>2. ASSUME NEW spec \in Specs(packages), NEW p \in spec
      PROVE  p \in packages \/ \E d \in Formed(packages) : p \in d.members
  BY <1>2 DEF Specs
<1>3. \A d \in Formed(packages) : d.members \in Specs(packages)
  BY DEF Specs
<1> QED
  BY <1>1, <1>2, <1>3

\* What a replay of the packages there were leaves.
LEMMA ReplayKeeps ==
  ASSUME NEW g, NEW left, NEW r, left.allowed = g.allowed,
         Packages(left) \subseteq Packages(g), r = Replayed(left, Packages(g))
  PROVE  /\ Packages(g) \subseteq Packages(r)
         /\ IncompleteGroups(r) = {}
         /\ \A d \in Declared : d.first \in Packages(g) =>
              \E group \in r.groups : d.members \subseteq group
         /\ \A p \in r.allowed \ g.allowed : \E d \in Declared : p \in d.members /\ d.first \in Packages(g)
<1> DEFINE all == Packages(g)
<1>1. /\ r.groups = Specs(all) \cup ({group \ UNION Specs(all) : group \in left.groups} \ {{}})
      /\ r.allowed = left.allowed \cup Granted(all)
  BY DEF Replayed
<1>2. UNION Specs(all) \subseteq Packages(r)
  BY <1>1 DEF Packages
<1>3. all \subseteq Packages(r)
  BY <1>2, SpecsCover
<1>4. \A d \in Formed(all) : d.members \in r.groups
  BY <1>1, SpecsCover
<1>5. \A d \in Declared : d.first \in all => d \in Formed(all)
  BY DEF Formed
<1>6. ASSUME NEW p \in Packages(r)
      PROVE  p \in all \/ \E d \in Formed(all) : p \in d.members
  <2>1. PICK group \in r.groups : p \in group
    BY DEF Packages
  <2>2. CASE group \in Specs(all)
    BY <2>1, <2>2, SpecsCover
  <2>3. CASE group \in {s \ UNION Specs(all) : s \in left.groups}
    BY <2>1, <2>3 DEF Packages
  <2> QED
    BY <1>1, <2>1, <2>2, <2>3
<1>7. ASSUME NEW d \in Declared, d.first \in Packages(r)
      PROVE  d.members \subseteq Packages(r)
  <2>1. d.first \in all
    <3>1. CASE \E e \in Formed(all) : d.first \in e.members
      <4>1. PICK e \in Formed(all) : d.first \in e.members
        BY <3>1
      <4>2. e \in Declared /\ e.first \in all
        BY <4>1 DEF Formed
      <4>3. e = d
        BY <4>1, <4>2, GlobalsAssumption
      <4> QED
        BY <4>2, <4>3
    <3> QED
      BY <1>6, <1>7, <3>1
  <2> QED
    BY <1>4, <1>5, <2>1 DEF Packages
<1>8. IncompleteGroups(r) = {}
  BY <1>7 DEF IncompleteGroups
<1>9. ASSUME NEW p \in r.allowed \ g.allowed
      PROVE  \E d \in Declared : p \in d.members /\ d.first \in all
  <2>1. p \in UNION {d.members : d \in Formed(all)}
    BY <1>1 DEF Granted
  <2> QED
    BY <2>1 DEF Formed
<1>10. \A d \in Declared : d.first \in all => \E group \in r.groups : d.members \subseteq group
  BY <1>4, <1>5
<1>11. \A p \in r.allowed \ g.allowed : \E d \in Declared : p \in d.members /\ d.first \in all
  BY <1>9
<1> QED
  BY <1>3, <1>8, <1>10, <1>11

LEMMA SplitsAreTrue ==
  ASSUME NEW g
  PROVE  SplitIsTrue(g)
<1> SUFFICES ASSUME NEW there \in SplitGroups(g), NEW group \in g.groups, there \subseteq group
             PROVE  FALSE
  BY DEF SplitIsTrue
<1>1. /\ Cardinality(there) > 1 /\ there \cap g.unread = {}
      /\ \A s \in Listing(g) : ~(there \subseteq s)
  BY DEF SplitGroups
<1>2. there # {}
  <2>1. Cardinality({}) = 0
    BY FS_EmptySet
  <2>2. CASE there = {}
    <3>1. Cardinality(there) = 0
      BY <2>1, <2>2
    <3> QED
      BY <1>1, <3>1
  <2> QED
    BY <2>2
<1>3. there \subseteq group \ g.unread
  BY <1>1
<1>4. group \ g.unread \in Listing(g)
  BY <1>2, <1>3 DEF Listing
<1> QED
  BY <1>1, <1>3, <1>4

(***************************************************************************)
(* An update of pnpm that reports success without a warning has every      *)
(* package back, whole groups whole, with no build permission that was not *)
(* there; and a split the Doctor reports is one (update.py, pnpm_globals.py*)
(* over any set of globals, whatever the update loses of them).            *)
(***************************************************************************)
THEOREM GlobalsAlwaysKept == QuestionsSpec => []GlobalsAreKept
<1>1. AnswersAsDefined => GlobalsAreKept
  <2> SUFFICES ASSUME AnswersAsDefined, Answered("globals")
               PROVE  /\ GlobalsSurvive(asked.from, answer) /\ NothingIsGranted(asked.from, answer)
                      /\ SplitIsTrue(asked.from)
    BY DEF GlobalsAreKept
  <2> DEFINE g == asked.from
             run == asked.run
             left == Lost(g, asked.lost)
  <2>1. answer = UpdatePnpm(g, run, asked.lost)
    BY DEF AnswersAsDefined
  <2>2. AskGlobals(asked)
    BY DEF AnswersAsDefined, Answered, Asks, AskOwner, AskShim, AskLine, AskFile
  <2>3. IsGlobals(g) /\ run \in Runs
    BY <2>2 DEF AskGlobals, IsGlobals
  <2>4. left.allowed = g.allowed /\ Packages(left) \subseteq Packages(g)
    BY <2>3, LostFields
  <2> HIDE DEF g, left, run
  <2>5. CASE answer = [status |-> "refused", warned |-> TRUE, globals |-> g]
    <3>1. answer.status = "refused" /\ answer.warned = TRUE /\ answer.globals = g
      BY <2>5
    <3>2. GlobalsSurvive(g, answer)
      BY <3>1 DEF GlobalsSurvive
    <3>3. NothingIsGranted(g, answer)
      BY <3>1 DEF NothingIsGranted
    <3>4. SplitIsTrue(g)
      BY SplitsAreTrue
    <3> QED
      BY <3>2, <3>3, <3>4 DEF g
  <2>6. CASE \/ answer = [status |-> "failed", warned |-> TRUE, globals |-> left]
             \/ answer = [status |-> "updated", warned |-> TRUE, globals |-> left]
    <3>1. answer.status # "refused" /\ answer.warned = TRUE /\ answer.globals = left
      BY <2>6
    <3>2. GlobalsSurvive(g, answer)
      BY <3>1 DEF GlobalsSurvive
    <3>3. NothingIsGranted(g, answer)
      BY <2>4, <3>1 DEF NothingIsGranted
    <3>4. SplitIsTrue(g)
      BY SplitsAreTrue
    <3> QED
      BY <3>2, <3>3, <3>4 DEF g
  <2>7. CASE answer = [status |-> "updated", warned |-> FALSE, globals |-> Replayed(left, Packages(g))]
    <3> DEFINE r == answer.globals
    <3>1. answer.status = "updated" /\ answer.warned = FALSE /\ r = Replayed(left, Packages(g))
      BY <2>7
    <3>2. /\ Packages(g) \subseteq Packages(r) /\ IncompleteGroups(r) = {}
          /\ \A d \in Declared : d.first \in Packages(g) =>
               \E group \in r.groups : d.members \subseteq group
          /\ \A p \in r.allowed \ g.allowed : \E d \in Declared : p \in d.members /\ d.first \in Packages(g)
      BY <2>4, <3>1, ReplayKeeps
    <3>3. GlobalsSurvive(g, answer)
      BY <3>1, <3>2 DEF GlobalsSurvive
    <3>4. NothingIsGranted(g, answer)
      BY <3>2 DEF NothingIsGranted
    <3>5. SplitIsTrue(g)
      BY SplitsAreTrue
    <3> QED
      BY <3>3, <3>4, <3>5 DEF g
  <2>8. \/ answer = [status |-> "refused", warned |-> TRUE, globals |-> g]
        \/ answer = [status |-> "failed", warned |-> TRUE, globals |-> left]
        \/ answer = [status |-> "updated", warned |-> TRUE, globals |-> left]
        \/ answer = [status |-> "updated", warned |-> FALSE, globals |-> Replayed(left, Packages(g))]
    BY <2>1, <2>3 DEF UpdatePnpm, Runs, left
  <2> QED
    BY <2>5, <2>6, <2>7, <2>8
<1> QED
  BY <1>1, AnswersInvariant, PTL
-----------------------------------------------------------------------------
(***************************************************************************)
(* A machine a question is about: every copy is at a place its bringer     *)
(* uses, and brew's listing is missing only where the tool declares brew   *)
(* or the host has none.                                                   *)
(***************************************************************************)
IsMachine(m) ==
  /\ m.tool.kinds \in KindSets /\ m.tool.binDir \in BOOLEAN /\ m.tool.otherArch \in BOOLEAN
  /\ m.host \in Platforms
  /\ DOMAIN m.copies \subseteq O!Places
  /\ \A p \in DOMAIN m.copies : m.copies[p] \in O!Bringers(m.tool.kinds, m.host, p)
  /\ m.active \in DOMAIN m.copies \cup {Unset}
  /\ "usr" \in DOMAIN m.copies => m.active # Unset
  /\ m.host.brew /\ "brew" \notin m.readable => "brew" \in m.tool.kinds

LEMMA MachinesAsked ==
  ASSUME NEW m, AskOwner(m)
  PROVE  IsMachine(m)
<1>1. PICK platform \in Platforms, t \in Owners :
        \E places \in {P \in SUBSET O!Places : Cardinality(P) <= MaxCopies} :
        \E copies \in [places -> UNION {O!Bringers(t.kinds, platform, p) : p \in places}],
           active \in places \cup {Unset}, missing \in MissingListings(t) :
          /\ \A p \in places : copies[p] \in O!Bringers(t.kinds, platform, p)
          /\ "usr" \in places => active # Unset
          /\ m = [part |-> "owner", tool |-> t, host |-> platform, copies |-> copies,
                  active |-> active, readable |-> Readable(platform, missing)]
  BY DEF AskOwner
<1>2. PICK places \in {P \in SUBSET O!Places : Cardinality(P) <= MaxCopies} :
        \E copies \in [places -> UNION {O!Bringers(t.kinds, platform, p) : p \in places}],
           active \in places \cup {Unset}, missing \in MissingListings(t) :
          /\ \A p \in places : copies[p] \in O!Bringers(t.kinds, platform, p)
          /\ "usr" \in places => active # Unset
          /\ m = [part |-> "owner", tool |-> t, host |-> platform, copies |-> copies,
                  active |-> active, readable |-> Readable(platform, missing)]
  BY <1>1
<1>3. PICK copies \in [places -> UNION {O!Bringers(t.kinds, platform, p) : p \in places}],
           active \in places \cup {Unset}, missing \in MissingListings(t) :
          /\ \A p \in places : copies[p] \in O!Bringers(t.kinds, platform, p)
          /\ "usr" \in places => active # Unset
          /\ m = [part |-> "owner", tool |-> t, host |-> platform, copies |-> copies,
                  active |-> active, readable |-> Readable(platform, missing)]
  BY <1>2
<1>4. /\ m.tool = t /\ m.host = platform /\ m.copies = copies /\ m.active = active
      /\ m.readable = Readable(platform, missing)
  BY <1>3
<1>5. DOMAIN copies = places /\ places \subseteq O!Places
  BY <1>2, <1>3
<1>6. t.kinds \in KindSets /\ t.binDir \in BOOLEAN /\ t.otherArch \in BOOLEAN
  BY <1>1 DEF Owners
<1>7. ASSUME platform.brew, "brew" \notin Readable(platform, missing)
      PROVE  "brew" \in t.kinds
  <2>1. "brew" \in missing
    BY <1>7 DEF Readable, O!Listings
  <2>2. missing \subseteq {O!ManagerOf[k] : k \in DOMAIN O!ManagerOf \cap t.kinds} \cup {"prefix"}
    BY <1>3 DEF MissingListings
  <2>3. PICK k \in DOMAIN O!ManagerOf \cap t.kinds : O!ManagerOf[k] = "brew"
    BY <2>1, <2>2
  <2> QED
    BY <2>3 DEF O!ManagerOf
<1>8. /\ \A p \in DOMAIN m.copies : m.copies[p] \in O!Bringers(m.tool.kinds, m.host, p)
      /\ m.active \in DOMAIN m.copies \cup {Unset}
      /\ "usr" \in DOMAIN m.copies => m.active # Unset
  BY <1>3, <1>4, <1>5
<1> QED
  BY <1>1, <1>4, <1>5, <1>6, <1>7, <1>8 DEF IsMachine

\* Every listing that matters was read: a manager whose method counts lists the tool's copy.
LEMMA ManagersListed ==
  ASSUME NEW m, O!Unreadable(m) = {}, NEW k \in {"brew", "cask", "node", "uv-tool"},
         O!Counts(m, k)
  PROVE  /\ O!ManagerOf[k] \in m.readable
         /\ O!Listed(m, O!ManagerOf[k]) => O!ManagerOf[k] \in O!DeclaredCandidates(m)
<1>1. DOMAIN O!ManagerOf = {"brew", "cask", "node", "uv-tool"}
  BY DEF O!ManagerOf
<1>2. O!ManagerOf[k] \in {O!ManagerOf[j] : j \in {j \in DOMAIN O!ManagerOf : O!Counts(m, j)}}
  BY <1>1
<1>3. O!ManagerOf[k] \in m.readable
  BY <1>2 DEF O!Unreadable
<1>4. ASSUME O!Listed(m, O!ManagerOf[k])
      PROVE  O!ManagerOf[k] \in O!DeclaredCandidates(m)
  BY <1>1, <1>4 DEF O!DeclaredCandidates
<1> QED
  BY <1>3, <1>4

\* The method that brought a copy makes its owner a candidate.
LEMMA CopiesAreEvidence ==
  ASSUME NEW m, IsMachine(m), O!Unreadable(m) = {}, NEW p \in DOMAIN m.copies
  PROVE  /\ m.copies[p] = "installer" => "installer" \in O!Candidates(m)
         /\ m.copies[p] = "script" /\ m.tool.binDir => "installer" \in O!Candidates(m)
         /\ m.copies[p] = "sdkman" /\ m.tool.binDir => "sdkman" \in O!Candidates(m)
         /\ m.copies[p] = "cask" => "cask" \in O!Candidates(m)
         /\ m.copies[p] = "brew" => "brew" \in O!Candidates(m)
         /\ m.copies[p] = "pnpm" /\ O!Counts(m, "node") => "pnpm" \in O!Candidates(m)
         /\ m.copies[p] = "uv" /\ O!Counts(m, "uv-tool") => "uv" \in O!Candidates(m)
<1> DEFINE by == m.copies[p]
<1>0. /\ p \in O!Places
      /\ by \in O!Bringers(m.tool.kinds, m.host, p)
      /\ m.host \in Platforms
  BY DEF IsMachine
<1>1. m.tool.kinds \subseteq O!Kinds
  BY KindsAssumption DEF IsMachine
<1>2. O!DeclaredCandidates(m) \subseteq O!Candidates(m)
  BY DEF O!Candidates
<1>3. ASSUME by = "installer" PROVE "installer" \in O!Candidates(m)
  <2>1. \/ p = "bin" /\ "download" \in m.tool.kinds
        \/ p = "apps" /\ "app" \in m.tool.kinds
    BY <1>0, <1>1, <1>3 DEF O!Bringers, O!Places, O!Kinds
  <2>2. O!Artifact(m)
    BY <2>1 DEF O!Artifact, O!Has
  <2> QED
    BY <1>2, <2>2 DEF O!DeclaredCandidates
<1>4. ASSUME by = "script", m.tool.binDir PROVE "installer" \in O!Candidates(m)
  <2>1. p = "vendor" /\ "script" \in m.tool.kinds
    BY <1>0, <1>1, <1>4 DEF O!Bringers, O!Places, O!Kinds
  <2>2. O!Located(m, "installer")
    BY <1>4, <2>1 DEF O!Located, O!Applies, O!Has
  <2> QED
    BY <1>2, <2>2 DEF O!DeclaredCandidates
<1>5. ASSUME by = "sdkman", m.tool.binDir PROVE "sdkman" \in O!Candidates(m)
  <2>1. p = "sdk" /\ "sdkman" \in m.tool.kinds
    BY <1>0, <1>1, <1>5 DEF O!Bringers, O!Places, O!Kinds
  <2>2. O!Located(m, "sdkman")
    BY <1>5, <2>1 DEF O!Located, O!Applies, O!Has
  <2> QED
    BY <1>2, <2>2 DEF O!DeclaredCandidates
<1>6. ASSUME by = "cask" PROVE "cask" \in O!Candidates(m)
  <2>1. /\ p \in {"apps", "caskroom"} /\ m.host.brew /\ "cask" \in m.tool.kinds
    BY <1>0, <1>1, <1>6 DEF O!Bringers, O!Places, O!Kinds
  <2>2. O!Counts(m, "cask")
    BY <2>1 DEF O!Counts, O!OwnershipOnly, O!Has
  <2>3. O!ManagerOf["cask"] = "cask"
    BY DEF O!ManagerOf
  <2>4. "cask" \in m.readable
    BY <2>2, <2>3, ManagersListed
  <2>5. O!Listed(m, "cask")
    BY <1>6, <2>1, <2>4 DEF O!Listed, O!At
  <2> QED
    BY <1>2, <2>2, <2>3, <2>5, ManagersListed
<1>7. ASSUME by = "brew" PROVE "brew" \in O!Candidates(m)
  <2>1. /\ p = "cellar" /\ m.host.brew /\ "brew" \in m.tool.kinds
    BY <1>0, <1>1, <1>7 DEF O!Bringers, O!Places, O!Kinds
  <2>2. O!Counts(m, "brew")
    BY <2>1 DEF O!Counts, O!OwnershipOnly, O!Has
  <2>3. O!ManagerOf["brew"] = "brew"
    BY DEF O!ManagerOf
  <2>4. "brew" \in m.readable
    BY <2>2, <2>3, ManagersListed
  <2>5. O!Listed(m, "brew")
    BY <1>7, <2>1, <2>4 DEF O!Listed, O!At
  <2> QED
    BY <1>2, <2>2, <2>3, <2>5, ManagersListed
<1>8. ASSUME by = "pnpm", O!Counts(m, "node") PROVE "pnpm" \in O!Candidates(m)
  <2>1. p = "pnpm"
    BY <1>0, <1>1, <1>8 DEF O!Bringers, O!Places, O!Kinds
  <2>2. O!ManagerOf["node"] = "pnpm"
    BY DEF O!ManagerOf
  <2>3. "pnpm" \in m.readable
    BY <1>8, <2>2, ManagersListed
  <2>4. O!Listed(m, "pnpm")
    BY <1>8, <2>1, <2>3 DEF O!Listed, O!At
  <2> QED
    BY <1>2, <1>8, <2>2, <2>4, ManagersListed
<1>9. ASSUME by = "uv", O!Counts(m, "uv-tool") PROVE "uv" \in O!Candidates(m)
  <2>1. p = "uvdir"
    BY <1>0, <1>1, <1>9 DEF O!Bringers, O!Places, O!Kinds
  <2>2. O!ManagerOf["uv-tool"] = "uv"
    BY DEF O!ManagerOf
  <2>3. "uv" \in m.readable
    BY <1>9, <2>2, ManagersListed
  <2>4. O!Listed(m, "uv")
    BY <1>9, <2>1, <2>3 DEF O!Listed, O!At
  <2> QED
    BY <1>2, <1>9, <2>2, <2>4, ManagersListed
<1> QED
  BY <1>3, <1>4, <1>5, <1>6, <1>7, <1>8, <1>9

\* What each kind of answer rests on.
LEMMA AnswersRestOn ==
  ASSUME NEW m, IsMachine(m), NEW a, a = O!ResolveOwnership(m)
  PROVE  /\ a.confidence = "direct" =>
              \/ m.active = "volta" /\ a.owner = "volta"
              \/ O!Matching(m) = {a.owner}
              \/ a.owner = O!NativeOwner(m) /\ O!NativeOwner(m) # Unset
              \/ a.owner = "os-package" /\ O!NativeOwner(m) = Unset /\ O!PathOwnerPackage(m)
         /\ a.confidence = "by-elimination" =>
              /\ m.active = Unset /\ O!Unreadable(m) = {}
              /\ O!Candidates(m) = {a.owner} \/ O!Candidates(m) = {}
<1>1. ASSUME NEW owners, O!One(owners)
      PROVE  owners = {CHOOSE c \in owners : TRUE}
  <2>1. PICK c : owners = {c}
    BY <1>1 DEF O!One
  <2>2. (CHOOSE x \in owners : TRUE) \in owners
    BY <2>1
  <2> QED
    BY <2>1, <2>2
<1>2. CASE m.active = "volta"
  <2>1. a = O!Owned("volta", "direct", O!Candidates(m) \cup {"volta"})
    BY <1>2, Zenon DEF O!ResolveOwnership
  <2> QED
    BY <1>2, <2>1 DEF O!Owned
<1>3. CASE m.active # "volta" /\ O!One(O!Matching(m))
  <2>1. a = O!Owned(CHOOSE c \in O!Matching(m) : TRUE, "direct", O!Candidates(m))
    BY <1>3, Zenon DEF O!ResolveOwnership
  <2>2. a.confidence = "direct" /\ a.owner = (CHOOSE c \in O!Matching(m) : TRUE)
    BY <2>1 DEF O!Owned
  <2> QED
    BY <1>1, <1>3, <2>2
<1>4. CASE m.active # "volta" /\ ~O!One(O!Matching(m))
  <2>1. a = IF O!NobodyTracked(m) /\ O!NativeOwner(m) # Unset
              THEN O!Owned(O!NativeOwner(m), "direct", {O!NativeOwner(m)} \cup O!Shadows(m))
            ELSE IF O!NobodyTracked(m) /\ O!PathOwnerPackage(m)
              THEN O!Owned("os-package", "direct", {"os-package"} \cup O!Shadows(m))
            ELSE IF m.active # Unset THEN O!Unknown(m) ELSE O!ByElimination(m)
    BY <1>4, Zenon DEF O!ResolveOwnership
  <2>2. CASE O!NobodyTracked(m) /\ O!NativeOwner(m) # Unset
    BY <2>1, <2>2 DEF O!Owned
  <2>3. CASE ~(O!NobodyTracked(m) /\ O!NativeOwner(m) # Unset) /\ O!NobodyTracked(m) /\ O!PathOwnerPackage(m)
    BY <2>1, <2>3 DEF O!Owned
  <2>4. O!Unknown(m).confidence = "none"
    BY DEF O!Unknown, O!Owned
  <2>5. CASE a = O!Unknown(m)
    BY <2>4, <2>5
  <2>6. CASE m.active = Unset /\ a = O!ByElimination(m)
    <3>1. CASE O!Unreadable(m) # {}
      <4>1. a = O!Unknown(m)
        BY <2>6, <3>1, Zenon DEF O!ByElimination
      <4> QED
        BY <2>5, <4>1
    <3>2. CASE O!Unreadable(m) = {} /\ O!One(O!Candidates(m))
      <4> O!Candidates(m) # {}
        BY <3>2 DEF O!One
      <4>1. a = O!Owned(CHOOSE c \in O!Candidates(m) : TRUE, "by-elimination", O!Candidates(m))
        BY <2>6, <3>2, Zenon DEF O!ByElimination
      <4>2. a.confidence = "by-elimination" /\ a.owner = (CHOOSE c \in O!Candidates(m) : TRUE)
        BY <4>1 DEF O!Owned
      <4> QED
        BY <1>1, <2>6, <3>2, <4>2
    <3>3. CASE O!Unreadable(m) = {} /\ ~O!One(O!Candidates(m))
      <4>1. a = O!Unknown(m) \/
            (O!Candidates(m) = {} /\ a = O!Owned("installer", "by-elimination", {"installer"}))
        BY <2>6, <3>3 DEF O!ByElimination
      <4>2. CASE O!Candidates(m) = {} /\ a = O!Owned("installer", "by-elimination", {"installer"})
        BY <2>6, <3>3, <4>2 DEF O!Owned
      <4> QED
        BY <2>5, <4>1, <4>2
    <3> QED
      BY <3>1, <3>2, <3>3
  <2> QED
    BY <2>1, <2>2, <2>3, <2>5, <2>6
<1> QED
  BY <1>2, <1>3, <1>4

-----------------------------------------------------------------------------
\* The one candidate whose directory the active copy is in brought it.
LEMMA MatchIsTrue ==
  ASSUME NEW m, IsMachine(m), O!Unreadable(m) = {}, m.active # Unset,
         ~O!Strayed(m, m.active), NEW o, O!Matching(m) = {o}
  PROVE  O!TrueOwner(m, m.active) = o
<1> DEFINE p == m.active
           by == m.copies[p]
<1>1. /\ p \in DOMAIN m.copies /\ p \in O!Places
      /\ by \in O!Bringers(m.tool.kinds, m.host, p)
      /\ m.host \in Platforms
  BY DEF IsMachine
<1>2. m.tool.kinds \subseteq O!Kinds
  BY KindsAssumption DEF IsMachine
<1>3. o \in O!Candidates(m) /\ o \in O!Attributed(m, p)
  BY DEF O!Matching
<1>4. \A c \in O!Candidates(m) : c \in O!Attributed(m, p) => c = o
  BY DEF O!Matching
<1>5. by # "user"
  BY <1>3 DEF O!Strayed
<1>6. CASE p = "bin"
  <2>1. by = "installer"
    BY <1>1, <1>5, <1>6 DEF O!Bringers
  <2>2. o = "installer"
    BY <1>3, <1>6 DEF O!Attributed
  <2> QED
    BY <2>1, <2>2 DEF O!TrueOwner
<1>7. CASE p = "apps"
  <2>1. by \in {"installer", "cask"}
    BY <1>1, <1>5, <1>7 DEF O!Bringers
  <2>2. O!Attributed(m, p) = {"installer", "cask"}
    BY <1>7 DEF O!Attributed
  <2>3. by \in O!Candidates(m)
    BY <1>1, <2>1, CopiesAreEvidence
  <2>4. by = o
    BY <1>4, <2>1, <2>2, <2>3
  <2> QED
    BY <2>1, <2>4 DEF O!TrueOwner
<1>8. CASE p = "prefix"
  BY <1>1, <1>5, <1>8 DEF O!Bringers
<1>9. CASE p \in {"cellar", "caskroom"}
  <2>1. /\ "prefix" \in m.readable /\ O!Attributed(m, p) = {"brew", "cask"}
    BY <1>3, <1>9 DEF O!Attributed
  <2>2. CASE p = "cellar"
    <3>1. by \in {"brew", "other formula"} /\ m.host.brew
      BY <1>1, <2>2 DEF O!Bringers
    <3>2. "brew" \in m.readable
      <4>1. CASE "brew" \in m.tool.kinds
        <5>1. O!Counts(m, "brew")
          BY <3>1, <4>1 DEF O!Counts, O!OwnershipOnly, O!Has
        <5>2. O!ManagerOf["brew"] = "brew"
          BY DEF O!ManagerOf
        <5> QED
          BY <5>1, <5>2, ManagersListed
      <4> QED
        BY <3>1, <4>1 DEF IsMachine
    <3>3. "brew" \in O!Candidates(m)
      <4>1. CASE "brew" \in O!DeclaredCandidates(m)
        BY <4>1 DEF O!Candidates
      <4>2. CASE "brew" \notin O!DeclaredCandidates(m)
        <5>1. O!CellarProof(m)
          BY <1>1, <2>1, <2>2, <3>2, <4>2 DEF O!CellarProof
        <5> QED
          BY <5>1 DEF O!Candidates
      <4> QED
        BY <4>1, <4>2
    <3>4. o = "brew"
      BY <1>4, <2>1, <3>3
    <3> QED
      BY <3>1, <3>4 DEF O!TrueOwner
  <2>3. CASE p = "caskroom"
    <3>1. by = "cask"
      BY <1>1, <2>3 DEF O!Bringers
    <3>2. o = "cask"
      BY <1>1, <1>4, <2>1, <3>1, CopiesAreEvidence
    <3> QED
      BY <3>1, <3>2 DEF O!TrueOwner
  <2> QED
    BY <1>9, <2>2, <2>3
<1>10. CASE p = "pnpm"
  <2>1. by \in {"pnpm", "gone"}
    BY <1>1, <1>10 DEF O!Bringers
  <2>2. o = "pnpm"
    BY <1>3, <1>10 DEF O!Attributed
  <2> QED
    BY <2>1, <2>2 DEF O!TrueOwner
<1>11. CASE p \in {"uvdir", "volta", "sdk"}
  <2>1. \/ p = "uvdir" /\ by = "uv"
        \/ p = "volta" /\ by = "volta"
        \/ p = "sdk" /\ by = "sdkman"
    BY <1>1, <1>11 DEF O!Bringers
  <2>2. by = o
    BY <1>3, <2>1 DEF O!Attributed
  <2> QED
    BY <2>1, <2>2 DEF O!TrueOwner
<1>12. CASE p = "vendor"
  <2>1. by = "script"
    BY <1>1, <1>12 DEF O!Bringers
  <2>2. o = "installer"
    BY <1>3, <1>12 DEF O!Attributed
  <2> QED
    BY <2>1, <2>2 DEF O!TrueOwner
<1>13. CASE p \in {"usr", "home"}
  BY <1>3, <1>13 DEF O!Attributed
<1> QED
  BY <1>1, <1>6, <1>7, <1>8, <1>9, <1>10, <1>11, <1>12, <1>13 DEF O!Places

\* What the package database says of the active copy.
LEMMA PackageIsTrue ==
  ASSUME NEW m, IsMachine(m), m.active # Unset, NEW o,
         \/ o = O!NativeOwner(m) /\ O!NativeOwner(m) # Unset
         \/ o = "os-package" /\ O!NativeOwner(m) = Unset /\ O!PathOwnerPackage(m)
  PROVE  O!TrueOwner(m, m.active) = o
<1> DEFINE p == m.active
           by == m.copies[p]
<1>1. /\ p \in DOMAIN m.copies /\ p \in O!Places
      /\ by \in O!Bringers(m.tool.kinds, m.host, p)
      /\ m.host \in Platforms
  BY DEF IsMachine
<1>2. /\ m.tool.kinds \subseteq O!Kinds
      /\ "host_setup" \in m.tool.kinds => "native" \notin m.tool.kinds
  BY KindsAssumption DEF IsMachine
<1>3. Unset \notin {"native", "rpm-ostree", "pnpm"}
  BY UnsetIsNoPlace
<1>4. CASE O!Detected(m) = "pnpm"
  <2>1. O!Has(m, "host_setup")
    BY <1>3, <1>4 DEF O!Detected
  <2>2. "native" \notin m.tool.kinds
    BY <1>2, <2>1 DEF O!Has
  <2>3. CASE o = O!NativeOwner(m) /\ O!NativeOwner(m) # Unset
    <3>1. o = "pnpm" /\ "pnpm" \in O!Attributed(m, p)
      BY <1>4, <2>3 DEF O!NativeOwner
    <3>2. p = "pnpm"
      BY <1>1, <3>1 DEF O!Attributed, O!Places
    <3>3. by \in {"pnpm", "gone"}
      BY <1>1, <3>2 DEF O!Bringers
    <3> QED
      BY <3>1, <3>3 DEF O!TrueOwner
  <2>4. CASE o = "os-package" /\ O!PathOwnerPackage(m)
    <3>1. p = "usr" /\ by \in {"native", "layered", "base"}
      BY <2>4 DEF O!PathOwnerPackage, O!At
    <3>2. by = "base"
      BY <1>1, <2>2, <3>1 DEF O!Bringers, Platforms
    <3> QED
      BY <2>4, <3>2 DEF O!TrueOwner
  <2> QED
    BY <2>3, <2>4
<1>5. CASE O!Detected(m) = "native"
  <2>1. ~m.host.immutable /\ O!At(m, "usr", {"native"})
    BY <1>3, <1>5 DEF O!Detected
  <2>2. CASE o = O!NativeOwner(m) /\ O!NativeOwner(m) # Unset
    <3>1. o = "native" /\ O!PackageOwnsPath(m)
      BY <1>5, <2>2 DEF O!NativeOwner
    <3>2. p = "usr" /\ by = "native"
      BY <2>1, <3>1 DEF O!PackageOwnsPath, O!At
    <3> QED
      BY <2>1, <3>1, <3>2 DEF O!TrueOwner
  <2>3. CASE O!NativeOwner(m) = Unset /\ O!PathOwnerPackage(m)
    <3>1. p = "usr"
      BY <2>3 DEF O!PathOwnerPackage
    <3>2. O!PackageOwnsPath(m)
      BY <2>1, <3>1 DEF O!PackageOwnsPath, O!At
    <3>3. O!NativeOwner(m) = "native"
      BY <1>5, <3>2 DEF O!NativeOwner
    <3> QED
      BY <1>3, <2>3, <3>3
  <2> QED
    BY <2>2, <2>3
<1>6. CASE O!Detected(m) = "rpm-ostree"
  <2>1. O!At(m, "usr", {"layered"})
    BY <1>3, <1>6 DEF O!Detected
  <2>2. CASE o = O!NativeOwner(m) /\ O!NativeOwner(m) # Unset
    <3>1. o = "rpm-ostree" /\ O!PackageOwnsPath(m)
      BY <1>6, <2>2 DEF O!NativeOwner
    <3>2. p = "usr" /\ by = "layered"
      BY <2>1, <3>1 DEF O!PackageOwnsPath, O!At
    <3> QED
      BY <2>1, <3>1, <3>2 DEF O!TrueOwner
  <2>3. CASE O!NativeOwner(m) = Unset /\ O!PathOwnerPackage(m)
    <3>1. p = "usr"
      BY <2>3 DEF O!PathOwnerPackage
    <3>2. O!PackageOwnsPath(m)
      BY <2>1, <3>1 DEF O!PackageOwnsPath, O!At
    <3>3. O!NativeOwner(m) = "rpm-ostree"
      BY <1>6, <3>2 DEF O!NativeOwner
    <3> QED
      BY <1>3, <2>3, <3>3
  <2> QED
    BY <2>2, <2>3
<1>7. CASE O!Detected(m) = Unset
  <2>1. O!NativeOwner(m) = Unset
    BY <1>3, <1>7 DEF O!NativeOwner
  <2>2. o = "os-package" /\ p = "usr" /\ by \in {"native", "layered", "base"}
    BY <2>1 DEF O!PathOwnerPackage, O!At
  <2>3. by = "native" => m.host.immutable
    BY <1>1, <1>3, <1>7, <2>2 DEF O!Detected, O!Has, O!At, O!Bringers, Platforms
  <2>4. by # "layered"
    BY <1>1, <1>3, <1>7, <2>2 DEF O!Detected, O!Has, O!At, O!Bringers, Platforms
  <2> QED
    BY <2>2, <2>3, <2>4 DEF O!TrueOwner
<1> QED
  BY <1>4, <1>5, <1>6, <1>7 DEF O!Detected

-----------------------------------------------------------------------------
\* Whatever a declared method brought, its owner is a candidate.
LEMMA CompetitorsAreCandidates ==
  ASSUME NEW m, IsMachine(m), O!Unreadable(m) = {}, m.active = Unset,
         NEW p \in DOMAIN m.copies,
         O!TrueOwner(m, p) \in O!Competing(m), m.copies[p] \notin {"gone", "other formula"},
         p \in {"vendor", "sdk"} => m.tool.binDir
  PROVE  O!TrueOwner(m, p) \in O!Candidates(m)
<1> DEFINE by == m.copies[p]
<1>1. /\ p \in O!Places /\ p # "usr"
      /\ by \in O!Bringers(m.tool.kinds, m.host, p)
  BY DEF IsMachine
<1>2. m.tool.kinds \subseteq O!Kinds
  BY KindsAssumption DEF IsMachine
<1>3. O!Competing(m) \subseteq {"brew", "cask", "pnpm", "uv", "installer", "sdkman"}
  BY DEF O!Competing, O!ManagerOf
<1>4. /\ "pnpm" \in O!Competing(m) => O!Counts(m, "node")
      /\ "uv" \in O!Competing(m) => O!Counts(m, "uv-tool")
  BY DEF O!Competing, O!ManagerOf
<1>5. by \in {"user", "installer", "cask", "brew", "pnpm", "uv", "volta", "sdkman", "script"}
  BY <1>1, <1>2 DEF O!Bringers, O!Places, O!Kinds
<1>6. by # "user" /\ by # "volta"
  BY <1>3 DEF O!TrueOwner
<1>7. CASE by \in {"installer", "script"}
  <2>1. by = "script" => p = "vendor"
    BY <1>1, <1>2 DEF O!Bringers, O!Places, O!Kinds
  <2>2. "installer" \in O!Candidates(m)
    BY <1>7, <2>1, CopiesAreEvidence
  <2>3. O!TrueOwner(m, p) = "installer"
    BY <1>7 DEF O!TrueOwner
  <2> QED
    BY <2>2, <2>3
<1>8. CASE by = "sdkman"
  <2>1. p = "sdk"
    BY <1>1, <1>2, <1>8 DEF O!Bringers, O!Places, O!Kinds
  <2>2. "sdkman" \in O!Candidates(m)
    BY <1>8, <2>1, CopiesAreEvidence
  <2> QED
    BY <1>8, <2>2 DEF O!TrueOwner
<1>9. CASE by \in {"cask", "brew"}
  BY <1>9, CopiesAreEvidence DEF O!TrueOwner
<1>10. CASE by \in {"pnpm", "uv"}
  <2>1. O!TrueOwner(m, p) = by
    BY <1>10 DEF O!TrueOwner
  <2> QED
    BY <1>4, <1>10, <2>1, CopiesAreEvidence
<1> QED
  BY <1>5, <1>6, <1>7, <1>8, <1>9, <1>10

(***************************************************************************)
(* Direct evidence of an owner is about the copy that runs, and an owner   *)
(* found by elimination is the only one a declared method could have made, *)
(* on every machine, however many copies of the command are on it          *)
(* (ownership.py, resolve_ownership).                                      *)
(***************************************************************************)
THEOREM OwnerIsAlwaysTrue == QuestionsSpec => []OwnerIsTrue
<1>1. AnswersAsDefined => OwnerIsTrue
  <2> SUFFICES ASSUME AnswersAsDefined, Answered("owner")
               PROVE  O!DirectIsTrue(asked, answer) /\ O!EliminationIsSound(asked, answer)
    BY DEF OwnerIsTrue
  <2>1. answer = O!ResolveOwnership(asked)
    BY DEF AnswersAsDefined
  <2>2. AskOwner(asked)
    BY DEF AnswersAsDefined, Answered, Asks, AskGlobals, AskShim, AskLine, AskFile
  <2>3. IsMachine(asked)
    BY <2>2, MachinesAsked
  <2>4. O!DirectIsTrue(asked, answer)
    <3> SUFFICES ASSUME answer.confidence = "direct", asked.active # Unset,
                        O!Unreadable(asked) = {}, ~O!Strayed(asked, asked.active)
                 PROVE  O!TrueOwner(asked, asked.active) = answer.owner
      BY DEF O!DirectIsTrue
    <3>1. CASE asked.active = "volta" /\ answer.owner = "volta"
      <4>1. asked.copies["volta"] \in O!Bringers(asked.tool.kinds, asked.host, "volta")
        BY <2>3, <3>1 DEF IsMachine
      <4>2. asked.copies["volta"] = "volta"
        BY <4>1 DEF O!Bringers
      <4> QED
        BY <3>1, <4>2 DEF O!TrueOwner
    <3>2. CASE O!Matching(asked) = {answer.owner}
      BY <2>3, <3>2, MatchIsTrue
    <3>3. CASE \/ answer.owner = O!NativeOwner(asked) /\ O!NativeOwner(asked) # Unset
               \/ /\ answer.owner = "os-package" /\ O!NativeOwner(asked) = Unset
                  /\ O!PathOwnerPackage(asked)
      BY <2>3, <3>3, PackageIsTrue
    <3> QED
      BY <2>1, <2>3, <3>1, <3>2, <3>3, AnswersRestOn
  <2>5. O!EliminationIsSound(asked, answer)
    <3> SUFFICES ASSUME answer.confidence = "by-elimination", NEW p \in DOMAIN asked.copies,
                        O!TrueOwner(asked, p) \in O!Competing(asked),
                        asked.copies[p] \notin {"gone", "other formula"},
                        p \in {"vendor", "sdk"} => asked.tool.binDir
                 PROVE  O!TrueOwner(asked, p) = answer.owner
      BY DEF O!EliminationIsSound
    <3>1. /\ asked.active = Unset /\ O!Unreadable(asked) = {}
          /\ O!Candidates(asked) = {answer.owner} \/ O!Candidates(asked) = {}
      BY <2>1, <2>3, AnswersRestOn
    <3>2. O!TrueOwner(asked, p) \in O!Candidates(asked)
      BY <2>3, <3>1, CompetitorsAreCandidates
    <3> QED
      BY <3>1, <3>2
  <2> QED
    BY <2>4, <2>5
<1> QED
  BY <1>1, AnswersInvariant, PTL

-----------------------------------------------------------------------------
(***************************************************************************)
(* The shims.  A rotation has left argc of the tokens in front, and behind *)
(* them the texts of the positions P it has read and kept, in their order. *)
(***************************************************************************)
Marks(pos, n, P) ==
  /\ pos \in [1 .. n -> P]
  /\ \A p \in P : \E k \in 1 .. n : pos[k] = p
  /\ \A j, k \in 1 .. n : j < k => pos[j] < pos[k]

Queued(tokens, texts, argv, argc, P) ==
  /\ argc \in 0 .. Len(tokens) /\ argc <= Len(argv)
  /\ P \subseteq 1 .. Len(tokens) - argc
  /\ \A i \in 1 .. argc : argv[i] = tokens[Len(tokens) - argc + i]
  /\ \E pos : /\ Marks(pos, Len(argv) - argc, P)
              /\ \A k \in 1 .. Len(argv) - argc : argv[argc + k] = texts[pos[k]]

\* Nothing is read yet.
LEMMA QueueStart ==
  ASSUME NEW Elems, NEW tokens \in Seq(Elems), NEW texts
  PROVE  Queued(tokens, texts, tokens, Len(tokens), {})
<1> DEFINE none == [k \in 1 .. 0 |-> 0]
<1>1. Marks(none, 0, {})
  BY DEF Marks
<1> QED
  BY <1>1, Len(tokens) \in Nat DEF Queued

\* The first of argv is the next token; it is taken out.
LEMMA QueueTail ==
  ASSUME NEW Elems, NEW tokens \in Seq(Elems), NEW texts, NEW Items, NEW argv \in Seq(Items), NEW argc, NEW P,
         Queued(tokens, texts, argv, argc, P), argc > 0
  PROVE  /\ argv # <<>> /\ Head(argv) = tokens[Len(tokens) - argc + 1]
         /\ Tail(argv) \in Seq(Items)
         /\ Queued(tokens, texts, Tail(argv), argc - 1, P)
<1> DEFINE m == Len(argv) - argc
<1>1. /\ Len(tokens) \in Nat /\ Len(argv) \in Nat /\ argc \in 1 .. Len(tokens) /\ argc <= Len(argv)
      /\ P \subseteq 1 .. Len(tokens) - argc
      /\ \A i \in 1 .. argc : argv[i] = tokens[Len(tokens) - argc + i]
  BY DEF Queued
<1>2. PICK pos : Marks(pos, m, P) /\ \A k \in 1 .. m : argv[argc + k] = texts[pos[k]]
  BY DEF Queued
<1>3. argv # <<>> /\ Head(argv) = argv[1]
  BY <1>1
<1>4. /\ Tail(argv) \in Seq(Items) /\ Len(Tail(argv)) = Len(argv) - 1
      /\ \A i \in 1 .. Len(argv) - 1 : Tail(argv)[i] = argv[i + 1]
  BY <1>1
<1>5. \A i \in 1 .. argc - 1 : Tail(argv)[i] = tokens[Len(tokens) - (argc - 1) + i]
  BY <1>1, <1>4
<1>6. Len(Tail(argv)) - (argc - 1) = m
  BY <1>1, <1>4
<1>7. \A k \in 1 .. m : Tail(argv)[(argc - 1) + k] = texts[pos[k]]
  <2> SUFFICES ASSUME NEW k \in 1 .. m PROVE Tail(argv)[(argc - 1) + k] = texts[pos[k]]
    OBVIOUS
  <2>1. (argc - 1) + k \in 1 .. Len(argv) - 1 /\ ((argc - 1) + k) + 1 = argc + k
    BY <1>1
  <2> HIDE DEF m
  <2> QED
    BY <2>1, <1>2, <1>4
<1>8. argc - 1 \in 0 .. Len(tokens) /\ argc - 1 <= Len(Tail(argv)) /\ P \subseteq 1 .. Len(tokens) - (argc - 1)
  BY <1>1, <1>4
<1>9. Head(argv) = tokens[Len(tokens) - argc + 1]
  BY <1>1, <1>3
<1> HIDE DEF m
<1>10. \E q : /\ Marks(q, Len(Tail(argv)) - (argc - 1), P)
              /\ \A k \in 1 .. Len(Tail(argv)) - (argc - 1) : Tail(argv)[(argc - 1) + k] = texts[q[k]]
  BY <1>2, <1>6, <1>7
<1>11. Queued(tokens, texts, Tail(argv), argc - 1, P)
  BY <1>5, <1>8, <1>10 DEF Queued
<1> QED
  BY <1>3, <1>4, <1>9, <1>11

\* The text of a position behind those of P is appended.
LEMMA QueueAppend ==
  ASSUME NEW Elems, NEW tokens \in Seq(Elems), NEW texts, NEW Items, NEW argv \in Seq(Items), NEW argc, NEW P,
         Queued(tokens, texts, argv, argc, P),
         NEW p \in 1 .. Len(tokens) - argc, \A q \in P : q < p, texts[p] \in Items
  PROVE  /\ Append(argv, texts[p]) \in Seq(Items)
         /\ Queued(tokens, texts, Append(argv, texts[p]), argc, P \cup {p})
<1> DEFINE m == Len(argv) - argc
           a == Append(argv, texts[p])
<1>1. /\ Len(tokens) \in Nat /\ Len(argv) \in Nat /\ argc \in 0 .. Len(tokens) /\ argc <= Len(argv)
      /\ P \subseteq 1 .. Len(tokens) - argc
      /\ \A i \in 1 .. argc : argv[i] = tokens[Len(tokens) - argc + i]
  BY DEF Queued
<1>2. PICK pos : Marks(pos, m, P) /\ \A k \in 1 .. m : argv[argc + k] = texts[pos[k]]
  BY DEF Queued
<1>3. /\ a \in Seq(Items) /\ Len(a) = Len(argv) + 1 /\ a[Len(argv) + 1] = texts[p]
      /\ \A i \in 1 .. Len(argv) : a[i] = argv[i]
  BY <1>1
<1>4. m \in Nat /\ Len(a) - argc = m + 1
  BY <1>1, <1>3
<1> DEFINE longer == [k \in 1 .. m + 1 |-> IF k = m + 1 THEN p ELSE pos[k]]
<1>5. Marks(longer, m + 1, P \cup {p})
  <2>1. \A k \in 1 .. m : longer[k] = pos[k] /\ pos[k] \in P
    <3>1. \A k \in 1 .. m : k \in 1 .. m + 1 /\ k # m + 1
      BY <1>4
    <3>2. pos \in [1 .. m -> P]
      BY <1>2 DEF Marks
    <3> HIDE DEF m
    <3> QED
      BY <3>1, <3>2
  <2>2. longer[m + 1] = p
    BY <1>4
  <2>3. \A k \in 1 .. m + 1 : k = m + 1 \/ k \in 1 .. m
    BY <1>4
  <2>4. longer \in [1 .. m + 1 -> P \cup {p}]
    <3>1. \A k \in 1 .. m + 1 : longer[k] \in P \cup {p}
      BY <2>1, <2>2, <2>3
    <3> QED
      BY <3>1
  <2>5. \A q \in P \cup {p} : \E k \in 1 .. m + 1 : longer[k] = q
    <3>1. m + 1 \in 1 .. m + 1 /\ 1 .. m \subseteq 1 .. m + 1
      BY <1>4
    <3> HIDE DEF longer, m
    <3> QED
      BY <1>2, <2>1, <2>2, <3>1 DEF Marks
  <2>6. \A j, k \in 1 .. m + 1 : j < k => longer[j] < longer[k]
    <3> SUFFICES ASSUME NEW j \in 1 .. m + 1, NEW k \in 1 .. m + 1, j < k
                 PROVE  longer[j] < longer[k]
      OBVIOUS
    <3>1. j \in 1 .. m
      BY <1>4
    <3> HIDE DEF longer, m
    <3> QED
      BY <1>2, <2>1, <2>2, <2>3, <3>1 DEF Marks
  <2> HIDE DEF longer
  <2> QED
    BY <2>4, <2>5, <2>6 DEF Marks
<1>6. \A k \in 1 .. m + 1 : a[argc + k] = texts[longer[k]]
  <2> SUFFICES ASSUME NEW k \in 1 .. m + 1 PROVE a[argc + k] = texts[longer[k]]
    OBVIOUS
  <2>1. CASE k = m + 1
    <3>1. argc + k = Len(argv) + 1 /\ longer[k] = p
      BY <1>1, <1>4, <2>1
    <3> QED
      BY <3>1, <1>3
  <2>2. CASE k # m + 1
    <3>1. k \in 1 .. m /\ argc + k \in 1 .. Len(argv) /\ longer[k] = pos[k]
      BY <1>1, <1>4, <2>2
    <3> HIDE DEF a, longer, m
    <3> QED
      BY <3>1, <1>2, <1>3
  <2> QED
    BY <2>1, <2>2
<1>7. P \cup {p} \subseteq 1 .. Len(tokens) - argc
  BY <1>1
<1>8. \A i \in 1 .. argc : a[i] = tokens[Len(tokens) - argc + i]
  BY <1>1, <1>3
<1>9. argc <= Len(a)
  BY <1>1, <1>3
<1> HIDE DEF m, a, longer
<1>11. \E q : /\ Marks(q, Len(a) - argc, P \cup {p})
              /\ \A k \in 1 .. Len(a) - argc : a[argc + k] = texts[q[k]]
  BY <1>4, <1>5, <1>6
<1>12. argc \in 0 .. Len(tokens)
  BY <1>1
<1>10. Queued(tokens, texts, a, argc, P \cup {p})
  BY <1>7, <1>8, <1>9, <1>11, <1>12 DEF Queued
<1> QED
  BY <1>3, <1>10 DEF a


LEMMA MarksHold ==
  ASSUME NEW seq, NEW n, DOMAIN seq = 1 .. n, NEW P, NEW texts, NEW pos, Marks(pos, n, P),
         \A k \in 1 .. n : seq[k] = texts[pos[k]]
  PROVE  A!Holds(seq, P, texts)
<1>1. {pos[k] : k \in 1 .. n} = P
  BY DEF Marks
<1> QED
  BY <1>1 DEF Marks, A!Holds

Args == asked.args
Option(i) == Args[i] \in A!Options
NpmArgs == asked.part = "npm" /\ Args \in Seq(A!WrapperTokens)

(***************************************************************************)
(* The wrapper.  While it reads: what global, known and the subcommand say *)
(* of the tokens up to n; where there is an empty word in front, that is   *)
(* the first.                                                              *)
(***************************************************************************)
FirstWord(f) == ~Option(f) /\ Args[f] # "true" /\ \A j \in 1 .. f - 1 : Option(j) \/ Args[j] = "true"

ReadsInv ==
  /\ answer = A!Reads(answer.n, answer.global, answer.known, answer.subcmd)
  /\ answer.n \in 0 .. Len(Args)
  /\ answer.global => \E i \in 1 .. answer.n : Args[i] \in A!GlobalFlags
  /\ answer.known => \A i \in 1 .. answer.n : ~A!Clears(Args[i])
  /\ \/ answer.subcmd = "" /\ \A i \in 1 .. answer.n : Option(i) \/ Args[i] = "true"
     \/ \E f \in 1 .. answer.n : FirstWord(f) /\ Args[f] \in {answer.subcmd, ""}

\* While it rotates: every token is understood, and what is kept are the words but the first.
Words(n) == {i \in 1 .. n : ~Option(i)}
KeepsInv ==
  /\ answer = A!Keeps(answer.argv, answer.argc, answer.seen)
  /\ answer.seen \in BOOLEAN /\ answer.argv \in Seq(A!WrapperTokens)
  /\ \A i \in 1 .. Len(Args) : ~A!Clears(Args[i])
  /\ \E i \in 1 .. Len(Args) : Args[i] \in A!GlobalFlags
  /\ \E f \in 1 .. Len(Args) :
       /\ ~Option(f) /\ \A j \in 1 .. f - 1 : Option(j)
       /\ Args[f] \in A!Subcommands \cup {""}
       /\ answer.seen <=> f <= Len(Args) - answer.argc
       /\ Queued(Args, Args, answer.argv, answer.argc, Words(Len(Args) - answer.argc) \ {f})

NpmInv ==
  /\ A!At("reads") => ReadsInv
  /\ A!At("keeps") => KeepsInv
  /\ A!At("runs") => A!WrapperIsFaithful
  /\ ~A!At("translates") /\ ~A!At("rotates")

LEMMA ReadsFirst ==
  ASSUME NpmArgs, A!StartsWrapper, asked' = asked
  PROVE  NpmInv'
<1>1. answer' = A!Reads(0, FALSE, TRUE, "")
  BY DEF A!StartsWrapper
<1>2. answer'.at = "reads" /\ answer'.n = 0 /\ answer'.global = FALSE /\ answer'.known = TRUE
      /\ answer'.subcmd = ""
  BY <1>1 DEF A!Reads
<1>3. Len(Args) \in Nat /\ Args' = Args
  BY DEF NpmArgs, Args
<1>4. answer' = A!Reads(answer'.n, answer'.global, answer'.known, answer'.subcmd)
  BY <1>1, <1>2
<1>5. 0 \in 0 .. Len(Args) /\ 1 .. 0 = {}
  BY <1>3
<1>6. ReadsInv'
  BY <1>2, <1>3, <1>4, <1>5 DEF ReadsInv
<1> QED
  BY <1>2, <1>6 DEF NpmInv, A!At

LEMMA ReadsAToken ==
  ASSUME NpmArgs, NpmInv, A!ReadsToken, asked' = asked
  PROVE  NpmInv'
<1> DEFINE n == answer.n
           t == Args[n + 1]
           names == t \notin A!Options /\ ~A!Clears(t) /\ answer.subcmd = ""
<1>1. ReadsInv /\ n < Len(Args)
  BY DEF NpmInv, A!ReadsToken, A!args, Args
<1>2. answer' = A!Reads(n + 1, answer.global \/ t \in A!GlobalFlags, answer.known /\ ~A!Clears(t),
                        IF names THEN t ELSE answer.subcmd)
  BY DEF A!ReadsToken, A!args, Args
<1>3. /\ answer'.at = "reads" /\ answer'.n = n + 1
      /\ answer'.global = (answer.global \/ t \in A!GlobalFlags)
      /\ answer'.known = (answer.known /\ ~A!Clears(t))
      /\ answer'.subcmd = (IF names THEN t ELSE answer.subcmd)
  BY <1>2 DEF A!Reads
<1>10. Len(Args) \in Nat
  BY DEF NpmArgs
<1>11. Args' = Args
  BY DEF Args
<1>12. n \in 0 .. Len(Args)
  BY <1>1 DEF ReadsInv
<1> HIDE DEF n
<1>4. /\ Len(Args) \in Nat /\ Args' = Args /\ n \in 0 .. Len(Args) /\ n + 1 \in 0 .. Len(Args)
      /\ \A i \in 1 .. n + 1 : i = n + 1 \/ i \in 1 .. n
      /\ 1 .. n \subseteq 1 .. n + 1 /\ n + 1 \in 1 .. n + 1
      /\ 1 .. (n + 1) - 1 = 1 .. n
  BY <1>1, <1>10, <1>11, <1>12
<1>5. answer' = A!Reads(answer'.n, answer'.global, answer'.known, answer'.subcmd)
  BY <1>2, <1>3
<1> HIDE DEF n, t
<1>6. answer'.global => \E i \in 1 .. n + 1 : Args[i] \in A!GlobalFlags
  BY <1>1, <1>3, <1>4 DEF ReadsInv, n, t
<1>7. answer'.known => \A i \in 1 .. n + 1 : ~A!Clears(Args[i])
  BY <1>1, <1>3, <1>4 DEF ReadsInv, n, t
<1>8. \/ answer'.subcmd = "" /\ \A i \in 1 .. n + 1 : Option(i) \/ Args[i] = "true"
      \/ \E f \in 1 .. n + 1 : FirstWord(f) /\ Args[f] \in {answer'.subcmd, ""}
  <2>1. CASE \E f \in 1 .. n : FirstWord(f) /\ Args[f] \in {answer.subcmd, ""}
    BY <2>1, <1>3, <1>4
  <2>2. CASE answer.subcmd = "" /\ \A i \in 1 .. n : Option(i) \/ Args[i] = "true"
    <3>1. CASE names
      <4>1. FirstWord(n + 1)
        BY <2>2, <3>1, <1>4 DEF FirstWord, Option, A!Clears, t
      <4> QED
        BY <4>1, <3>1, <1>3, <1>4 DEF t
    <3>2. CASE ~names
      <4>1. Option(n + 1) \/ Args[n + 1] = "true"
        BY <2>2, <3>2 DEF Option, A!Clears, A!Options, t
      <4> QED
        BY <4>1, <2>2, <3>2, <1>3, <1>4
    <3> QED
      BY <3>1, <3>2
  <2> QED
    BY <1>1, <2>1, <2>2 DEF ReadsInv, n
<1> HIDE DEF names
<1>9. ReadsInv'
  BY <1>3, <1>4, <1>5, <1>6, <1>7, <1>8 DEF ReadsInv, FirstWord, Option
<1> QED
  BY <1>3, <1>9 DEF NpmInv, A!At


LEMMA WrapperDecides ==
  ASSUME NpmArgs, NpmInv, A!Decides, asked' = asked
  PROVE  NpmInv'
<1>1. ReadsInv /\ answer.n = Len(Args)
  BY DEF NpmInv, A!Decides, A!args, Args
<1>2. Len(Args) \in Nat
  BY DEF NpmArgs
<1>3. Args' = Args
  BY DEF Args
<1>4. CASE answer' = A!Blocked
  <2>1. answer'.at = "blocked"
    BY <1>4 DEF A!Blocked
  <2> QED
    BY <2>1 DEF NpmInv, A!At
<1>5. CASE answer.global /\ answer.known /\ answer.subcmd \in A!Subcommands
           /\ answer' = A!Keeps(Args, Len(Args), FALSE)
  <2>1. answer'.at = "keeps" /\ answer'.argv = Args /\ answer'.argc = Len(Args) /\ answer'.seen = FALSE
    BY <1>5 DEF A!Keeps
  <2>2. answer' = A!Keeps(answer'.argv, answer'.argc, answer'.seen)
    BY <1>5, <2>1
  <2>3. \A i \in 1 .. Len(Args) : ~A!Clears(Args[i])
    BY <1>1, <1>5 DEF ReadsInv
  <2>4. \E i \in 1 .. Len(Args) : Args[i] \in A!GlobalFlags
    BY <1>1, <1>5 DEF ReadsInv
  <2>5. answer.subcmd # ""
    BY <1>5 DEF A!Subcommands
  <2>6. PICK f \in 1 .. Len(Args) : FirstWord(f) /\ Args[f] \in {answer.subcmd, ""}
    BY <1>1, <2>5 DEF ReadsInv
  <2>7. \A j \in 1 .. f - 1 : Option(j)
    <3>1. \A j \in 1 .. f - 1 : j \in 1 .. Len(Args)
      BY <1>2
    <3>2. \A j \in 1 .. Len(Args) : Args[j] # "true"
      BY <2>3 DEF A!Clears
    <3> QED
      BY <2>6, <3>1, <3>2 DEF FirstWord
  <2>8. Queued(Args, Args, Args, Len(Args), {})
    BY QueueStart DEF NpmArgs
  <2>9. Words(Len(Args) - Len(Args)) \ {f} = {}
    BY <1>2 DEF Words
  <2>10. ~(f <= Len(Args) - Len(Args))
    BY <1>2
  <2>11. \E g \in 1 .. Len(Args) :
           /\ ~Option(g) /\ \A j \in 1 .. g - 1 : Option(j)
           /\ Args[g] \in A!Subcommands \cup {""}
           /\ answer'.seen <=> g <= Len(Args) - answer'.argc
           /\ Queued(Args, Args, answer'.argv, answer'.argc, Words(Len(Args) - answer'.argc) \ {g})
    BY <1>5, <2>1, <2>6, <2>7, <2>8, <2>9, <2>10 DEF FirstWord
  <2>12. KeepsInv'
    <3>1. answer'.seen \in BOOLEAN /\ answer'.argv \in Seq(A!WrapperTokens)
      BY <2>1 DEF NpmArgs
    <3> QED
      BY <1>3, <2>2, <2>3, <2>4, <2>11, <3>1 DEF KeepsInv, Option, Words
  <2> QED
    BY <2>1, <2>12 DEF NpmInv, A!At
<1> QED
  BY <1>4, <1>5 DEF A!Decides, A!args, Args

LEMMA WrapperKeeps ==
  ASSUME NpmArgs, NpmInv, A!KeepsToken, asked' = asked
  PROVE  NpmInv'
<1> DEFINE argv == answer.argv
           argc == answer.argc
           p == Len(Args) - argc + 1
           rest == Tail(argv)
<1>1. KeepsInv /\ argc > 0
  BY DEF NpmInv, A!KeepsToken
<1>2. Len(Args) \in Nat
  BY DEF NpmArgs
<1>3. Args' = Args
  BY DEF Args
<1>4. PICK f \in 1 .. Len(Args) :
        /\ ~Option(f) /\ \A j \in 1 .. f - 1 : Option(j)
        /\ Args[f] \in A!Subcommands \cup {""}
        /\ answer.seen <=> f <= Len(Args) - argc
        /\ Queued(Args, Args, argv, argc, Words(Len(Args) - argc) \ {f})
  BY <1>1 DEF KeepsInv
<1> HIDE DEF argv, argc, p, rest
<1>15. argc \in 0 .. Len(Args)
  BY <1>4 DEF Queued
<1>5. argc \in 1 .. Len(Args)
  BY <1>1, <1>2, <1>15
<1>16. argv \in Seq(A!WrapperTokens)
  BY <1>1 DEF KeepsInv, argv
<1>6. /\ argv \in Seq(A!WrapperTokens) /\ Head(argv) = Args[p] /\ rest \in Seq(A!WrapperTokens)
      /\ Queued(Args, Args, rest, argc - 1, Words(Len(Args) - argc) \ {f})
  <2>1. Args \in Seq(A!WrapperTokens) /\ argc > 0
    BY <1>1 DEF NpmArgs
  <2>2. /\ Head(argv) = Args[Len(Args) - argc + 1] /\ Tail(argv) \in Seq(A!WrapperTokens)
        /\ Queued(Args, Args, Tail(argv), argc - 1, Words(Len(Args) - argc) \ {f})
    BY <1>4, <1>16, <2>1, QueueTail
  <2> QED
    BY <1>16, <2>2 DEF p, rest
<1>7. /\ p \in 1 .. Len(Args) /\ p = Len(Args) - (argc - 1) /\ Len(Args) - argc = p - 1
      /\ p - 1 \in Nat /\ f \in Nat
  BY <1>2, <1>5 DEF p
<1>8. answer' = IF Option(p) THEN A!Keeps(rest, argc - 1, answer.seen)
                ELSE A!Keeps(IF answer.seen THEN Append(rest, Args[p]) ELSE rest, argc - 1, TRUE)
  BY <1>6 DEF A!KeepsToken, Option, argv, argc, rest
<1>9. ASSUME NEW now, NEW seen \in BOOLEAN, answer' = A!Keeps(now, argc - 1, seen),
             now \in Seq(A!WrapperTokens), seen <=> f <= p,
             Queued(Args, Args, now, argc - 1, Words(p) \ {f})
      PROVE  NpmInv'
  <2>1. answer'.at = "keeps" /\ answer'.argv = now /\ answer'.argc = argc - 1 /\ answer'.seen = seen
    BY <1>9 DEF A!Keeps
  <2>2. answer' = A!Keeps(answer'.argv, answer'.argc, answer'.seen)
    BY <1>9, <2>1
  <2>3. /\ answer'.seen <=> f <= Len(Args) - answer'.argc
        /\ Queued(Args, Args, answer'.argv, answer'.argc, Words(Len(Args) - answer'.argc) \ {f})
    BY <1>7, <1>9, <2>1
  <2>4. answer'.seen \in BOOLEAN /\ answer'.argv \in Seq(A!WrapperTokens)
    BY <1>9, <2>1
  <2>5. KeepsInv'
    BY <1>1, <1>3, <1>4, <2>2, <2>3, <2>4 DEF KeepsInv, Option, Words
  <2> QED
    BY <2>1, <2>5 DEF NpmInv, A!At
<1>10. Option(p) => Words(p) = Words(p - 1)
  BY <1>7 DEF Words
<1>11. ~Option(p) => Words(p) = Words(p - 1) \cup {p}
  BY <1>7 DEF Words
<1>12. CASE Option(p)
  <2>3. f # p
    BY <1>4, <1>12
  <2>1. f <= p <=> f <= p - 1
    BY <1>7, <2>3
  <2> QED
    BY <1>1, <1>4, <1>6, <1>7, <1>8, <1>9, <1>10, <1>12, <2>1 DEF KeepsInv
<1>13. CASE ~Option(p) /\ answer.seen
  <2>1. f <= p - 1
    BY <1>4, <1>7, <1>13 DEF argc
  <2>2. Words(p) \ {f} = (Words(p - 1) \ {f}) \cup {p}
    BY <1>7, <1>11, <1>13, <2>1
  <2>3. \A q \in Words(p - 1) \ {f} : q < p
    BY <1>7 DEF Words
  <2>4. p \in 1 .. Len(Args) - (argc - 1) /\ Args[p] \in A!WrapperTokens
    BY <1>7 DEF NpmArgs
  <2>5. /\ Append(rest, Args[p]) \in Seq(A!WrapperTokens)
        /\ Queued(Args, Args, Append(rest, Args[p]), argc - 1, (Words(p - 1) \ {f}) \cup {p})
    <3>1. Queued(Args, Args, rest, argc - 1, Words(p - 1) \ {f})
      BY <1>6, <1>7
    <3> QED
      BY <1>6, <2>3, <2>4, <3>1, QueueAppend DEF NpmArgs
  <2>6. f <= p
    BY <1>7, <2>1
  <2> QED
    BY <1>8, <1>9, <1>13, <2>2, <2>5, <2>6
<1>14. CASE ~Option(p) /\ ~answer.seen
  <2>4. ~(f <= p - 1)
    BY <1>4, <1>7, <1>14
  <2>5. ~(p \in 1 .. f - 1)
    BY <1>4, <1>14
  <2>1. f = p
    BY <1>7, <2>4, <2>5
  <2>2. Words(p) \ {f} = Words(p - 1) \ {f}
    BY <1>11, <1>14, <2>1
  <2>3. f <= p
    BY <1>7, <2>1
  <2> QED
    BY <1>6, <1>7, <1>8, <1>9, <1>14, <2>2, <2>3
<1> QED
  BY <1>1, <1>12, <1>13, <1>14 DEF KeepsInv


LEMMA QueueHolds ==
  ASSUME NEW tokens, NEW texts, NEW Items, NEW argv \in Seq(Items), NEW P, Queued(tokens, texts, argv, 0, P)
  PROVE  A!Holds(argv, P, texts)
<1> DEFINE n == Len(argv)
<1>1. n \in Nat /\ DOMAIN argv = 1 .. n /\ n - 0 = n
  OBVIOUS
<1> HIDE DEF n
<1>2. PICK pos : Marks(pos, n, P) /\ \A k \in 1 .. n : argv[0 + k] = texts[pos[k]]
  BY <1>1 DEF Queued, n
<1>3. \A k \in 1 .. n : argv[k] = texts[pos[k]]
  <2>1. \A k \in 1 .. n : 0 + k = k
    BY <1>1
  <2> QED
    BY <1>2, <2>1
<1> QED
  BY <1>1, <1>2, <1>3, MarksHold

LEMMA WrapperRuns ==
  ASSUME NpmArgs, NpmInv, A!RunsVolta, asked' = asked
  PROVE  NpmInv'
<1>2. PICK n \in Nat : n = Len(Args) /\ DOMAIN Args = 1 .. n
  BY DEF NpmArgs
<1>1. KeepsInv /\ answer.argc = 0 /\ answer' = A!Runs(answer.argv)
  BY DEF NpmInv, A!RunsVolta
<1>3. A!args = Args /\ A!args' = Args
  BY DEF Args, A!args
<1>4. answer'.at = "runs" /\ answer'.argv = answer.argv
  BY <1>1 DEF A!Runs
<1>5. PICK f \in 1 .. n :
        /\ ~Option(f) /\ \A j \in 1 .. f - 1 : Option(j)
        /\ Args[f] \in A!Subcommands \cup {""}
        /\ Queued(Args, Args, answer.argv, 0, Words(n - 0) \ {f})
  BY <1>1, <1>2 DEF KeepsInv
<1>6. \A i \in 1 .. n : Args[i] \notin A!Unknown /\ Args[i] # "true"
  BY <1>1, <1>2 DEF KeepsInv, A!Clears
<1>7. n - 0 = n /\ n + 1 \in 1 .. n + 1 /\ (n + 1) - 1 = n /\ f \in Nat /\ f \in 1 .. n
  BY n \in Nat, f \in 1 .. n
<1>8. A!NpmTakers' = {}
  <2>1. \A i \in 1 .. n - 1 : i \in 1 .. n /\ i + 1 \in 1 .. n
    BY <1>2
  <2>2. \A i \in 1 .. n - 1 : Args[i] \notin {"--registry", "-C"} /\ Args[i + 1] # "true"
    BY <1>6, <2>1 DEF A!Unknown
  <2> QED
    BY <1>2, <1>3, <2>2 DEF A!NpmTakers
<1>9. A!NpmReading({}, n + 1)'
  <2>1. A!ValuesUpTo(n + 1, {}, {})
    BY DEF A!ValuesUpTo
  <2>2. \A i \in 1 .. n : Args[i] # "--"
    BY <1>6 DEF A!Unknown
  <2>3. ~(n + 1 <= n)
    BY <1>2
  <2> QED
    BY <1>2, <1>3, <1>7, <1>8, <2>1, <2>2, <2>3 DEF A!NpmReading
<1>10. A!NpmWords({}, n + 1)' = Words(n)
  <2>1. \A i \in 1 .. n : ~(i > n + 1) /\ i < n + 1
    BY <1>2
  <2> QED
    BY <1>2, <1>3, <2>1 DEF A!NpmWords, Words, Option
<1>11. A!NpmOptions({}, n + 1)' = {i \in 1 .. n : Option(i)}
  BY <1>3, <1>7 DEF A!NpmOptions, Option
<1>12. f \in Words(n) /\ \A i \in Words(n) : f <= i
  <2>1. \A i \in 1 .. n : ~Option(i) => ~(i \in 1 .. f - 1)
    BY <1>5
  <2>2. \A i \in 1 .. n : ~(i \in 1 .. f - 1) => f <= i
    BY <1>7
  <2> QED
    BY <1>5, <1>7, <2>1, <2>2 DEF Words
<1>13. A!Holds(answer.argv, Words(n) \ {f}, Args)
  BY <1>1, <1>5, <1>7, QueueHolds DEF KeepsInv
<1>14. \E i \in 1 .. n : Option(i) /\ Args[i] \in A!GlobalFlags
  BY <1>1, <1>2 DEF KeepsInv, Option, A!Options
<1>15. \A i \in 1 .. n : Option(i) => Args[i] \in A!GlobalFlags \cup A!Booleans
  BY <1>6 DEF Option, A!Options
<1>16. A!WrapperIsFaithful'
  <2>1. n + 1 \in 1 .. Len(A!args') + 1 /\ {} \in SUBSET (1 .. (n + 1) - 1)
    BY <1>2, <1>3, <1>7
  <2>2. \E first \in A!NpmWords({}, n + 1)' :
          /\ \A i \in A!NpmWords({}, n + 1)' : first <= i
          /\ A!args'[first] \in A!Subcommands \/ A!EmptyCommand(first)'
          /\ A!Holds(answer'.argv, A!NpmWords({}, n + 1)' \ {first}, A!args')
    BY <1>3, <1>4, <1>5, <1>10, <1>12, <1>13 DEF A!EmptyCommand
  <2>3. \E i \in A!NpmOptions({}, n + 1)' : A!args'[i] \in A!GlobalFlags
    BY <1>3, <1>11, <1>14
  <2>4. \A i \in A!NpmOptions({}, n + 1)' : A!args'[i] \in A!GlobalFlags \cup A!Booleans
    BY <1>3, <1>11, <1>15
  <2> QED
    BY <1>9, <2>1, <2>2, <2>3, <2>4 DEF A!WrapperIsFaithful
<1> QED
  BY <1>4, <1>16 DEF NpmInv, A!At

(***************************************************************************)
(* A call of npm: no step of npx's redirect is one of the wrapper's.       *)
(***************************************************************************)
LEMMA NpmStep ==
  ASSUME NpmArgs, NpmInv, A!ShimArgsNext
  PROVE  NpmInv'
<1>1. asked' = asked
  BY DEF A!ShimArgsNext
<1>2. ~A!StartsNpx
  BY DEF NpmArgs, A!StartsNpx, A!Calls
<1>3. ~A!DropsYes /\ ~A!TakesPackage /\ ~A!TakesAttached /\ ~A!Refuses
  BY DEF NpmInv, A!DropsYes, A!TakesPackage, A!TakesAttached, A!Refuses, A!OptionIs
<1>4. ~A!FindsCommand /\ ~A!RotatesToken /\ ~A!RunsPnpm
  BY DEF NpmInv, A!FindsCommand, A!RotatesToken, A!RunsPnpm
<1> QED
  BY <1>1, <1>2, <1>3, <1>4, ReadsFirst, ReadsAToken, WrapperDecides, WrapperKeeps, WrapperRuns
     DEF A!ShimArgsNext


(***************************************************************************)
(* The redirect.  What it has read, n tokens with the packages of -p at V, *)
(* every reading of npx agrees with.                                       *)
(***************************************************************************)
NpxArgs == asked.part = "npx" /\ Args \in Seq(A!NpxTokens)
Texts   == [i \in DOMAIN Args |-> A!Package(Args[i])]
Pairs   == A!NpxTokens \cup {A!Package(t) : t \in A!NpxTokens}
NamedBy == {i \in DOMAIN Args : Args[i][1] = "-p"}
Fits(V, i) == IF i \in V THEN Args[i][2] # "" ELSE Args[i][1] \in {"-y", "-p", "--package"}
Taken(V, n) == {i \in 1 .. n : i \in V \/ Args[i][1] = "--package"}

Agreed(V, n) ==
  /\ V \subseteq 1 .. n /\ A!ValuesUpTo(n + 1, V, NamedBy)
  /\ \A i \in 1 .. n : Fits(V, i)
  /\ \A r \in A!NpxReadings : r.command > n /\ \A i \in 1 .. n : i \in r.values <=> i \in V

LEMMA ReadingIs ==
  ASSUME NEW r
  PROVE  r \in A!NpxReadings <=>
           /\ r \in [values : SUBSET (DOMAIN Args), command : DOMAIN Args]
           /\ r.values \subseteq 1 .. r.command /\ A!ValuesUpTo(r.command, r.values, NamedBy)
           /\ \A i \in 1 .. r.command - 1 : Fits(r.values, i)
           /\ r.command \notin r.values /\ ~A!IsOption(Args[r.command])
  BY DEF A!NpxReadings, A!NpxReading, A!args, Args, NamedBy, Fits

\* No reading takes the next token for a package.
LEMMA NextIsOption ==
  ASSUME NpxArgs, NEW n \in Nat, NEW V, Agreed(V, n), n + 1 <= Len(Args), NEW r \in A!NpxReadings
  PROVE  /\ r.command \in n + 1 .. Len(Args) /\ n + 1 \notin r.values
         /\ A!IsOption(Args[n + 1]) => r.command > n + 1 /\ Fits(r.values, n + 1)
<1>1. Len(Args) \in Nat /\ DOMAIN Args = 1 .. Len(Args)
  BY DEF NpxArgs
<1>2. /\ r.command \in 1 .. Len(Args) /\ A!ValuesUpTo(r.command, r.values, NamedBy)
      /\ \A i \in 1 .. r.command - 1 : Fits(r.values, i)
      /\ r.command \notin r.values /\ ~A!IsOption(Args[r.command])
  BY <1>1, ReadingIs
<1>3. r.command > n /\ \A i \in 1 .. n : i \in r.values <=> i \in V
  BY DEF Agreed
<1>4. r.command \in n + 1 .. Len(Args) /\ n + 1 \in 1 .. r.command /\ n + 1 \in 1 .. n + 1 /\ (n + 1) - 1 = n
  BY <1>1, <1>2, <1>3
<1>5. n + 1 \notin V
  BY DEF Agreed
<1>6. ~(n + 1 > 1 /\ n \in NamedBy \ V)
  BY <1>4, <1>5 DEF Agreed, A!ValuesUpTo
<1>7. n + 1 > 1 => n \in 1 .. n
  OBVIOUS
<1>8. n + 1 \notin r.values
  BY <1>2, <1>3, <1>4, <1>6, <1>7 DEF A!ValuesUpTo
<1>9. ASSUME A!IsOption(Args[n + 1]) PROVE r.command > n + 1 /\ Fits(r.values, n + 1)
  <2>1. r.command # n + 1
    BY <1>2, <1>9
  <2>2. r.command > n + 1 /\ n + 1 \in 1 .. r.command - 1
    BY <1>1, <1>2, <1>4, <2>1
  <2> QED
    BY <1>2, <2>2
<1> QED
  BY <1>4, <1>8, <1>9

\* A token that stands for itself is read.
LEMMA AgreedOne ==
  ASSUME NpxArgs, NEW n \in Nat, NEW V, Agreed(V, n), n + 1 <= Len(Args),
         Args[n + 1][1] \in {"-y", "--package"}
  PROVE  Agreed(V, n + 1)
<1>1. A!IsOption(Args[n + 1]) /\ n + 1 \notin NamedBy
  BY DEF A!IsOption, NamedBy
<1>2. /\ V \subseteq 1 .. n /\ A!ValuesUpTo(n + 1, V, NamedBy)
      /\ \A i \in 1 .. n : Fits(V, i)
      /\ \A r \in A!NpxReadings : \A i \in 1 .. n : i \in r.values <=> i \in V
  BY DEF Agreed
<1>3. /\ \A i \in 1 .. n + 1 : i \in 1 .. n \/ i = n + 1
      /\ \A i \in 1 .. (n + 1) + 1 : i \in 1 .. n + 1 \/ i = (n + 1) + 1
      /\ ((n + 1) + 1) - 1 = n + 1
  OBVIOUS
<1>4. n + 1 \notin V /\ (n + 1) + 1 \notin V /\ V \subseteq 1 .. n + 1
  BY <1>2
<1>5. A!ValuesUpTo((n + 1) + 1, V, NamedBy)
  BY <1>1, <1>2, <1>3, <1>4 DEF A!ValuesUpTo
<1>6. Fits(V, n + 1)
  BY <1>4 DEF Fits
<1>7. \A r \in A!NpxReadings : r.command > n + 1 /\ n + 1 \notin r.values
  BY <1>1, NextIsOption
<1> QED
  BY <1>2, <1>3, <1>4, <1>5, <1>6, <1>7 DEF Agreed

\* A -p takes the token behind it.
LEMMA AgreedTwo ==
  ASSUME NpxArgs, NEW n \in Nat, NEW V, Agreed(V, n), n + 2 <= Len(Args), Args[n + 1][1] = "-p"
  PROVE  /\ \A r \in A!NpxReadings : r.command > n + 2 /\ n + 2 \in r.values /\ Fits(r.values, n + 2)
         /\ Args[n + 2][2] # "" => Agreed(V \cup {n + 2}, n + 2)
<1> DEFINE W == V \cup {n + 2}
<1>1. Len(Args) \in Nat /\ DOMAIN Args = 1 .. Len(Args)
  BY DEF NpxArgs
<1>2. n + 1 <= Len(Args) /\ n + 1 \in 1 .. Len(Args)
  BY <1>1
<1>3. A!IsOption(Args[n + 1]) /\ n + 1 \in NamedBy
  BY <1>1, <1>2 DEF A!IsOption, NamedBy
<1>4. /\ V \subseteq 1 .. n /\ A!ValuesUpTo(n + 1, V, NamedBy)
      /\ \A i \in 1 .. n : Fits(V, i)
      /\ \A r \in A!NpxReadings : \A i \in 1 .. n : i \in r.values <=> i \in V
  BY DEF Agreed
<1>5. /\ \A i \in 1 .. n + 2 : i \in 1 .. n \/ i = n + 1 \/ i = n + 2
      /\ \A i \in 1 .. (n + 2) + 1 : i \in 1 .. n + 1 \/ i = n + 2 \/ i = (n + 2) + 1
      /\ ((n + 2) + 1) - 1 = n + 2 /\ (n + 2) - 1 = n + 1 /\ n + 2 > 1
  OBVIOUS
<1>6. n + 1 \notin V /\ n + 2 \notin V /\ (n + 2) + 1 \notin V /\ V \subseteq 1 .. n + 2
  BY <1>4
<1>7. n + 1 \notin W /\ n + 2 \in W /\ (n + 2) + 1 \notin W /\ W \subseteq 1 .. n + 2
  BY <1>6
<1>8. ASSUME NEW r \in A!NpxReadings
      PROVE  r.command > n + 2 /\ n + 1 \notin r.values /\ n + 2 \in r.values /\ Fits(r.values, n + 2)
  <2>1. r.command > n + 1 /\ n + 1 \notin r.values
    BY <1>2, <1>3, NextIsOption
  <2>2. /\ r.command \in 1 .. Len(Args) /\ A!ValuesUpTo(r.command, r.values, NamedBy)
        /\ \A i \in 1 .. r.command - 1 : Fits(r.values, i) /\ r.command \notin r.values
    BY <1>1, ReadingIs
  <2>3. n + 2 \in 1 .. r.command
    BY <1>1, <2>1, <2>2
  <2>4. n + 2 \in r.values
    BY <1>3, <1>5, <2>1, <2>2, <2>3 DEF A!ValuesUpTo
  <2>5. r.command # n + 2
    <3>1. r.command \notin r.values
      BY ReadingIs
    <3> QED
      BY <3>1, <2>4
  <2>6. r.command > n + 2 /\ n + 2 \in 1 .. r.command - 1
    BY <1>1, <2>1, <2>2, <2>5
  <2> QED
    BY <2>1, <2>2, <2>4, <2>6
<1>9. A!ValuesUpTo((n + 2) + 1, W, NamedBy)
  <2> SUFFICES ASSUME NEW i \in 1 .. (n + 2) + 1
               PROVE  i \in W <=> i > 1 /\ (i - 1) \in NamedBy \ W
    BY DEF A!ValuesUpTo
  <2>1. CASE i \in 1 .. n + 1
    <3>1. i \in W <=> i \in V
      BY <2>1
    <3>2. (i - 1) \in W <=> (i - 1) \in V
      BY <2>1
    <3>3. i \in V <=> i > 1 /\ (i - 1) \in NamedBy \ V
      BY <1>4, <2>1 DEF A!ValuesUpTo
    <3> HIDE DEF W
    <3> QED
      BY <3>1, <3>2, <3>3
  <2>2. CASE i = n + 2
    BY <1>3, <1>5, <1>7, <2>2
  <2>3. CASE i = (n + 2) + 1
    BY <1>5, <1>7, <2>3
  <2> QED
    BY <1>5, <2>1, <2>2, <2>3
<1>10. ASSUME Args[n + 2][2] # "" PROVE \A i \in 1 .. n + 2 : Fits(W, i)
  <2> SUFFICES ASSUME NEW i \in 1 .. n + 2 PROVE Fits(W, i)
    OBVIOUS
  <2>1. CASE i \in 1 .. n
    <3>1. i \in W <=> i \in V
      BY <2>1
    <3> HIDE DEF W
    <3> QED
      BY <1>4, <2>1, <3>1 DEF Fits
  <2>2. CASE i = n + 1
    BY <1>7, <2>2 DEF Fits
  <2>3. CASE i = n + 2
    BY <1>7, <1>10, <2>3 DEF Fits
  <2> QED
    BY <1>5, <2>1, <2>2, <2>3
<1>11. \A r \in A!NpxReadings : \A i \in 1 .. n + 2 : i \in r.values <=> i \in W
  <2> SUFFICES ASSUME NEW r \in A!NpxReadings, NEW i \in 1 .. n + 2
               PROVE  i \in r.values <=> i \in W
    OBVIOUS
  <2>1. CASE i \in 1 .. n
    <3>1. i \in W <=> i \in V
      BY <2>1
    <3> HIDE DEF W
    <3> QED
      BY <1>4, <2>1, <3>1
  <2>2. CASE i = n + 1 \/ i = n + 2
    BY <1>7, <1>8, <2>2
  <2> QED
    BY <1>5, <2>1, <2>2
<1> HIDE DEF W
<1>12. ASSUME Args[n + 2][2] # "" PROVE Agreed(W, n + 2)
  BY <1>7, <1>8, <1>9, <1>10, <1>11, <1>12 DEF Agreed
<1> QED
  BY <1>8, <1>12 DEF W


TranslatesInv ==
  /\ answer = A!Translates(answer.argv, answer.argc, answer.pkgs)
  /\ answer.argv \in Seq(Pairs) /\ answer.argc \in 0 .. Len(Args) /\ answer.pkgs \in Nat
  /\ Len(answer.argv) = answer.argc + answer.pkgs
  /\ \E V : /\ Agreed(V, Len(Args) - answer.argc)
            /\ Queued(Args, Texts, answer.argv, answer.argc, Taken(V, Len(Args) - answer.argc))

\* The packages, and the command with its arguments, turn round: what is left of it is in front,
\* what has been rotated is behind the packages.
Turned(r, argv, argc) ==
  LET n == Len(Args) - r.command + 1 m == Len(argv) - n IN
  /\ argc \in 0 .. n /\ m \in Nat
  /\ \A i \in 1 .. argc : argv[i] = Args[Len(Args) - argc + i]
  /\ \E pos : Marks(pos, m, A!NpxPackages(r)) /\ \A k \in 1 .. m : argv[argc + k] = Texts[pos[k]]
  /\ \A j \in 1 .. n - argc : argv[argc + m + j] = Args[r.command + j - 1]

RotatesInv ==
  /\ answer = A!Rotates(answer.argv, answer.argc)
  /\ answer.argv \in Seq(Pairs)
  /\ \E r \in A!NpxReadings : Turned(r, answer.argv, answer.argc)

NpxInv ==
  /\ A!At("translates") => TranslatesInv
  /\ A!At("rotates") => RotatesInv
  /\ A!At("runs") => A!NpxIsFaithful
  /\ A!At("blocked") => A!NpxReadings = {}
  /\ ~A!At("reads") /\ ~A!At("keeps")

LEMMA NpxTokensArePairs ==
  /\ A!NpxTokens \subseteq Pairs
  /\ \A t \in A!NpxTokens : A!Package(t) \in Pairs
  /\ \A t \in A!NpxTokens : t[1] = "--package" => A!Package(t) = t
<1>1. \A t \in A!NpxTokens : t[1] = "--package" => A!Package(t) = t
  <2> SUFFICES ASSUME NEW t \in A!NpxTokens, t[1] = "--package" PROVE A!Package(t) = t
    OBVIOUS
  <2>2. PICK a, b : t = <<a, b>>
    BY DEF A!NpxTokens
  <2>1. t = <<t[1], t[2]>>
    BY <2>2
  <2> QED
    BY <2>1 DEF A!Package
<1> QED
  BY <1>1 DEF Pairs

\* What NpxArgs says of the tokens and of their texts.
LEMMA NpxTyped ==
  ASSUME NpxArgs
  PROVE  /\ Len(Args) \in Nat /\ DOMAIN Args = 1 .. Len(Args) /\ Args \in Seq(Pairs)
         /\ \A i \in 1 .. Len(Args) : Args[i] \in A!NpxTokens /\ Texts[i] = A!Package(Args[i]) /\
              Texts[i] \in Pairs
<1>1. Len(Args) \in Nat /\ DOMAIN Args = 1 .. Len(Args) /\ \A i \in 1 .. Len(Args) : Args[i] \in A!NpxTokens
  BY DEF NpxArgs
<1>2. Args \in Seq(Pairs)
  <2>1. Args \in [1 .. Len(Args) -> Pairs]
    BY <1>1, NpxTokensArePairs DEF NpxArgs
  <2> QED
    BY <1>1, <2>1
<1>3. \A i \in 1 .. Len(Args) : Texts[i] = A!Package(Args[i])
  BY <1>1 DEF Texts
<1> QED
  BY <1>1, <1>2, <1>3, NpxTokensArePairs

LEMMA AgreedNone ==
  ASSUME NpxArgs
  PROVE  Agreed({}, 0)
<1>1. A!ValuesUpTo(0 + 1, {}, NamedBy)
  BY DEF A!ValuesUpTo
<1>2. \A r \in A!NpxReadings : r.command > 0
  <2>1. \A r \in A!NpxReadings : r.command \in 1 .. Len(Args)
    BY ReadingIs, NpxTyped
  <2> QED
    BY <2>1, NpxTyped
<1> QED
  BY <1>1, <1>2 DEF Agreed

LEMMA TranslatesNow ==
  ASSUME NpxArgs, asked' = asked,
         NEW argv \in Seq(Pairs), NEW argc \in 0 .. Len(Args), NEW pkgs \in Nat, Len(argv) = argc + pkgs,
         NEW V, NEW n, n = Len(Args) - argc, Agreed(V, n), Queued(Args, Texts, argv, argc, Taken(V, n)),
         answer' = A!Translates(argv, argc, pkgs)
  PROVE  NpxInv'
<1>1. answer'.at = "translates" /\ answer'.argv = argv /\ answer'.argc = argc /\ answer'.pkgs = pkgs
  BY DEF A!Translates
<1>2. answer' = A!Translates(answer'.argv, answer'.argc, answer'.pkgs)
  BY <1>1
<1>3. Args' = Args
  BY DEF Args
<1>4. Agreed(V, n)'
  <2>1. A!NpxReadings' = A!NpxReadings
    BY DEF A!NpxReadings, A!NpxReading, A!args
  <2>2. NamedBy' = NamedBy /\ \A i : Fits(V, i)' = Fits(V, i)
    BY <1>3 DEF NamedBy, Fits
  <2> QED
    BY <2>1, <2>2 DEF Agreed
<1>5. Texts' = Texts /\ Taken(V, n)' = Taken(V, n)
  <2>1. Texts' = Texts
    BY <1>3 DEF Texts
  <2>2. Taken(V, n)' = Taken(V, n)
    BY <1>3 DEF Taken
  <2> QED
    BY <2>1, <2>2
<1>6. \E W : /\ Agreed(W, Len(Args) - answer.argc)'
             /\ Queued(Args', Texts', answer'.argv, answer'.argc, Taken(W, Len(Args) - answer.argc)')
  <2>1. n = Len(Args') - answer'.argc
    BY <1>1, <1>3
  <2>2. Agreed(V, Len(Args) - answer.argc)'
    BY <1>4, <2>1 DEF Agreed
  <2>3. Taken(V, Len(Args) - answer.argc)' = Taken(V, n)
    BY <1>5, <2>1 DEF Taken
  <2> QED
    BY <1>1, <1>3, <1>5, <2>2, <2>3
<1>7. TranslatesInv'
  BY <1>1, <1>2, <1>3, <1>6 DEF TranslatesInv
<1> QED
  BY <1>1, <1>7 DEF NpxInv, A!At

LEMMA TranslatesFirst ==
  ASSUME NpxArgs, A!StartsNpx, asked' = asked
  PROVE  NpxInv'
<1>1. answer' = A!Translates(Args, Len(Args), 0)
  BY DEF A!StartsNpx, A!args, Args
<1>2. Taken({}, 0) = {}
  BY DEF Taken
<1>3. Queued(Args, Texts, Args, Len(Args), Taken({}, 0))
  BY <1>2, NpxTyped, QueueStart
<1>4. /\ 0 \in Nat /\ Args \in Seq(Pairs) /\ Len(Args) \in 0 .. Len(Args) /\ Len(Args) = Len(Args) + 0
      /\ 0 = Len(Args) - Len(Args)
  BY NpxTyped
<1> QED
  BY <1>1, <1>2, <1>3, <1>4, AgreedNone, TranslatesNow


\* The token in front, and what is left without it.
LEMMA NextToken ==
  ASSUME NpxArgs, NpxInv, A!At("translates"), answer.argc > 0, NEW n, n = Len(Args) - answer.argc
  PROVE  /\ n \in Nat /\ n + 1 <= Len(Args) /\ answer.argc \in 1 .. Len(Args) /\ answer.pkgs \in Nat
         /\ answer.argv \in Seq(Pairs) /\ Len(answer.argv) = answer.argc + answer.pkgs
         /\ Head(answer.argv) = Args[n + 1]
         /\ Tail(answer.argv) \in Seq(Pairs) /\ Len(Tail(answer.argv)) = Len(answer.argv) - 1
         /\ \E V : Agreed(V, n) /\ Queued(Args, Texts, Tail(answer.argv), answer.argc - 1, Taken(V, n))
<1>1. TranslatesInv /\ Len(Args) \in Nat /\ Args \in Seq(Pairs)
  BY NpxTyped DEF NpxInv
<1>3. PICK V : Agreed(V, n) /\ Queued(Args, Texts, answer.argv, answer.argc, Taken(V, n))
  BY <1>1 DEF TranslatesInv
<1>4. /\ answer.argv \in Seq(Pairs) /\ answer.argc \in 0 .. Len(Args) /\ answer.pkgs \in Nat
      /\ Len(answer.argv) = answer.argc + answer.pkgs
  BY <1>1 DEF TranslatesInv
<1>5. n \in Nat /\ n + 1 <= Len(Args) /\ answer.argc \in 1 .. Len(Args)
  BY <1>1, <1>4
<1>6. /\ answer.argv # <<>> /\ Head(answer.argv) = Args[Len(Args) - answer.argc + 1]
      /\ Tail(answer.argv) \in Seq(Pairs)
      /\ Queued(Args, Texts, Tail(answer.argv), answer.argc - 1, Taken(V, n))
  BY <1>1, <1>3, <1>4, QueueTail
<1>7. Len(Tail(answer.argv)) = Len(answer.argv) - 1
  BY <1>4, <1>6
<1> QED
  BY <1>3, <1>4, <1>5, <1>6, <1>7

\* What is taken when one token more is read.
LEMMA TakenOne ==
  ASSUME NEW n \in Nat, NEW V, Agreed(V, n)
  PROVE  /\ Args[n + 1][1] = "--package" => Taken(V, n + 1) = Taken(V, n) \cup {n + 1}
         /\ Args[n + 1][1] # "--package" => Taken(V, n + 1) = Taken(V, n)
         /\ \A q \in Taken(V, n) : q \in 1 .. n
<1>1. \A i \in 1 .. n + 1 : i \in 1 .. n \/ i = n + 1
  OBVIOUS
<1>2. 1 .. n \subseteq 1 .. n + 1 /\ n + 1 \in 1 .. n + 1 /\ n + 1 \notin V
  BY DEF Agreed
<1>3. \A q \in Taken(V, n) : q \in 1 .. n
  BY DEF Taken
<1>4. \A i : i \in Taken(V, n + 1) <=>
           i \in Taken(V, n) \/ (i = n + 1 /\ Args[n + 1][1] = "--package")
  BY <1>1, <1>2 DEF Taken
<1>5. CASE Args[n + 1][1] = "--package"
  <2>1. Taken(V, n + 1) = Taken(V, n) \cup {n + 1}
    BY <1>4, <1>5
  <2> QED
    BY <1>3, <1>5, <2>1
<1>6. CASE Args[n + 1][1] # "--package"
  <2>1. Taken(V, n + 1) = Taken(V, n)
    BY <1>4, <1>6
  <2> QED
    BY <1>3, <1>6, <2>1
<1> QED
  BY <1>5, <1>6

LEMMA RedirectDropsYes ==
  ASSUME NpxArgs, NpxInv, A!DropsYes, asked' = asked
  PROVE  NpxInv'
<1> DEFINE argv == answer.argv
           argc == answer.argc
           rest == Tail(argv)
<1>1. /\ A!At("translates") /\ argc > 0 /\ Head(argv)[1] = "-y"
      /\ answer' = A!Translates(rest, argc - 1, answer.pkgs)
  BY DEF A!DropsYes, A!OptionIs
<1>9. PICK n : n = Len(Args) - argc
  OBVIOUS
<1>2. PICK V :
        /\ n \in Nat /\ n + 1 <= Len(Args) /\ Agreed(V, n)
        /\ argc \in 1 .. Len(Args) /\ answer.pkgs \in Nat
        /\ argv \in Seq(Pairs) /\ Len(argv) = argc + answer.pkgs
        /\ Head(argv) = Args[n + 1]
        /\ rest \in Seq(Pairs) /\ Len(rest) = Len(argv) - 1
        /\ Queued(Args, Texts, rest, argc - 1, Taken(V, n))
  BY <1>1, <1>9, NextToken
<1> HIDE DEF argv, argc, rest
<1>3. Agreed(V, n + 1) /\ Taken(V, n + 1) = Taken(V, n)
  BY <1>1, <1>2, AgreedOne, TakenOne
<1>4. /\ n + 1 = Len(Args) - (argc - 1) /\ argc - 1 \in 0 .. Len(Args)
      /\ Len(rest) = (argc - 1) + answer.pkgs
  <2>1. /\ argc \in 1 .. Len(Args) /\ answer.pkgs \in Nat
        /\ Len(argv) = argc + answer.pkgs /\ Len(rest) = Len(argv) - 1
    BY <1>2
  <2>2. Len(Args) \in Nat
    BY NpxTyped
  <2> QED
    BY <1>9, <2>1, <2>2
<1>5. Queued(Args, Texts, rest, argc - 1, Taken(V, n + 1))
  BY <1>2, <1>3
<1> QED
  BY <1>1, <1>2, <1>3, <1>4, <1>5, TranslatesNow

LEMMA RedirectTakesAttached ==
  ASSUME NpxArgs, NpxInv, A!TakesAttached, asked' = asked
  PROVE  NpxInv'
<1> DEFINE argv == answer.argv
           argc == answer.argc
           rest == Tail(argv)
           now == Append(rest, Head(argv))
           left == argc - 1
           more == answer.pkgs + 1
<1>1. /\ A!At("translates") /\ argc > 0 /\ Head(argv)[1] = "--package"
      /\ answer' = A!Translates(now, left, more)
  BY DEF A!TakesAttached, A!OptionIs
<1>9. PICK n : n = Len(Args) - argc
  OBVIOUS
<1>2. PICK V :
        /\ n \in Nat /\ n + 1 <= Len(Args) /\ Agreed(V, n)
        /\ argc \in 1 .. Len(Args) /\ answer.pkgs \in Nat
        /\ argv \in Seq(Pairs) /\ Len(argv) = argc + answer.pkgs
        /\ Head(argv) = Args[n + 1]
        /\ rest \in Seq(Pairs) /\ Len(rest) = Len(argv) - 1
        /\ Queued(Args, Texts, rest, argc - 1, Taken(V, n))
  BY <1>1, <1>9, NextToken
<1> HIDE DEF argv, argc, rest
<1>3. Agreed(V, n + 1) /\ Taken(V, n + 1) = Taken(V, n) \cup {n + 1}
  BY <1>1, <1>2, AgreedOne, TakenOne
<1>4. /\ n + 1 = Len(Args) - left /\ left \in 0 .. Len(Args)
      /\ n + 1 \in 1 .. Len(Args) - left /\ n + 1 \in 1 .. Len(Args) /\ more \in Nat
      /\ Len(rest) + 1 = left + more
  <2>1. /\ n \in Nat /\ n + 1 <= Len(Args) /\ argc \in 1 .. Len(Args) /\ answer.pkgs \in Nat
        /\ Len(argv) = argc + answer.pkgs /\ Len(rest) = Len(argv) - 1
    BY <1>2
  <2>2. Len(Args) \in Nat /\ argc - 1 = left
    BY NpxTyped
  <2>3. Len(rest) + 1 = left + more
    BY <2>1, <2>2
  <2> QED
    BY <1>9, <2>1, <2>2, <2>3
<1>5. Texts[n + 1] = Head(argv) /\ Texts[n + 1] \in Pairs
  BY <1>1, <1>2, <1>4, NpxTyped, NpxTokensArePairs
<1>6. \A q \in Taken(V, n) : q < n + 1
  <2>1. \A q \in 1 .. n : q < n + 1
    BY <1>2
  <2> QED
    BY <1>2, <2>1, TakenOne
<1>7. /\ now \in Seq(Pairs)
      /\ Queued(Args, Texts, now, left, Taken(V, n + 1))
  <2>1. rest \in Seq(Pairs) /\ Queued(Args, Texts, rest, left, Taken(V, n)) /\ now = Append(rest, Texts[n + 1])
    BY <1>2, <1>5
  <2> HIDE DEF now, left
  <2>2. /\ Append(rest, Texts[n + 1]) \in Seq(Pairs)
        /\ Queued(Args, Texts, Append(rest, Texts[n + 1]), left, Taken(V, n) \cup {n + 1})
    BY <1>4, <1>5, <1>6, <2>1, NpxTyped, QueueAppend
  <2>3. Queued(Args, Texts, now, left, Taken(V, n + 1))
    BY <1>3, <2>1, <2>2
  <2> QED
    BY <2>1, <2>2, <2>3
<1>8. Len(now) = left + more
  <2>1. Len(now) = Len(rest) + 1
    <3>1. rest \in Seq(Pairs)
      BY <1>2
    <3> QED
      BY <3>1
  <2> QED
    BY <1>4, <2>1
<1> HIDE DEF now, left, more
<1> QED
  BY <1>1, <1>3, <1>4, <1>7, <1>8, TranslatesNow


\* The second of argv is the first of its tail.
LEMMA SecondToken ==
  ASSUME NEW Items, NEW argv \in Seq(Items), Len(argv) > 1
  PROVE  argv[2] = Head(Tail(argv)) /\ Len(Tail(argv)) = Len(argv) - 1 /\ Tail(argv) \in Seq(Items) /\
           Tail(argv) # <<>>
<1>1. Len(argv) \in Nat /\ argv # <<>>
  OBVIOUS
<1>2. Tail(argv) \in Seq(Items) /\ Len(Tail(argv)) = Len(argv) - 1
  BY <1>1
<1>3. 1 \in 1 .. Len(argv) - 1 /\ 1 + 1 = 2
  BY <1>1
<1>4. Tail(argv)[1] = argv[2]
  <2>1. \A i \in 1 .. Len(argv) - 1 : Tail(argv)[i] = argv[i + 1]
    BY <1>1
  <2> QED
    BY <1>3, <2>1
<1>5. Tail(argv) # <<>>
  <2>1. Len(Tail(argv)) # 0
    BY <1>1, <1>2
  <2>2. Len(<<>>) = 0
    OBVIOUS
  <2> QED
    BY <2>1, <2>2
<1>6. Head(Tail(argv)) = Tail(argv)[1]
  BY <1>2, <1>5
<1> QED
  BY <1>2, <1>4, <1>5, <1>6

LEMMA RedirectTakesPackage ==
  ASSUME NpxArgs, NpxInv, A!TakesPackage, asked' = asked
  PROVE  NpxInv'
<1> DEFINE argv == answer.argv
           argc == answer.argc
           rest == Tail(argv)
           last == Tail(rest)
           now == Append(last, A!Package(argv[2]))
           left == argc - 2
           more == answer.pkgs + 1
<1>1. /\ A!At("translates") /\ argc > 0 /\ Head(argv)[1] = "-p" /\ argc > 1 /\ argv[2][2] # ""
      /\ answer' = A!Translates(now, left, more)
  BY DEF A!TakesPackage, A!OptionIs, A!NamesPackage
<1>9. PICK n : n = Len(Args) - argc
  OBVIOUS
<1>2. PICK V :
        /\ n \in Nat /\ n + 1 <= Len(Args) /\ Agreed(V, n)
        /\ argc \in 1 .. Len(Args) /\ answer.pkgs \in Nat
        /\ argv \in Seq(Pairs) /\ Len(argv) = argc + answer.pkgs
        /\ Head(argv) = Args[n + 1]
        /\ rest \in Seq(Pairs) /\ Len(rest) = Len(argv) - 1
        /\ Queued(Args, Texts, rest, argc - 1, Taken(V, n))
  BY <1>1, <1>9, NextToken
<1> HIDE DEF argc, rest, argv
<1>15. /\ n \in Nat /\ n + 1 <= Len(Args) /\ argc \in 1 .. Len(Args) /\ answer.pkgs \in Nat
       /\ Len(argv) = argc + answer.pkgs /\ Len(rest) = Len(argv) - 1 /\ argc > 1
  BY <1>1, <1>2
<1>16. Len(Args) \in Nat
  BY NpxTyped
<1>3. /\ Len(Args) \in Nat /\ Len(argv) \in Nat /\ argc - 1 > 0 /\ Len(argv) > 1
  BY <1>15, <1>16
<1>4. argv[2] = Head(rest)
  BY <1>2, <1>3, SecondToken DEF rest
<1>5. /\ rest # <<>> /\ Head(rest) = Args[Len(Args) - (argc - 1) + 1]
      /\ last \in Seq(Pairs) /\ Queued(Args, Texts, last, argc - 1 - 1, Taken(V, n))
  BY <1>2, <1>3, NpxTyped, QueueTail
<1>6. /\ Len(Args) - (argc - 1) + 1 = n + 2 /\ n + 2 <= Len(Args) /\ n + 2 \in 1 .. Len(Args)
      /\ argc - 1 - 1 = left /\ left \in 0 .. Len(Args) /\ n + 2 = Len(Args) - left
      /\ n + 2 \in 1 .. Len(Args) - left /\ more \in Nat
  BY <1>3, <1>9, <1>15
<1>7. argv[2] = Args[n + 2] /\ Args[n + 2][2] # "" /\ Args[n + 1][1] = "-p"
  BY <1>1, <1>2, <1>4, <1>5, <1>6
<1>8. Agreed(V \cup {n + 2}, n + 2)
  BY <1>2, <1>6, <1>7, AgreedTwo
<1>10. Taken(V \cup {n + 2}, n + 2) = Taken(V, n) \cup {n + 2}
  <2>1. \A i \in 1 .. n + 2 : i \in 1 .. n \/ i = n + 1 \/ i = n + 2
    BY <1>2
  <2>2. /\ 1 .. n \subseteq 1 .. n + 2 /\ n + 2 \in 1 .. n + 2 /\ n + 1 \notin V /\ n + 1 # n + 2
        /\ n + 2 \notin 1 .. n
    BY <1>2 DEF Agreed
  <2> QED
    BY <1>7, <2>1, <2>2 DEF Taken
<1>11. \A q \in Taken(V, n) : q < n + 2
  <2>1. \A q \in 1 .. n : q < n + 2
    BY <1>2
  <2> QED
    BY <1>2, <2>1, TakenOne
<1>12. Texts[n + 2] = A!Package(argv[2]) /\ Texts[n + 2] \in Pairs
  BY <1>6, <1>7, NpxTyped
<1>13. now \in Seq(Pairs) /\ Queued(Args, Texts, now, left, Taken(V \cup {n + 2}, n + 2))
  <2>1. /\ last \in Seq(Pairs) /\ Queued(Args, Texts, last, left, Taken(V, n))
        /\ now = Append(last, Texts[n + 2])
    BY <1>5, <1>6, <1>12
  <2> HIDE DEF now, left, last
  <2>2. /\ Append(last, Texts[n + 2]) \in Seq(Pairs)
        /\ Queued(Args, Texts, Append(last, Texts[n + 2]), left, Taken(V, n) \cup {n + 2})
    BY <1>6, <1>11, <1>12, <2>1, NpxTyped, QueueAppend
  <2>3. Queued(Args, Texts, now, left, Taken(V \cup {n + 2}, n + 2))
    BY <1>10, <2>1, <2>2
  <2> QED
    BY <2>1, <2>2, <2>3
<1>14. Len(now) = left + more
  <2>1. Len(last) = Len(rest) - 1
    <3>1. rest \in Seq(Pairs) /\ rest # <<>>
      BY <1>2, <1>5
    <3> HIDE DEF now, left, more
    <3> QED
      BY <3>1
  <2> HIDE DEF last
  <2>2. Len(now) = Len(last) + 1
    <3>1. last \in Seq(Pairs)
      BY <1>5
    <3> QED
      BY <3>1
  <2>3. /\ Len(rest) = Len(argv) - 1 /\ Len(argv) = argc + answer.pkgs
        /\ argc \in Nat /\ answer.pkgs \in Nat /\ Len(argv) \in Nat /\ Len(rest) \in Nat
    BY <1>2, <1>3, NpxTyped
  <2>4. left + more = Len(argv) - 1
    BY <2>3
  <2> HIDE DEF now, argv, argc, rest, left, more
  <2>5. Len(now) = Len(rest) /\ Len(rest) = left + more
    BY <2>1, <2>2, <2>3, <2>4
  <2> QED
    BY <2>5
<1> HIDE DEF now, left, more
<1> QED
  BY <1>1, <1>6, <1>8, <1>13, <1>14, TranslatesNow

\* What the redirect refuses, npx could not read.
LEMMA RedirectRefuses ==
  ASSUME NpxArgs, NpxInv, A!Refuses, asked' = asked
  PROVE  NpxInv'
<1> DEFINE argv == answer.argv
           argc == answer.argc
           rest == Tail(argv)
<1>1. /\ A!At("translates") /\ argc > 0 /\ answer' = A!Blocked
      /\ \/ Head(argv)[1] = "-p" /\ ~(argc > 1 /\ argv[2][2] # "")
         \/ Head(argv)[1] \in {"--package=", "-q"}
  BY DEF A!Refuses, A!OptionIs, A!NamesPackage
<1>9. PICK n : n = Len(Args) - argc
  OBVIOUS
<1>2. PICK V :
        /\ n \in Nat /\ n + 1 <= Len(Args) /\ Agreed(V, n)
        /\ argc \in 1 .. Len(Args) /\ answer.pkgs \in Nat
        /\ argv \in Seq(Pairs) /\ Len(argv) = argc + answer.pkgs
        /\ Head(argv) = Args[n + 1]
        /\ rest \in Seq(Pairs) /\ Len(rest) = Len(argv) - 1
        /\ Queued(Args, Texts, rest, argc - 1, Taken(V, n))
  BY <1>1, <1>9, NextToken
<1> HIDE DEF argc, rest, argv
<1>3. Len(Args) \in Nat
  BY NpxTyped
<1>4. ASSUME NEW r \in A!NpxReadings PROVE FALSE
  <2>1. A!IsOption(Args[n + 1])
    BY <1>1, <1>2 DEF A!IsOption
  <2>2. /\ r.command \in n + 1 .. Len(Args) /\ r.command > n + 1
        /\ n + 1 \notin r.values /\ Fits(r.values, n + 1)
    BY <1>2, <2>1, NextIsOption
  <2>3. Head(argv)[1] \in {"-y", "-p", "--package"}
    BY <1>2, <2>2 DEF Fits
  <2>4. Head(argv)[1] = "-p" /\ ~(argc > 1 /\ argv[2][2] # "")
    BY <1>1, <2>3
  <2>5. n + 2 <= Len(Args) /\ argc > 1
    BY <1>2, <1>3, <1>9, <2>2
  <2>6. n + 2 \in r.values /\ Fits(r.values, n + 2)
    BY <1>2, <2>4, <2>5, AgreedTwo
  <2>7. Args[n + 2][2] # ""
    BY <2>6 DEF Fits
  <2>8. argv[2] = Args[n + 2]
    <3>5. argc \in 1 .. Len(Args) /\ answer.pkgs \in Nat /\ Len(argv) = argc + answer.pkgs
      BY <1>2
    <3>1. argc - 1 > 0 /\ Len(argv) > 1
      BY <1>3, <2>5, <3>5
    <3>2. argv[2] = Head(rest)
      BY <1>2, <3>1, SecondToken DEF rest
    <3>3. Head(rest) = Args[Len(Args) - (argc - 1) + 1]
      <4>1. rest \in Seq(Pairs) /\ Queued(Args, Texts, rest, argc - 1, Taken(V, n)) /\ Args \in Seq(Pairs)
        BY <1>2, NpxTyped
      <4> QED
        BY <3>1, <4>1, QueueTail
    <3>4. Len(Args) - (argc - 1) + 1 = n + 2
      BY <1>2, <1>3, <1>9
    <3> QED
      BY <3>2, <3>3, <3>4
  <2> QED
    BY <2>4, <2>5, <2>7, <2>8
<1>5. A!NpxReadings' = {}
  BY <1>4 DEF A!NpxReadings, A!NpxReading, A!args
<1>6. answer'.at = "blocked"
  BY <1>1 DEF A!Blocked
<1> QED
  BY <1>5, <1>6 DEF NpxInv, A!At


\* The first word no option takes is the command of a reading.
LEMMA AgreedCommand ==
  ASSUME NpxArgs, NEW n \in Nat, NEW V, Agreed(V, n), n + 1 <= Len(Args), ~A!IsOption(Args[n + 1])
  PROVE  \E r \in A!NpxReadings : r.command = n + 1 /\ A!NpxPackages(r) = Taken(V, n)
<1> DEFINE r == [values |-> V, command |-> n + 1]
<1>1. Len(Args) \in Nat /\ DOMAIN Args = 1 .. Len(Args)
  BY NpxTyped
<1>2. n + 1 \in DOMAIN Args /\ 1 .. n \subseteq DOMAIN Args /\ 1 .. n \subseteq 1 .. n + 1 /\ (n + 1) - 1 = n
  BY <1>1
<1>3. /\ V \subseteq 1 .. n /\ A!ValuesUpTo(n + 1, V, NamedBy) /\ \A i \in 1 .. n : Fits(V, i)
      /\ n + 1 \notin V
  BY DEF Agreed
<1>4. r \in A!NpxReadings
  <2>1. r.values = V /\ r.command = n + 1 /\ r \in [values : SUBSET (DOMAIN Args), command : DOMAIN Args]
    BY <1>2, <1>3
  <2> HIDE DEF r
  <2> QED
    BY <1>2, <1>3, <2>1, ReadingIs
<1>5. A!NpxPackages(r) = Taken(V, n)
  BY <1>2 DEF A!NpxPackages, Taken, A!args, Args
<1> QED
  BY <1>4, <1>5

LEMMA RotatesNow ==
  ASSUME NpxArgs, asked' = asked, NEW argv \in Seq(Pairs), NEW argc, NEW r \in A!NpxReadings,
         Turned(r, argv, argc), answer' = A!Rotates(argv, argc)
  PROVE  NpxInv'
<1>1. answer'.at = "rotates" /\ answer'.argv = argv /\ answer'.argc = argc
  BY DEF A!Rotates
<1>2. answer' = A!Rotates(answer'.argv, answer'.argc)
  BY <1>1
<1>3. Args' = Args
  BY DEF Args
<1>4. A!NpxReadings' = A!NpxReadings
  BY DEF A!NpxReadings, A!NpxReading, A!args
<1>5. Turned(r, argv, argc)'
  <2>1. Texts' = Texts /\ A!NpxPackages(r)' = A!NpxPackages(r)
    BY <1>3 DEF Texts, A!NpxPackages, A!args
  <2> QED
    BY <1>3, <2>1 DEF Turned
<1>6. Turned(r, answer.argv, answer.argc)'
  BY <1>1, <1>5 DEF Turned
<1>7. RotatesInv'
  BY <1>1, <1>2, <1>4, <1>6 DEF RotatesInv
<1> QED
  BY <1>1, <1>7 DEF NpxInv, A!At

LEMMA RedirectFindsCommand ==
  ASSUME NpxArgs, NpxInv, A!FindsCommand, asked' = asked
  PROVE  NpxInv'
<1> DEFINE argv == answer.argv
           argc == answer.argc
<1>1. /\ A!At("translates") /\ ~(argc > 0 /\ A!IsOption(Head(argv)))
      /\ answer' = IF Len(argv) = answer.pkgs THEN A!Blocked ELSE A!Rotates(argv, Len(argv) - answer.pkgs)
  BY DEF A!FindsCommand
<1>2. PICK n : n = Len(Args) - argc
  OBVIOUS
<1>3. TranslatesInv
  BY <1>1 DEF NpxInv
<1>4. PICK V : Agreed(V, n) /\ Queued(Args, Texts, argv, argc, Taken(V, n))
  BY <1>2, <1>3 DEF TranslatesInv
<1>5. /\ argv \in Seq(Pairs) /\ argc \in 0 .. Len(Args) /\ answer.pkgs \in Nat
      /\ Len(argv) = argc + answer.pkgs
  BY <1>3 DEF TranslatesInv
<1> HIDE DEF argv, argc
<1>6. Len(Args) \in Nat /\ DOMAIN Args = 1 .. Len(Args)
  BY NpxTyped
<1>7. n \in Nat
  BY <1>2, <1>5, <1>6
<1>8. CASE argc = 0
  <2>1. n = Len(Args) /\ Len(argv) = answer.pkgs
    BY <1>2, <1>5, <1>6, <1>8
  <2>2. ASSUME NEW r \in A!NpxReadings PROVE FALSE
    <3>1. r.command > n
      BY <1>4 DEF Agreed
    <3>2. r.command \in 1 .. Len(Args)
      BY <1>6, ReadingIs
    <3> QED
      BY <1>6, <2>1, <3>1, <3>2
  <2>3. A!NpxReadings' = {}
    BY <2>2 DEF A!NpxReadings, A!NpxReading, A!args
  <2>4. answer'.at = "blocked"
    BY <1>1, <2>1 DEF A!Blocked
  <2> QED
    BY <2>3, <2>4 DEF NpxInv, A!At
<1>9. CASE argc # 0
  <2>1. argc > 0 /\ n + 1 <= Len(Args) /\ Len(argv) # answer.pkgs /\ Len(argv) - answer.pkgs = argc
    BY <1>2, <1>5, <1>6, <1>9
  <2>2. Head(argv) = Args[n + 1]
    BY <1>1, <1>2, <2>1, NextToken DEF argv, argc
  <2>3. ~A!IsOption(Args[n + 1])
    BY <1>1, <2>1, <2>2
  <2>4. PICK r \in A!NpxReadings : r.command = n + 1 /\ A!NpxPackages(r) = Taken(V, n)
    BY <1>4, <1>7, <2>1, <2>3, AgreedCommand
  <2>5. answer' = A!Rotates(argv, argc)
    BY <1>1, <2>1
  <2>6. Turned(r, argv, argc)
    <3>1. /\ Len(Args) - r.command + 1 = argc /\ Len(argv) - argc = answer.pkgs /\ argc - argc = 0
      BY <1>2, <1>5, <1>6, <2>4
    <3>2. argc \in 0 .. argc
      BY <1>5, <1>6
    <3>3. \A i \in 1 .. argc : argv[i] = Args[Len(Args) - argc + i]
      BY <1>4 DEF Queued
    <3>4. PICK pos : /\ Marks(pos, answer.pkgs, Taken(V, n))
                     /\ \A k \in 1 .. answer.pkgs : argv[argc + k] = Texts[pos[k]]
      BY <1>4, <3>1 DEF Queued
    <3> QED
      BY <1>5, <2>4, <3>1, <3>2, <3>3, <3>4 DEF Turned
  <2> QED
    BY <1>5, <2>5, <2>6, RotatesNow
<1> QED
  BY <1>8, <1>9


LEMMA RedirectRotates ==
  ASSUME NpxArgs, NpxInv, A!RotatesToken, asked' = asked
  PROVE  NpxInv'
<1> DEFINE argv == answer.argv
           argc == answer.argc
           now == Append(Tail(argv), Head(argv))
<1>1. A!At("rotates") /\ argc > 0 /\ answer' = A!Rotates(now, argc - 1)
  BY DEF A!RotatesToken
<1>2. RotatesInv
  BY <1>1 DEF NpxInv
<1>3. argv \in Seq(Pairs)
  BY <1>2 DEF RotatesInv
<1>4. PICK r \in A!NpxReadings : Turned(r, argv, argc)
  BY <1>2 DEF RotatesInv
<1> HIDE DEF argv, argc
<1>5. PICK n : n = Len(Args) - r.command + 1
  OBVIOUS
<1>6. PICK m : m = Len(argv) - n
  OBVIOUS
<1>7. /\ argc \in 0 .. n /\ m \in Nat
      /\ \A i \in 1 .. argc : argv[i] = Args[Len(Args) - argc + i]
      /\ \A j \in 1 .. n - argc : argv[argc + m + j] = Args[r.command + j - 1]
  BY <1>4, <1>5, <1>6 DEF Turned
<1>8. PICK pos : Marks(pos, m, A!NpxPackages(r)) /\ \A k \in 1 .. m : argv[argc + k] = Texts[pos[k]]
  BY <1>4, <1>5, <1>6 DEF Turned
<1>9. Len(Args) \in Nat /\ r.command \in 1 .. Len(Args) /\ n \in Nat
  <2>1. Len(Args) \in Nat /\ r.command \in 1 .. Len(Args)
    BY ReadingIs, NpxTyped
  <2> QED
    BY <1>5, <2>1
<1>10. argc \in 1 .. n /\ Len(argv) = n + m /\ argv # <<>> /\ argc \in Nat
  <2>1. Len(argv) \in Nat
    BY <1>3
  <2>2. argc \in 1 .. n /\ Len(argv) = n + m /\ Len(argv) # 0
    BY <1>1, <1>6, <1>7, <1>9, <2>1
  <2> QED
    BY <1>9, <2>2
<1>11. Head(argv) = argv[1] /\ Head(argv) \in Pairs
  BY <1>3, <1>10
<1>12. Tail(argv) \in Seq(Pairs) /\ Len(Tail(argv)) = n + m - 1
       /\ \A i \in 1 .. n + m - 1 : Tail(argv)[i] = argv[i + 1]
  BY <1>3, <1>7, <1>9, <1>10
<1>13. /\ now \in Seq(Pairs) /\ Len(now) = n + m
       /\ \A i \in 1 .. n + m - 1 : now[i] = argv[i + 1]
       /\ now[n + m] = Args[Len(Args) - argc + 1]
  <2>1. /\ now \in Seq(Pairs) /\ Len(now) = (n + m - 1) + 1 /\ now[(n + m - 1) + 1] = Head(argv)
        /\ \A i \in 1 .. n + m - 1 : now[i] = Tail(argv)[i]
    BY <1>7, <1>9, <1>11, <1>12
  <2>2. (n + m - 1) + 1 = n + m /\ 1 \in 1 .. argc
    BY <1>7, <1>9, <1>10
  <2> HIDE DEF now
  <2>3. Head(argv) = Args[Len(Args) - argc + 1]
    BY <1>7, <1>11, <2>2
  <2> QED
    BY <1>12, <2>1, <2>2, <2>3
<1> HIDE DEF now
<1>14. Turned(r, now, argc - 1)
  <2>1. argc - 1 \in 0 .. n /\ Len(now) - n = m
    BY <1>7, <1>9, <1>10, <1>13
  <2>2. ASSUME NEW i \in 1 .. argc - 1 PROVE now[i] = Args[Len(Args) - (argc - 1) + i]
    <3>1. /\ i \in 1 .. n + m - 1 /\ i + 1 \in 1 .. argc
          /\ Len(Args) - argc + (i + 1) = Len(Args) - (argc - 1) + i
      BY <1>7, <1>9, <1>10
    <3> QED
      BY <1>7, <1>13, <3>1
  <2>3. ASSUME NEW k \in 1 .. m PROVE now[(argc - 1) + k] = Texts[pos[k]]
    <3>1. (argc - 1) + k \in 1 .. n + m - 1 /\ ((argc - 1) + k) + 1 = argc + k
      BY <1>7, <1>9, <1>10
    <3> QED
      BY <1>8, <1>13, <3>1
  <2>4. ASSUME NEW j \in 1 .. n - (argc - 1) PROVE now[(argc - 1) + m + j] = Args[r.command + j - 1]
    <3>1. CASE j = n - argc + 1
      <4>1. m \in Nat /\ argc \in Nat /\ n \in Nat /\ Len(Args) \in Nat /\ r.command \in Nat
        BY <1>7, <1>9, <1>10
      <4>2. (argc - 1) + m + j = n + m
        BY <3>1, <4>1
      <4>3. r.command + j - 1 = Len(Args) - argc + 1
        <5>1. \A a, c, l \in Nat : c + ((l - c + 1) - a + 1) - 1 = l - a + 1
          OBVIOUS
        <5> QED
          BY <1>5, <3>1, <4>1, <5>1
      <4> QED
        BY <1>13, <4>2, <4>3
    <3>2. CASE j # n - argc + 1
      <4>1. /\ j \in 1 .. n - argc /\ (argc - 1) + m + j \in 1 .. n + m - 1
            /\ ((argc - 1) + m + j) + 1 = argc + m + j
        BY <1>7, <1>9, <1>10, <3>2
      <4> QED
        BY <1>7, <1>13, <4>1
    <3> QED
      BY <3>1, <3>2
  <2> QED
    BY <1>5, <1>7, <1>8, <2>1, <2>2, <2>3, <2>4 DEF Turned
<1> QED
  BY <1>1, <1>13, <1>14, RotatesNow

\* In the end the packages are in front, and the command is behind them with its arguments.
LEMMA RedirectRuns ==
  ASSUME NpxArgs, NpxInv, A!RunsPnpm, asked' = asked
  PROVE  NpxInv'
<1> DEFINE argv == answer.argv
<1>1. A!At("rotates") /\ answer.argc = 0 /\ answer' = A!Runs(argv)
  BY DEF A!RunsPnpm
<1>2. RotatesInv
  BY <1>1 DEF NpxInv
<1>3. argv \in Seq(Pairs)
  BY <1>2 DEF RotatesInv
<1>4. PICK r \in A!NpxReadings : Turned(r, argv, 0)
  BY <1>1, <1>2 DEF RotatesInv
<1>5. answer'.at = "runs" /\ answer'.argv = argv
  BY <1>1 DEF A!Runs
<1> HIDE DEF argv
<1>6. PICK n : n = Len(Args) - r.command + 1
  OBVIOUS
<1>7. PICK m : m = Len(argv) - n
  OBVIOUS
<1>8. m \in Nat /\ \A j \in 1 .. n - 0 : argv[0 + m + j] = Args[r.command + j - 1]
  BY <1>4, <1>6, <1>7 DEF Turned
<1>9. PICK pos : Marks(pos, m, A!NpxPackages(r)) /\ \A k \in 1 .. m : argv[0 + k] = Texts[pos[k]]
  BY <1>4, <1>6, <1>7 DEF Turned
<1>10. Len(Args) \in Nat /\ Args \in Seq(Pairs) /\ r.command \in 1 .. Len(Args) /\ n \in Nat
  <2>1. Len(Args) \in Nat /\ Args \in Seq(Pairs) /\ r.command \in 1 .. Len(Args)
    BY ReadingIs, NpxTyped
  <2> QED
    BY <1>6, <2>1
<1>11. Len(argv) \in Nat
  BY <1>3
<1>12. Len(argv) = n + m /\ m \in 0 .. Len(argv)
  BY <1>7, <1>8, <1>10, <1>11
<1> DEFINE front == SubSeq(argv, 1, m)
           back == SubSeq(argv, m + 1, Len(argv))
           tail == SubSeq(Args, r.command, Len(Args))
<1>13. A!Holds(front, A!NpxPackages(r), Texts)
  <2>1. front = [k \in 1 .. m |-> argv[k]]
    BY <1>3, <1>11, <1>12
  <2>2. DOMAIN front = 1 .. m
    BY <2>1
  <2>3. \A k \in 1 .. m : front[k] = Texts[pos[k]]
    <3>1. \A k \in 1 .. m : 0 + k = k
      BY <1>8
    <3>2. \A k \in 1 .. m : argv[k] = Texts[pos[k]]
      BY <1>9, <3>1
    <3> HIDE DEF front
    <3> QED
      BY <2>1, <3>2
  <2> HIDE DEF front
  <2> QED
    BY <1>9, <2>2, <2>3, MarksHold
<1>14. back = tail
  <2>1. back = [j \in 1 .. n |-> argv[m + j]]
    <3>1. Len(argv) - (m + 1) + 1 = n /\ \A j \in 1 .. n : (m + 1) + j - 1 = m + j
      BY <1>8, <1>10, <1>12
    <3>2. back = [j \in 1 .. (Len(argv) - (m + 1) + 1) |-> argv[(m + 1) + j - 1]]
      BY <1>3, <1>11, <1>12
    <3> HIDE DEF back
    <3> QED
      BY <3>1, <3>2
  <2>2. tail = [j \in 1 .. n |-> Args[r.command + j - 1]]
    <3>1. Len(Args) - r.command + 1 = n
      BY <1>6
    <3>2. tail = [j \in 1 .. (Len(Args) - r.command + 1) |-> Args[r.command + j - 1]]
      <4>1. Len(Args) \in Nat /\ Args \in Seq(Pairs) /\ r.command \in Nat
        BY <1>10
      <4> QED
        BY <4>1, SMTT(30)
    <3> HIDE DEF tail
    <3> QED
      BY <3>1, <3>2
  <2>3. \A j \in 1 .. n : argv[m + j] = Args[r.command + j - 1]
    <3>1. n - 0 = n /\ \A j \in 1 .. n : 0 + m + j = m + j
      BY <1>8, <1>10
    <3> QED
      BY <1>8, <3>1
  <2> HIDE DEF back, tail
  <2> QED
    BY <2>1, <2>2, <2>3
<1> HIDE DEF front, back, tail
<1>15. A!NpxIsFaithful'
  <2>1. A!args' = Args /\ A!args = Args
    BY DEF A!args, Args
  <2>2. A!NpxReadings' = A!NpxReadings
    BY DEF A!NpxReadings, A!NpxReading, A!args
  <2>3. A!NpxPackages(r)' = A!NpxPackages(r)
    BY DEF A!NpxPackages, A!args
  <2>4. [i \in DOMAIN Args |-> A!Package(Args[i])] = Texts
    BY DEF Texts
  <2> QED
    BY <1>5, <1>12, <1>13, <1>14, <2>1, <2>2, <2>3, <2>4 DEF A!NpxIsFaithful, front, back, tail
<1> QED
  BY <1>5, <1>15 DEF NpxInv, A!At

LEMMA NpxStep ==
  ASSUME NpxArgs, NpxInv, A!ShimArgsNext
  PROVE  NpxInv'
<1>1. asked' = asked
  BY DEF A!ShimArgsNext
<1>2. ~A!StartsWrapper
  BY DEF NpxArgs, A!StartsWrapper, A!Calls
<1>3. ~A!ReadsToken /\ ~A!Decides /\ ~A!KeepsToken /\ ~A!RunsVolta
  BY DEF NpxInv, A!ReadsToken, A!Decides, A!KeepsToken, A!RunsVolta
<1> QED
  BY <1>1, <1>2, <1>3, TranslatesFirst, RedirectDropsYes, RedirectTakesPackage, RedirectTakesAttached,
     RedirectRefuses, RedirectFindsCommand, RedirectRotates, RedirectRuns DEF A!ShimArgsNext


ArgsInv == (asked.part = "npm" => NpmArgs /\ NpmInv) /\ (asked.part = "npx" => NpxArgs /\ NpxInv)

LEMMA ArgsAreSequences ==
  ASSUME NEW Elems, NEW n \in Nat
  PROVE  ArgsUpTo(Elems, n) \subseteq Seq(Elems)
BY DEF ArgsUpTo

LEMMA ShimStart == QuestionsInit => ArgsInv
<1> SUFFICES ASSUME QuestionsInit PROVE ArgsInv
  OBVIOUS
<1>1. \A place : ~A!At(place)
  BY DEF QuestionsInit, A!At
<1>2. MaxArgs.npm \in Nat /\ MaxArgs.npx \in Nat
  BY MaxArgsAssumption
<1>3. asked.part = "npm" => asked.args \in Seq(A!WrapperTokens)
  <2>1. asked.part = "npm" => asked.args \in ArgsUpTo(A!WrapperTokens, MaxArgs.npm)
    BY DEF QuestionsInit, Asks, AskOwner, AskGlobals, AskShim, AskLine, AskFile
  <2> QED
    BY <1>2, <2>1, ArgsAreSequences
<1>4. asked.part = "npx" => asked.args \in Seq(A!NpxTokens)
  <2>1. asked.part = "npx" => asked.args \in ArgsUpTo(A!NpxTokens, MaxArgs.npx)
    BY DEF QuestionsInit, Asks, AskOwner, AskGlobals, AskShim, AskLine, AskFile
  <2> QED
    BY <1>2, <2>1, ArgsAreSequences
<1> QED
  BY <1>1, <1>3, <1>4 DEF ArgsInv, NpmArgs, NpmInv, NpxArgs, NpxInv, Args

LEMMA ShimKept == ArgsInv /\ [QuestionsNext]_<<asked, answer>> => ArgsInv'
<1> SUFFICES ASSUME ArgsInv, [QuestionsNext]_<<asked, answer>> PROVE ArgsInv'
  OBVIOUS
<1>1. CASE TellOwner \/ TellGlobals \/ TellFile
  BY <1>1 DEF TellOwner, TellGlobals, TellFile, ArgsInv
<1>2. CASE A!ShimArgsNext
  <2>1. asked' = asked /\ asked.part \in {"npm", "npx"}
    BY <1>2, ShimsOnly
  <2>2. CASE asked.part = "npm"
    BY <1>2, <2>1, <2>2, NpmStep DEF ArgsInv, NpmArgs, Args
  <2>3. CASE asked.part = "npx"
    BY <1>2, <2>1, <2>3, NpxStep DEF ArgsInv, NpxArgs, Args
  <2> QED
    BY <2>1, <2>2, <2>3
<1>3. CASE Src!SourceLinesNext
  BY <1>3, LinesOnly DEF ArgsInv
<1>4. CASE UNCHANGED <<asked, answer>>
  <2>1. asked' = asked /\ answer' = answer
    BY <1>4
  <2>2. NpmInv => NpmInv'
    <3>1. ReadsInv' = ReadsInv
      BY <2>1 DEF ReadsInv, FirstWord, Option, Args
    <3>2. KeepsInv' = KeepsInv
      BY <2>1 DEF KeepsInv, Option, Words, Args
    <3>3. A!WrapperIsFaithful' = A!WrapperIsFaithful
      BY <2>1 DEF A!WrapperIsFaithful, A!NpmReading, A!NpmTakers, A!NpmOptions, A!NpmWords,
         A!EmptyCommand, A!args
    <3> QED
      BY <2>1, <3>1, <3>2, <3>3 DEF NpmInv, A!At
  <2>3. NpxInv => NpxInv'
    <3>1. Args' = Args /\ Texts' = Texts /\ A!NpxReadings' = A!NpxReadings
      BY <2>1 DEF Args, Texts, A!NpxReadings, A!NpxReading, A!args
    <3>2. TranslatesInv' = TranslatesInv
      BY <2>1, <3>1 DEF TranslatesInv, Agreed, Fits, NamedBy, Taken
    <3>3. RotatesInv' = RotatesInv
      BY <2>1, <3>1 DEF RotatesInv, Turned, A!NpxPackages, A!args
    <3>4. A!NpxIsFaithful' = A!NpxIsFaithful
      BY <2>1, <3>1 DEF A!NpxIsFaithful, A!NpxPackages, A!args
    <3> QED
      BY <2>1, <3>1, <3>2, <3>3, <3>4 DEF NpxInv, A!At
  <2> QED
    BY <2>1, <2>2, <2>3 DEF ArgsInv, NpmArgs, NpxArgs, Args
<1> QED
  BY <1>1, <1>2, <1>3, <1>4 DEF QuestionsNext

\* The wrapper hands volta what npm itself would install globally, and the redirect runs what
\* npx would, or refuses what npx could not read: for argument lists of any length
\* (guards.py 208, 231).
THEOREM ArgsAlwaysFaithful == QuestionsSpec => []ArgsAreFaithful
<1>1. ArgsInv => ArgsAreFaithful
  BY DEF ArgsInv, NpmInv, NpxInv, ArgsAreFaithful, A!ArgsAreFaithful, A!At
<1> QED
  BY <1>1, ShimStart, ShimKept, PTL DEF QuestionsSpec

-----------------------------------------------------------------------------
(***************************************************************************)
(* The lines of ~/.shellrc.  While a line is read, what the shell is at is *)
(* what the classifier takes it to be at, except behind what the           *)
(* exceptions name; and behind an unresolvable source the line is refused  *)
(* whatever follows.                                                       *)
(***************************************************************************)
LinePlaces == {"start", "head", "options", "file", "source", "dynamic", "rest", "skipped"}
ShellPlaces == {"head", "wrapped", "source", "rest", "comment"}

Inspections == [at : LinePlaces, unresolvable : BOOLEAN, target : BOOLEAN, simple : BOOLEAN]
Shells == [at : ShellPlaces, file : BOOLEAN, sources : BOOLEAN, evals : BOOLEAN]

LineTyped(r) ==
  /\ r.parts \in Nat \ {0} /\ r.joined \in Seq(Src!Words) /\ r.above \in Nat /\ r.above <= Len(r.joined)
  /\ r.inspection \in Inspections /\ r.eval \in [at : LinePlaces, found : BOOLEAN]
  /\ r.shell \in Shells
  /\ r.parts = 1 => r.eval.at = r.inspection.at

SimpleIsSource(r) ==
  r.inspection.simple =>
    \/ Len(r.joined) = 0 /\ r.inspection.at = "start" /\ ~r.inspection.target
    \/ Len(r.joined) = 1 /\ r.joined[1] = "." /\ r.inspection.at = "source" /\ ~r.inspection.target
    \/ Len(r.joined) = 2 /\ r.joined[1] = "." /\ r.joined[2] = "target" /\ r.inspection.at = "rest"

CommentIsSeen(r) ==
  /\ r.shell.at = "comment" => \E i \in r.above + 1 .. Len(r.joined) : r.joined[i] = "#"
  /\ r.inspection.at = "skipped" => r.shell.at = "comment" \/ Src!CommentJoins(r)

\* The words behind a "command" at a: only its options, and redirections with their files.
Wraps(s, a) ==
  s[a] = "command" /\ \A k \in a + 1 .. Len(s) : s[k] \in {"-p", ">", ">f"} \/ s[k - 1] = ">"
Redirects(s, a) == \E k \in a + 1 .. Len(s) : s[k] \in {">", ">f"}

WrapperIsSeen(r) ==
  /\ IF r.shell.file THEN r.inspection.at = "file" /\ r.joined[Len(r.joined)] = ">"
                     ELSE r.inspection.at \in {"options", "head"}
  /\ \E a \in DOMAIN r.joined :
       Wraps(r.joined, a) /\ (r.inspection.at = "options" \/ Redirects(r.joined, a))

PlaceIsSeen(r) ==
  /\ r.shell.at = "head" =>
       IF r.shell.file THEN r.inspection.at = "file" ELSE r.inspection.at \in {"start", "head"}
  /\ r.shell.at = "wrapped" => WrapperIsSeen(r)
  /\ r.shell.at = "source" => r.inspection.at = "source" /\ ~r.shell.file

SourceIsSeen(r) ==
  /\ PlaceIsSeen(r) /\ (r.shell.sources => r.inspection.target)
  /\ r.shell.evals => r.eval.found \/ Src!EvalSplit(r)

Excepted(r) ==
  Src!ClobberHides(r) \/ Src!OptionHides(r) \/ Src!CommentJoins(r) \/ r.inspection.unresolvable

LineRead(r) ==
  LineTyped(r) /\ SimpleIsSource(r) /\ CommentIsSeen(r) /\ (Excepted(r) \/ SourceIsSeen(r))

\* q is r with the word w read.
WordRead(r, w, q) ==
  /\ q.parts = r.parts /\ q.above = r.above /\ q.joined = Append(r.joined, w)
  /\ q.inspection = Src!Inspect(r.inspection, w)
  /\ q.inspection.at = Src!Next(r.inspection.at, w)
  /\ q.inspection.unresolvable
       <=> (r.inspection.unresolvable
              \/ (r.inspection.at = "source" /\ w \notin Src!Target \cup {"other"}))
  /\ q.inspection.target
       <=> (r.inspection.target \/ (r.inspection.at \in {"source", "dynamic"} /\ w \in Src!Target))
  /\ q.inspection.simple
       <=> (r.inspection.simple /\ (\/ r.inspection.at = "start" /\ w = "."
                                    \/ r.inspection.at = "source" /\ w = "target"))
  /\ q.eval = Src!FindEval(r.eval, w) /\ q.eval.at = Src!Next(r.eval.at, w)
  /\ q.eval.found <=> (r.eval.found \/ (r.eval.at \in Src!Heads /\ w = "eval"))
  /\ q.shell = Src!Run(r.shell, w)

LEMMA WordIs ==
  ASSUME NEW r, LineTyped(r), NEW w \in Src!Words, NEW q,
         q = Src!Reading(r.parts, r.above, Append(r.joined, w), Src!Inspect(r.inspection, w),
                         Src!FindEval(r.eval, w), Src!Run(r.shell, w))
  PROVE  q.at = "reads" /\ WordRead(r, w, q)
<1>1. /\ q.at = "reads" /\ q.parts = r.parts /\ q.above = r.above
      /\ q.joined = Append(r.joined, w) /\ q.inspection = Src!Inspect(r.inspection, w)
      /\ q.eval = Src!FindEval(r.eval, w) /\ q.shell = Src!Run(r.shell, w)
  BY DEF Src!Reading
<1>2. r.inspection \in Inspections /\ r.eval \in [at : LinePlaces, found : BOOLEAN]
  BY DEF LineTyped
<1>3. /\ Src!FindEval(r.eval, w).at = Src!Next(r.eval.at, w)
      /\ Src!FindEval(r.eval, w).found <=> (r.eval.found \/ (r.eval.at \in Src!Heads /\ w = "eval"))
  BY <1>2 DEF Src!FindEval
<1>4. /\ Src!Inspect(r.inspection, w).at = Src!Next(r.inspection.at, w)
      /\ Src!Inspect(r.inspection, w).unresolvable
           <=> (r.inspection.unresolvable
                  \/ (r.inspection.at = "source" /\ w \notin Src!Target \cup {"other"}))
  BY <1>2 DEF Src!Inspect, Inspections
<1>5. Src!Inspect(r.inspection, w).target
        <=> (r.inspection.target \/ (r.inspection.at \in {"source", "dynamic"} /\ w \in Src!Target))
  BY <1>2 DEF Src!Inspect, Inspections
<1>6. Src!Inspect(r.inspection, w).simple
        <=> (r.inspection.simple /\ (\/ r.inspection.at = "start" /\ w = "."
                                     \/ r.inspection.at = "source" /\ w = "target"))
  BY <1>2 DEF Src!Inspect, Inspections
<1> QED
  BY <1>1, <1>3, <1>4, <1>5, <1>6 DEF WordRead

LEMMA LineFields ==
  ASSUME NEW r, LineTyped(r)
  PROVE  /\ r.parts \in Nat \ {0} /\ r.joined \in Seq(Src!Words) /\ r.shell \in Shells
         /\ r.inspection \in Inspections /\ r.inspection.at \in LinePlaces
         /\ r.eval.at \in LinePlaces /\ r.eval \in [at : LinePlaces, found : BOOLEAN]
<1>1. /\ r.parts \in Nat \ {0} /\ r.joined \in Seq(Src!Words) /\ r.shell \in Shells
      /\ r.inspection \in Inspections /\ r.eval \in [at : LinePlaces, found : BOOLEAN]
  BY DEF LineTyped
<1> QED
  BY <1>1 DEF Inspections

LEMMA WordAppended ==
  ASSUME NEW s \in Seq(Src!Words), NEW w \in Src!Words
  PROVE  /\ Append(s, w) \in Seq(Src!Words) /\ Len(s) \in Nat /\ Len(Append(s, w)) = Len(s) + 1
         /\ DOMAIN s = 1 .. Len(s) /\ DOMAIN Append(s, w) = 1 .. Len(s) + 1
         /\ \A i \in 1 .. Len(s) : Append(s, w)[i] = s[i]
         /\ Append(s, w)[Len(s) + 1] = w
OBVIOUS

LEMMA LastWord ==
  ASSUME NEW s \in Seq(Src!Words), NEW w \in Src!Words, NEW t, t = Append(s, w)
  PROVE  Len(t) \in DOMAIN t /\ t[Len(t)] = w
<1>1. /\ Len(s) \in Nat /\ Len(t) = Len(s) + 1 /\ DOMAIN t = 1 .. Len(s) + 1
      /\ t[Len(s) + 1] = w
  BY WordAppended
<1> QED
  BY <1>1

\* What a word makes of a place.
LEMMA NextPlace ==
  ASSUME NEW at \in LinePlaces, NEW w \in Src!Words
  PROVE  /\ Src!Next(at, w) \in LinePlaces
         /\ Src!Next(at, w) = "skipped" <=> at = "skipped" \/ (at = "start" /\ w = "#")
         /\ Src!Next(at, w) = "start" <=> FALSE
         /\ at = "file" => Src!Next(at, w) = "head"
         /\ at # "skipped" /\ w = ";" => Src!Next(at, w) = "head"
         /\ at = "options" /\ w = "-p" => Src!Next(at, w) = "options"
         /\ at \in Src!Heads =>
              /\ w \in {"time", "X=1", ">f"} => Src!Next(at, w) = "head"
              /\ w = ">" => Src!Next(at, w) = "file"
              /\ w = "command" => Src!Next(at, w) = "options"
              /\ w \in Src!Source => Src!Next(at, w) = "source"
         /\ at = "source" /\ w \in Src!Target => Src!Next(at, w) = "rest"
BY DEF LinePlaces, Src!Words, Src!Next, Src!CommandHead, Src!CommandPrefixes, Src!Heads,
       Src!Source, Src!Target

LEMMA ExceptionsStay ==
  ASSUME NEW r, NEW q, LineTyped(r), NEW w \in Src!Words, Excepted(r), WordRead(r, w, q)
  PROVE  Excepted(q)
<1> DEFINE s == r.joined
           t == Append(s, w)
<1>1. /\ Len(s) \in Nat /\ DOMAIN s = 1 .. Len(s) /\ DOMAIN t = 1 .. Len(s) + 1
      /\ \A i \in 1 .. Len(s) : t[i] = s[i]
  BY WordAppended DEF LineTyped
<1>2. q.joined = t /\ q.above = r.above
      /\ (r.inspection.unresolvable => q.inspection.unresolvable)
  BY DEF WordRead
<1> HIDE DEF t
<1>3. CASE Src!ClobberHides(r)
  BY <1>1, <1>2, <1>3 DEF Excepted, Src!ClobberHides
<1>4. CASE Src!OptionHides(r)
  <2>1. PICK i, j \in 1 .. Len(s) :
          i < j /\ s[i] = "command" /\ Src!Redirected(s, i, j - 1) /\ s[j] = "-p"
    BY <1>1, <1>4 DEF Src!OptionHides
  <2>2. ASSUME NEW k \in i + 1 .. j - 1
        PROVE  t[k] = s[k] /\ t[k - 1] = s[k - 1]
    <3>1. k \in 1 .. Len(s) /\ k - 1 \in 1 .. Len(s)
      BY <1>1, <2>1
    <3> QED
      BY <1>1, <3>1
  <2>3. Src!Redirected(t, i, j - 1)
    BY <2>1, <2>2 DEF Src!Redirected
  <2>4. i \in DOMAIN t /\ j \in DOMAIN t /\ t[i] = s[i] /\ t[j] = s[j]
    BY <1>1, <2>1
  <2> QED
    BY <1>2, <2>1, <2>3, <2>4 DEF Excepted, Src!OptionHides
<1>5. CASE Src!CommentJoins(r)
  <2>1. \A i \in 1 .. r.above : t[i] = s[i]
    BY <1>1 DEF LineTyped
  <2> QED
    BY <1>2, <1>5, <2>1 DEF Excepted, Src!CommentJoins
<1>6. CASE r.inspection.unresolvable
  BY <1>2, <1>6 DEF Excepted
<1> QED
  BY <1>3, <1>4, <1>5, <1>6 DEF Excepted

LEMMA RunFields ==
  ASSUME NEW k \in Shells, NEW w \in Src!Words
  PROVE  /\ Src!Run(k, w) \in Shells
         /\ k.at = "comment" => Src!Run(k, w) = k
         /\ k.at # "comment" =>
              /\ w = "#" => Src!Run(k, w) = [k EXCEPT !.at = "comment"]
              /\ w = ";" => Src!Run(k, w) = [k EXCEPT !.at = "head", !.file = FALSE]
              /\ w \notin {"#", ";"} /\ k.file => Src!Run(k, w) = [k EXCEPT !.file = FALSE]
              /\ w \in {">", ">|"} /\ ~k.file => Src!Run(k, w) = [k EXCEPT !.file = TRUE]
              /\ w = ">f" /\ ~k.file => Src!Run(k, w) = k
              /\ w \notin {"#", ";", ">", ">|", ">f"} /\ ~k.file =>
                   Src!Run(k, w) =
                     [at |-> Src!Behind(k.at, w), file |-> FALSE,
                      sources |-> k.sources \/ (k.at = "source" /\ w \in Src!Target \cup {"$x"}),
                      evals |-> k.evals \/ (k.at \in {"head", "wrapped"} /\ w = "eval")]
<1>1. Src!Behind(k.at, w) \in ShellPlaces
  BY DEF Src!Behind, ShellPlaces
<1> QED
  BY <1>1 DEF Src!Run, Shells, ShellPlaces

LEMMA WordTyped ==
  ASSUME NEW r, NEW q, LineTyped(r), NEW w \in Src!Words, WordRead(r, w, q)
  PROVE  LineTyped(q)
<1>1. /\ Append(r.joined, w) \in Seq(Src!Words) /\ r.above \in Nat
      /\ r.above <= Len(Append(r.joined, w))
  BY WordAppended DEF LineTyped
<1>2. Src!Inspect(r.inspection, w) \in Inspections
  <2>1. r.inspection.at \in LinePlaces /\ r.inspection \in Inspections
    BY LineFields DEF WordRead
  <2>2. Src!Next(r.inspection.at, w) \in LinePlaces
    BY <2>1, NextPlace
  <2> QED
    BY <2>1, <2>2 DEF Src!Inspect, Inspections
<1>3. Src!Run(r.shell, w) \in Shells
  BY RunFields DEF LineTyped
<1>4. /\ Src!FindEval(r.eval, w).at = Src!Next(r.eval.at, w)
      /\ Src!FindEval(r.eval, w) \in [at : LinePlaces, found : BOOLEAN]
  <2>1. Src!Next(r.eval.at, w) \in LinePlaces
    <3>1. r.eval.at \in LinePlaces
      BY LineFields
    <3> QED
      BY <3>1, NextPlace
  <2> QED
    BY <2>1 DEF Src!FindEval, LineTyped
<1>5. r.parts = 1 => Src!FindEval(r.eval, w).at = Src!Inspect(r.inspection, w).at
  BY <1>4 DEF WordRead, LineTyped
<1> QED
  BY <1>1, <1>2, <1>3, <1>4, <1>5 DEF WordRead, LineTyped

LEMMA TwoWords ==
  ASSUME NEW s \in Seq(Src!Words), Len(s) = 2, s[1] = ".", s[2] = "target"
  PROVE  s = <<".", "target">>
<1> DEFINE t == <<".", "target">>
<1>1. t \in Seq(Src!Words)
  <2>1. "." \in Src!Words /\ "target" \in Src!Words
    BY DEF Src!Words
  <2> QED
    BY <2>1
<1>2. Len(t) = 2 /\ t[1] = "." /\ t[2] = "target"
  OBVIOUS
<1> HIDE DEF t
<1>3. \A i \in 1 .. Len(s) : s[i] = t[i]
  BY <1>2
<1>4. s = t
  BY <1>1, <1>2, <1>3, SeqEqual
<1> QED
  BY <1>4 DEF t

LEMMA WordSimple ==
  ASSUME NEW r, NEW q, LineTyped(r), SimpleIsSource(r), NEW w \in Src!Words, WordRead(r, w, q)
  PROVE  SimpleIsSource(q)
<1> SUFFICES ASSUME q.inspection.simple PROVE SimpleIsSource(q)
  BY DEF WordRead, SimpleIsSource
<1>1. /\ r.inspection.simple
      /\ (r.inspection.at = "start" /\ w = ".") \/ (r.inspection.at = "source" /\ w = "target")
  BY DEF WordRead
<1>2. /\ q.joined = Append(r.joined, w) /\ r.joined \in Seq(Src!Words)
      /\ q.inspection.at = Src!Next(r.inspection.at, w)
      /\ q.inspection.target
           <=> (r.inspection.target \/ (r.inspection.at \in {"source", "dynamic"} /\ w \in Src!Target))
  BY LineFields DEF WordRead
<1>3. /\ Len(q.joined) = Len(r.joined) + 1 /\ q.joined[Len(r.joined) + 1] = w
      /\ \A i \in 1 .. Len(r.joined) : q.joined[i] = r.joined[i]
  BY <1>2, WordAppended
<1>4. CASE r.inspection.at = "start"
  <2>1. Len(r.joined) = 0 /\ ~r.inspection.target /\ w = "."
    BY <1>1, <1>4 DEF SimpleIsSource
  <2>2. Src!Next(r.inspection.at, w) = "source"
    BY <1>4, <2>1 DEF Src!Next, Src!CommandHead, Src!CommandPrefixes, Src!Heads, Src!Source
  <2> QED
    BY <1>2, <1>3, <1>4, <2>1, <2>2 DEF SimpleIsSource
<1>5. CASE r.inspection.at = "source"
  <2>1. Len(r.joined) = 1 /\ r.joined[1] = "." /\ w = "target"
    BY <1>1, <1>5 DEF SimpleIsSource
  <2>2. Src!Next(r.inspection.at, w) = "rest"
    BY <1>5, <2>1 DEF Src!Next, Src!Heads
  <2>3. Len(q.joined) = 2 /\ q.joined[1] = "." /\ q.joined[2] = "target"
    BY <1>3, <2>1
  <2> QED
    BY <1>2, <2>2, <2>3 DEF SimpleIsSource
<1> QED
  BY <1>1, <1>4, <1>5

LEMMA WordComment ==
  ASSUME NEW r, NEW q, LineTyped(r), CommentIsSeen(r), NEW w \in Src!Words, WordRead(r, w, q)
  PROVE  CommentIsSeen(q)
<1> DEFINE t == Append(r.joined, w)
<1>1. /\ Len(r.joined) \in Nat /\ r.above \in Nat /\ r.above <= Len(r.joined)
      /\ Len(t) = Len(r.joined) + 1 /\ t[Len(r.joined) + 1] = w
      /\ \A i \in 1 .. Len(r.joined) : t[i] = r.joined[i]
  BY WordAppended DEF LineTyped
<1> HIDE DEF t
<1>2. Src!Run(r.shell, w).at = "comment" <=> r.shell.at = "comment" \/ w = "#"
  BY DEF LineTyped, Shells, ShellPlaces, Src!Run, Src!Behind
<1>3. r.shell.at = "comment" => \E i \in r.above + 1 .. Len(t) : t[i] = "#"
  BY <1>1 DEF CommentIsSeen
<1>4. w = "#" => \E i \in r.above + 1 .. Len(t) : t[i] = "#"
  BY <1>1
<1>5. Src!CommentJoins(r) => Src!CommentJoins(q)
  <2>1. \A i \in 1 .. r.above : t[i] = r.joined[i]
    BY <1>1
  <2> QED
    BY <2>1 DEF WordRead, t, Src!CommentJoins
<1>6. Src!Next(r.inspection.at, w) = "skipped" => r.inspection.at = "skipped" \/ w = "#"
  BY NextPlace DEF LineTyped, Inspections
<1>7. q.joined = t /\ q.above = r.above /\ q.shell.at = Src!Run(r.shell, w).at
      /\ q.inspection.at = Src!Next(r.inspection.at, w)
  BY DEF WordRead, t
<1>8. q.shell.at = "comment" => \E i \in q.above + 1 .. Len(q.joined) : q.joined[i] = "#"
  BY <1>2, <1>3, <1>4, <1>7
<1>9. q.inspection.at = "skipped" => q.shell.at = "comment" \/ Src!CommentJoins(q)
  BY <1>2, <1>5, <1>6, <1>7 DEF CommentIsSeen
<1> QED
  BY <1>8, <1>9 DEF CommentIsSeen

\* What the shell sources or evaluates is a target, or an eval, to the classifier.
LEMMA LoadsAreSeen ==
  ASSUME NEW r, NEW q, LineTyped(r), LineTyped(q), NEW w \in Src!Words, WordRead(r, w, q),
         SourceIsSeen(r), ~Excepted(q)
  PROVE  /\ q.shell.sources => q.inspection.target
         /\ q.shell.evals => q.eval.found \/ Src!EvalSplit(q)
<1>1. /\ r.shell \in Shells /\ q.shell = Src!Run(r.shell, w)
      /\ q.inspection.unresolvable
           <=> (r.inspection.unresolvable \/ (r.inspection.at = "source" /\ w \notin Src!Target \cup {"other"}))
      /\ q.inspection.target
           <=> (r.inspection.target \/ (r.inspection.at \in {"source", "dynamic"} /\ w \in Src!Target))
  BY LineFields DEF WordRead
<1>2. q.shell.sources => r.shell.sources \/ (r.shell.at = "source" /\ w \in Src!Target \cup {"$x"})
  BY <1>1 DEF Src!Run, Shells
<1>3. q.shell.evals => r.shell.evals \/ (r.shell.at \in {"head", "wrapped"} /\ ~r.shell.file /\ w = "eval")
  BY <1>1 DEF Src!Run, Shells
<1>4. q.shell.sources => q.inspection.target
  <2>1. r.shell.at = "source" => r.inspection.at = "source"
    BY DEF SourceIsSeen, PlaceIsSeen
  <2>2. "$x" \notin Src!Target \cup {"other"}
    BY DEF Src!Target
  <2> QED
    BY <1>1, <1>2, <2>1, <2>2 DEF SourceIsSeen, Excepted
<1>5. r.eval.found => q.eval.found
  BY LineFields DEF WordRead
<1>6. Src!EvalSplit(r) => Src!EvalSplit(q)
  <2>1. /\ q.parts = r.parts
        /\ \A i \in DOMAIN r.joined : i \in DOMAIN q.joined /\ q.joined[i] = r.joined[i]
    BY LineFields, WordAppended DEF WordRead
  <2> QED
    BY <2>1 DEF Src!EvalSplit
<1>7. ASSUME r.shell.at \in {"head", "wrapped"} /\ ~r.shell.file /\ w = "eval"
      PROVE  q.eval.found \/ Src!EvalSplit(q)
  <2>1. r.inspection.at \in Src!Heads
    BY <1>7 DEF SourceIsSeen, PlaceIsSeen, WrapperIsSeen, Src!Heads
  <2>2. CASE r.parts = 1
    <3>1. r.eval.at = r.inspection.at
      BY <2>2 DEF LineTyped
    <3>2. q.eval.found <=> (r.eval.found \/ (r.eval.at \in Src!Heads /\ w = "eval"))
      BY LineFields DEF WordRead
    <3> QED
      BY <1>7, <2>1, <3>1, <3>2
  <2>3. CASE r.parts # 1
    <3>1. /\ q.parts = r.parts /\ r.parts \in Nat \ {0}
          /\ r.joined \in Seq(Src!Words) /\ q.joined = Append(r.joined, w)
      BY LineFields DEF WordRead
    <3>2. q.parts > 1
      BY <2>3, <3>1
    <3>3. Len(r.joined) + 1 \in DOMAIN q.joined /\ q.joined[Len(r.joined) + 1] = "eval"
      BY <1>7, <3>1, WordAppended
    <3> QED
      BY <3>2, <3>3 DEF Src!EvalSplit
  <2> QED
    BY <2>2, <2>3
<1> QED
  BY <1>3, <1>4, <1>5, <1>6, <1>7 DEF SourceIsSeen

LEMMA WrapperExtends ==
  ASSUME NEW s \in Seq(Src!Words), NEW w \in Src!Words, NEW a \in DOMAIN s, Wraps(s, a),
         w \in {"-p", ">", ">f"} \/ s[Len(s)] = ">"
  PROVE  /\ a \in DOMAIN Append(s, w) /\ Wraps(Append(s, w), a)
         /\ Redirects(s, a) \/ w \in {">", ">f"} => Redirects(Append(s, w), a)
         /\ s[Len(s)] = ">" => Redirects(s, a)
<1> DEFINE t == Append(s, w)
<1>1. /\ Len(s) \in Nat /\ a \in 1 .. Len(s) /\ Len(t) = Len(s) + 1 /\ DOMAIN t = 1 .. Len(s) + 1
      /\ \A i \in 1 .. Len(s) : t[i] = s[i]
      /\ t[Len(s) + 1] = w
  BY WordAppended
<1> HIDE DEF t
<1>2. t[a] = "command" /\ a \in DOMAIN t
  BY <1>1 DEF Wraps
<1>3. ASSUME NEW k \in a + 1 .. Len(t) PROVE t[k] \in {"-p", ">", ">f"} \/ t[k - 1] = ">"
  <2>1. CASE k = Len(s) + 1
    <3>1. t[k] = w /\ t[k - 1] = s[Len(s)]
      BY <1>1, <2>1
    <3> QED
      BY <3>1
  <2>2. CASE k # Len(s) + 1
    <3>1. k \in a + 1 .. Len(s) /\ t[k] = s[k] /\ t[k - 1] = s[k - 1]
      BY <1>1, <2>2
    <3> QED
      BY <3>1 DEF Wraps
  <2> QED
    BY <2>1, <2>2
<1>4. Redirects(s, a) => Redirects(t, a)
  <2>1. \A k \in a + 1 .. Len(s) : k \in a + 1 .. Len(t) /\ t[k] = s[k]
    BY <1>1
  <2> QED
    BY <2>1 DEF Redirects
<1>5. w \in {">", ">f"} => Redirects(t, a)
  <2>1. Len(s) + 1 \in a + 1 .. Len(t)
    BY <1>1
  <2> QED
    BY <1>1, <2>1 DEF Redirects
<1>6. s[Len(s)] = ">" => Redirects(s, a)
  <2>1. s[Len(s)] = ">" => Len(s) \in a + 1 .. Len(s)
    BY <1>1 DEF Wraps
  <2> QED
    BY <2>1 DEF Redirects
<1> QED
  BY <1>2, <1>3, <1>4, <1>5, <1>6 DEF Wraps, t

\* The last word is a "command".
LEMMA WrapperBegins ==
  ASSUME NEW s \in Seq(Src!Words)
  PROVE  \E a \in DOMAIN Append(s, "command") : Wraps(Append(s, "command"), a)
<1>1. "command" \in Src!Words
  BY DEF Src!Words
<1> DEFINE t == Append(s, "command")
<1>2. /\ Len(s) \in Nat /\ Len(t) = Len(s) + 1 /\ Len(s) + 1 \in DOMAIN t
      /\ t[Len(s) + 1] = "command"
  BY <1>1, WordAppended
<1> HIDE DEF t
<1>3. Wraps(t, Len(s) + 1)
  BY <1>2 DEF Wraps
<1> QED
  BY <1>2, <1>3 DEF t

LEMMA OptionIsHidden ==
  ASSUME NEW s \in Seq(Src!Words), NEW a \in DOMAIN s, Wraps(s, a), Redirects(s, a),
         NEW q, q.joined = Append(s, "-p")
  PROVE  Src!OptionHides(q)
<1> DEFINE t == Append(s, "-p")
<1>1. "-p" \in Src!Words
  BY DEF Src!Words
<1>2. /\ Len(s) \in Nat /\ a \in 1 .. Len(s) /\ DOMAIN t = 1 .. Len(s) + 1
      /\ \A i \in 1 .. Len(s) : t[i] = s[i]
      /\ t[Len(s) + 1] = "-p"
  BY <1>1, WordAppended
<1> HIDE DEF t
<1>3. \A k \in a + 1 .. Len(s) : t[k] = s[k] /\ t[k - 1] = s[k - 1]
  BY <1>2
<1>4. Src!Redirected(t, a, Len(s))
  <2>1. \A k \in a + 1 .. Len(s) : t[k] \in {"-p", ">", ">f"} \/ t[k - 1] = ">"
    BY <1>3 DEF Wraps
  <2>2. \E k \in a + 1 .. Len(s) : t[k] \in {">", ">f"}
    BY <1>3 DEF Redirects
  <2> QED
    BY <2>1, <2>2 DEF Src!Redirected
<1>5. PICK n : n = Len(s) + 1
  OBVIOUS
<1>6. a \in DOMAIN t /\ n \in DOMAIN t /\ a < n /\ n - 1 = Len(s) /\ t[n] = "-p" /\ t[a] = "command"
  BY <1>2, <1>5 DEF Wraps
<1>7. q.joined = t
  BY DEF t
<1>8. Src!Redirected(t, a, n - 1)
  BY <1>4, <1>6
<1> QED
  BY <1>6, <1>7, <1>8 DEF Src!OptionHides

\* A word that goes on with a command: its head, a wrapper's option, what it sources, ...
LEMMA CommandIsSeen ==
  ASSUME NEW r, NEW q, LineTyped(r), LineTyped(q), NEW w \in Src!Words, WordRead(r, w, q),
         PlaceIsSeen(r), ~Excepted(q), ~r.shell.file, r.shell.at # "comment",
         w \notin {"#", ";", ">", ">|", ">f"}
  PROVE  PlaceIsSeen(q)
<1>1. /\ r.shell \in Shells /\ q.shell.at = Src!Behind(r.shell.at, w) /\ ~q.shell.file
  <2>1. r.shell \in Shells /\ q.shell = Src!Run(r.shell, w)
    BY LineFields DEF WordRead
  <2> QED
    BY <2>1 DEF Src!Run, Shells
<1>2. q.inspection.at = Src!Next(r.inspection.at, w) /\ r.inspection.at \in LinePlaces
  BY LineFields DEF WordRead
<1>3. r.joined \in Seq(Src!Words) /\ q.joined = Append(r.joined, w)
  BY LineFields DEF WordRead
<1>4. r.shell.at \in {"head", "wrapped"} => r.inspection.at \in Src!Heads
  BY DEF PlaceIsSeen, WrapperIsSeen, Src!Heads
<1>5. q.shell.at = "head" => q.inspection.at = "head"
  <2>1. q.shell.at = "head" => r.shell.at = "head" /\ w \in {"time", "X=1"}
    BY <1>1 DEF Src!Behind
  <2> QED
    BY <1>2, <1>4, <2>1, NextPlace
<1>6. q.shell.at = "source" => q.inspection.at = "source"
  <2>1. q.shell.at = "source" => r.shell.at \in {"head", "wrapped"} /\ w \in Src!Source
    BY <1>1 DEF Src!Behind
  <2> QED
    BY <1>2, <1>4, <2>1, NextPlace
<1>7. ASSUME q.shell.at = "wrapped" PROVE WrapperIsSeen(q)
  <2>1. r.shell.at \in {"head", "wrapped"} /\ (w = "command" \/ (w = "-p" /\ r.shell.at = "wrapped"))
    BY <1>1, <1>7 DEF Src!Behind
  <2>2. CASE w = "command"
    <3>1. q.inspection.at = "options"
      BY <1>2, <1>4, <2>1, <2>2, NextPlace
    <3>2. \E a \in DOMAIN q.joined : Wraps(q.joined, a)
      BY <1>3, <2>2, WrapperBegins
    <3> QED
      BY <1>1, <3>1, <3>2 DEF WrapperIsSeen
  <2>3. CASE w = "-p" /\ r.shell.at = "wrapped"
    <3>1. WrapperIsSeen(r)
      BY <2>3 DEF PlaceIsSeen
    <3>2. PICK a \in DOMAIN r.joined :
            Wraps(r.joined, a) /\ (r.inspection.at = "options" \/ Redirects(r.joined, a))
      BY <3>1 DEF WrapperIsSeen
    <3>3. a \in DOMAIN q.joined /\ Wraps(q.joined, a)
      BY <1>3, <2>3, <3>2, WrapperExtends
    <3>4. CASE r.inspection.at = "options"
      <4>1. q.inspection.at = "options"
        BY <1>2, <2>3, <3>4, NextPlace
      <4> QED
        BY <1>1, <3>3, <4>1 DEF WrapperIsSeen
    <3>5. CASE Redirects(r.joined, a)
      <4>1. Src!OptionHides(q)
        BY <1>3, <2>3, <3>2, <3>5, OptionIsHidden
      <4> QED
        BY <4>1 DEF Excepted
    <3> QED
      BY <3>2, <3>4, <3>5
  <2> QED
    BY <2>1, <2>2, <2>3
<1> QED
  BY <1>1, <1>5, <1>6, <1>7 DEF PlaceIsSeen

\* A redirection, or the file of one.
LEMMA RedirectionIsSeen ==
  ASSUME NEW r, NEW q, LineTyped(r), LineTyped(q), NEW w \in Src!Words, WordRead(r, w, q),
         PlaceIsSeen(r), ~Excepted(q), r.shell.at # "comment", w \notin {"#", ";"},
         r.shell.file \/ w \in {">", ">|", ">f"}
  PROVE  PlaceIsSeen(q)
<1>1. r.joined \in Seq(Src!Words) /\ q.joined = Append(r.joined, w)
  BY LineFields DEF WordRead
<1>2. q.inspection.at = Src!Next(r.inspection.at, w) /\ r.inspection.at \in LinePlaces
  BY LineFields DEF WordRead
<1>3. /\ r.shell \in Shells /\ q.shell.at = r.shell.at
      /\ r.shell.file => ~q.shell.file
      /\ ~r.shell.file => (q.shell.file <=> w \in {">", ">|"})
  <2>1. r.shell \in Shells /\ q.shell = Src!Run(r.shell, w)
    BY LineFields DEF WordRead
  <2> QED
    BY <2>1 DEF Src!Run, Shells
<1>4. Len(q.joined) \in DOMAIN q.joined /\ q.joined[Len(q.joined)] = w
  <2>1. PICK s, t : s = r.joined /\ t = q.joined
    OBVIOUS
  <2>2. Len(t) \in DOMAIN t /\ t[Len(t)] = w
    BY <1>1, <2>1, LastWord
  <2> QED
    BY <2>1, <2>2
<1>5. w # ">|"
  BY <1>4 DEF Excepted, Src!ClobberHides
<1>6. r.shell.at # "source"
  <2>1. r.shell.at = "source" => r.inspection.at = "source" /\ ~r.shell.file
    BY DEF PlaceIsSeen
  <2>2. r.inspection.at = "source" /\ w \in {">", ">f"} => q.inspection.unresolvable
    BY DEF WordRead, Src!Target
  <2> QED
    BY <1>5, <2>1, <2>2 DEF Excepted
<1>7. r.shell.at \in {"head", "wrapped"} =>
        IF r.shell.file THEN q.inspection.at = "head"
        ELSE IF w = ">" THEN q.inspection.at = "file" ELSE q.inspection.at = "head"
  <2>1. r.shell.at \in {"head", "wrapped"} =>
          IF r.shell.file THEN r.inspection.at = "file" ELSE r.inspection.at \in Src!Heads
    BY DEF PlaceIsSeen, WrapperIsSeen, Src!Heads
  <2>2. r.shell.file \/ w \in {">", ">f"}
    BY <1>5
  <2>3. CASE r.shell.file
    BY <1>2, <2>1, <2>3, NextPlace
  <2>4. CASE ~r.shell.file
    BY <1>2, <2>1, <2>2, <2>4, NextPlace
  <2> QED
    BY <2>3, <2>4
<1>8. ASSUME r.shell.at = "wrapped" PROVE WrapperIsSeen(q)
  <2>1. WrapperIsSeen(r)
    BY <1>8 DEF PlaceIsSeen
  <2>2. PICK a \in DOMAIN r.joined :
          Wraps(r.joined, a) /\ (r.inspection.at = "options" \/ Redirects(r.joined, a))
    BY <2>1 DEF WrapperIsSeen
  <2>3. r.shell.file => r.joined[Len(r.joined)] = ">"
    BY <2>1 DEF WrapperIsSeen
  <2>4. a \in DOMAIN q.joined /\ Wraps(q.joined, a) /\ Redirects(q.joined, a)
    <3>1. w \in {"-p", ">", ">f"} \/ r.joined[Len(r.joined)] = ">"
      BY <1>5, <2>3
    <3>2. r.shell.file \/ w \in {">", ">f"}
      BY <1>5
    <3>3. r.joined[Len(r.joined)] = ">" => Redirects(r.joined, a)
      BY <1>1, <2>2, <3>1, WrapperExtends
    <3>4. /\ a \in DOMAIN Append(r.joined, w) /\ Wraps(Append(r.joined, w), a)
          /\ Redirects(r.joined, a) \/ w \in {">", ">f"} => Redirects(Append(r.joined, w), a)
      BY <1>1, <2>2, <3>1, WrapperExtends
    <3> QED
      BY <1>1, <2>3, <3>2, <3>3, <3>4
  <2>5. IF q.shell.file THEN q.inspection.at = "file" /\ q.joined[Len(q.joined)] = ">"
        ELSE q.inspection.at \in {"options", "head"}
    BY <1>3, <1>4, <1>5, <1>7, <1>8
  <2> QED
    BY <2>4, <2>5 DEF WrapperIsSeen
<1>9. r.shell.at = "head" =>
        IF q.shell.file THEN q.inspection.at = "file" ELSE q.inspection.at = "head"
  BY <1>3, <1>5, <1>7
<1> QED
  BY <1>3, <1>6, <1>8, <1>9 DEF PlaceIsSeen

LEMMA WordIsRead ==
  ASSUME NEW r, NEW q, LineRead(r), NEW w \in Src!Words, WordRead(r, w, q)
  PROVE  LineRead(q)
<1>1. LineTyped(r) /\ LineTyped(q) /\ SimpleIsSource(q) /\ CommentIsSeen(r) /\ CommentIsSeen(q)
  BY WordTyped, WordSimple, WordComment DEF LineRead
<1>2. CASE Excepted(r)
  BY <1>1, <1>2, ExceptionsStay DEF LineRead
<1>3. CASE ~Excepted(r) /\ ~Excepted(q)
  <2>1. SourceIsSeen(r) /\ PlaceIsSeen(r)
    BY <1>3 DEF LineRead, SourceIsSeen
  <2>2. /\ r.shell \in Shells /\ q.shell = Src!Run(r.shell, w)
        /\ q.inspection.at = Src!Next(r.inspection.at, w)
    BY <1>1, LineFields DEF WordRead
  <2>3. ASSUME r.shell.at = "comment" \/ w = "#"
        PROVE  PlaceIsSeen(q)
    <3>1. q.shell.at = "comment"
      BY <2>2, <2>3 DEF Src!Run, Shells
    <3> QED
      BY <3>1 DEF PlaceIsSeen
  <2>4. ASSUME r.shell.at # "comment" /\ w = ";"
        PROVE  PlaceIsSeen(q)
    <3>1. q.shell.at = "head" /\ ~q.shell.file
      BY <2>2, <2>4 DEF Src!Run, Shells
    <3>2. r.inspection.at # "skipped" /\ r.inspection.at \in LinePlaces
      BY <1>1, <1>3, <2>4 DEF CommentIsSeen, Excepted, LineTyped, Inspections
    <3>3. q.inspection.at = Src!Next(r.inspection.at, w)
      BY <2>2
    <3>4. q.inspection.at = "head"
      BY <2>4, <3>2, <3>3, NextPlace
    <3> QED
      BY <3>1, <3>4 DEF PlaceIsSeen
  <2>5. ASSUME r.shell.at # "comment" /\ w \notin {"#", ";"}
        PROVE  PlaceIsSeen(q)
    BY <1>1, <1>3, <2>1, <2>5, CommandIsSeen, RedirectionIsSeen
  <2>6. PlaceIsSeen(q)
    BY <2>3, <2>4, <2>5
  <2> QED
    BY <1>1, <1>3, <2>1, <2>6, LoadsAreSeen DEF LineRead, SourceIsSeen
<1> QED
  BY <1>1, <1>2, <1>3 DEF LineRead

\* What has been judged, if it is not refused, is safe to copy or to disable.
JudgedSafely(r) ==
  /\ r.joined \in Seq(Src!Words)
  /\ ~r.refused =>
       IF r.disabled THEN r.parts = 1 /\ r.joined = <<".", "target">>
       ELSE Src!Missed(r) \/ (~r.sources /\ ~r.evals)

\* What is read of a line, in the question that is asked.
LineInv ==
  asked.part = "line" =>
    /\ asked.words \subseteq Src!Words
    /\ answer # Unset => answer.at \in {"reads", "judged"}
    /\ Src!At("reads") => LineRead(answer)
    /\ Src!At("judged") => JudgedSafely(answer)

LEMMA LineStarts == LineRead(Src!Reading(1, 0, <<>>, Src!Inspection, Src!EvalScan(FALSE), Src!Shell))
<1>1. PICK r : r = Src!Reading(1, 0, <<>>, Src!Inspection, Src!EvalScan(FALSE), Src!Shell)
  OBVIOUS
<1>2. /\ r.parts = 1 /\ r.above = 0 /\ r.joined = <<>>
      /\ r.inspection = [at |-> "start", unresolvable |-> FALSE, target |-> FALSE, simple |-> TRUE]
      /\ r.eval = [at |-> "start", found |-> FALSE]
      /\ r.shell = [at |-> "head", file |-> FALSE, sources |-> FALSE, evals |-> FALSE]
  BY <1>1 DEF Src!Reading, Src!Inspection, Src!EvalScan, Src!Shell
<1>3. LineTyped(r)
  BY <1>2 DEF LineTyped, Inspections, Shells, LinePlaces, ShellPlaces
<1>4. SimpleIsSource(r) /\ CommentIsSeen(r)
  BY <1>2 DEF SimpleIsSource, CommentIsSeen
<1>5. SourceIsSeen(r)
  BY <1>2 DEF SourceIsSeen, PlaceIsSeen
<1> QED
  BY <1>1, <1>3, <1>4, <1>5 DEF LineRead

\* A backslash joins the next physical line.
LEMMA LineJoins ==
  ASSUME NEW r, LineRead(r), NEW q,
         q = Src!Reading(r.parts + 1, Len(r.joined), r.joined, r.inspection,
                         Src!EvalScan(r.eval.found), Src!Continue(r.shell))
  PROVE  LineRead(q)
<1>1. /\ r.parts \in Nat \ {0} /\ r.joined \in Seq(Src!Words) /\ r.shell \in Shells
      /\ r.inspection \in Inspections /\ r.eval.at \in LinePlaces
      /\ r.eval \in [at : LinePlaces, found : BOOLEAN]
  BY LineFields DEF LineRead
<1>2. /\ q.parts = r.parts + 1 /\ q.above = Len(r.joined) /\ q.joined = r.joined
      /\ q.inspection = r.inspection /\ q.shell = Src!Continue(r.shell)
      /\ q.eval = Src!EvalScan(r.eval.found)
  BY DEF Src!Reading
<1>3. r.above \in Nat /\ r.above <= Len(r.joined) /\ Len(r.joined) \in Nat
  BY <1>1 DEF LineRead, LineTyped
<1>4. q.eval \in [at : LinePlaces, found : BOOLEAN] /\ q.eval.found = r.eval.found
  BY <1>1, <1>2 DEF Src!EvalScan, LinePlaces
<1>5. /\ q.shell \in Shells /\ q.shell.at # "comment"
      /\ q.shell.sources = r.shell.sources /\ q.shell.evals = r.shell.evals
      /\ r.shell.at # "comment" => q.shell = r.shell
  BY <1>1, <1>2 DEF Src!Continue, Shells, ShellPlaces
<1>6. LineTyped(q)
  BY <1>1, <1>2, <1>3, <1>4, <1>5 DEF LineTyped
<1>7. SimpleIsSource(q)
  BY <1>2 DEF LineRead, SimpleIsSource
<1>8. r.shell.at = "comment" \/ Src!CommentJoins(r) => Src!CommentJoins(q)
  <2>1. \A i \in r.above + 1 .. Len(r.joined) : i \in 1 .. Len(r.joined)
    BY <1>3
  <2>2. \A i \in 1 .. r.above : i \in 1 .. Len(r.joined)
    BY <1>3
  <2> QED
    BY <1>2, <2>1, <2>2 DEF LineRead, CommentIsSeen, Src!CommentJoins
<1>9. CommentIsSeen(q)
  BY <1>2, <1>5, <1>8 DEF LineRead, CommentIsSeen
<1>10. Excepted(r) => Excepted(q)
  BY <1>2, <1>8 DEF Excepted, Src!ClobberHides, Src!OptionHides
<1>11. SourceIsSeen(r) /\ r.shell.at # "comment" => SourceIsSeen(q)
  <2>1. r.shell.at # "comment" => (PlaceIsSeen(r) => PlaceIsSeen(q))
    BY <1>2, <1>5 DEF PlaceIsSeen, WrapperIsSeen
  <2>2. Src!EvalSplit(r) => Src!EvalSplit(q)
    BY <1>1, <1>2 DEF Src!EvalSplit
  <2> QED
    BY <1>2, <1>4, <1>5, <2>1, <2>2 DEF SourceIsSeen
<1>12. Excepted(q) \/ SourceIsSeen(q)
  BY <1>8, <1>10, <1>11 DEF LineRead, Excepted
<1> QED
  BY <1>6, <1>7, <1>9, <1>12 DEF LineRead

LEMMA LineJudged ==
  ASSUME NEW r, LineRead(r), NEW verdict, verdict = Src!Verdict(r.inspection, r.parts),
         NEW q, q = [at |-> "judged", parts |-> r.parts, above |-> r.above, joined |-> r.joined,
                     refused |-> r.eval.found \/ verdict = "ambiguous",
                     disabled |-> verdict = "rewritable",
                     sources |-> r.shell.sources, evals |-> r.shell.evals]
  PROVE  JudgedSafely(q)
<1>1. /\ r.joined \in Seq(Src!Words) /\ r.shell \in Shells /\ r.inspection \in Inspections
      /\ r.eval \in [at : LinePlaces, found : BOOLEAN]
  BY LineFields DEF LineRead
<1>2. /\ q.parts = r.parts /\ q.above = r.above /\ q.joined = r.joined
      /\ q.refused <=> (r.eval.found \/ verdict = "ambiguous")
      /\ q.disabled <=> verdict = "rewritable"
      /\ q.sources = r.shell.sources /\ q.evals = r.shell.evals
  OBVIOUS
<1>3. CASE verdict = "ambiguous"
  BY <1>1, <1>2, <1>3 DEF JudgedSafely
<1>4. CASE verdict = "rewritable"
  <2>1. /\ r.inspection.at # "source" /\ r.inspection.target
        /\ r.inspection.simple /\ r.parts = 1
    BY <1>4 DEF Src!Verdict
  <2>2. Len(r.joined) = 2 /\ r.joined[1] = "." /\ r.joined[2] = "target"
    BY <2>1 DEF LineRead, SimpleIsSource
  <2>3. r.joined = <<".", "target">>
    BY <1>1, <2>2, TwoWords
  <2> QED
    BY <1>1, <1>2, <1>4, <2>1, <2>3 DEF JudgedSafely
<1>5. CASE verdict \notin {"ambiguous", "rewritable"}
  <2>1. ~r.inspection.unresolvable /\ ~r.inspection.target
    BY <1>5 DEF Src!Verdict
  <2>2. q.refused \/ Src!Missed(q) \/ (~q.sources /\ ~q.evals)
    <3>1. CASE Excepted(r)
      BY <1>2, <2>1, <3>1 DEF Excepted, Src!Missed, Src!ClobberHides, Src!OptionHides, Src!CommentJoins
    <3>2. CASE SourceIsSeen(r)
      BY <1>2, <2>1, <3>2 DEF SourceIsSeen, Src!Missed, Src!EvalSplit
    <3> QED
      BY <3>1, <3>2 DEF LineRead
  <2> QED
    BY <1>1, <1>2, <1>5, <2>2 DEF JudgedSafely
<1> QED
  BY <1>3, <1>4, <1>5

LEMMA LineStep ==
  ASSUME LineInv, Src!SourceLinesNext
  PROVE  LineInv'
<1>1. asked' = asked /\ asked.part = "line"
  BY LinesOnly
<1>2. asked.words \subseteq Src!Words
  BY <1>1 DEF LineInv
<1>3. ASSUME LineRead(answer'), answer'.at = "reads" PROVE LineInv'
  BY <1>1, <1>2, <1>3 DEF LineInv, Src!At
<1>4. CASE Src!StartsLine
  <2>1. answer' = Src!Reading(1, 0, <<>>, Src!Inspection, Src!EvalScan(FALSE), Src!Shell)
    BY <1>4 DEF Src!StartsLine
  <2>2. answer'.at = "reads"
    BY <2>1 DEF Src!Reading
  <2> QED
    BY <1>3, <2>1, <2>2, LineStarts
<1>5. CASE Src!ReadsWord
  <2>1. Src!At("reads") /\ LineRead(answer)
    BY <1>1, <1>5 DEF Src!ReadsWord, LineInv
  <2>2. PICK w \in asked.words :
          answer' = Src!Reading(answer.parts, answer.above, Append(answer.joined, w),
                                Src!Inspect(answer.inspection, w), Src!FindEval(answer.eval, w),
                                Src!Run(answer.shell, w))
    BY <1>5 DEF Src!ReadsWord
  <2>3. w \in Src!Words /\ LineTyped(answer)
    BY <1>2, <2>1 DEF LineRead
  <2>4. PICK r, q : r = answer /\ q = answer'
    OBVIOUS
  <2>5. q.at = "reads" /\ WordRead(r, w, q)
    BY <2>2, <2>3, <2>4, WordIs
  <2>6. LineRead(q)
    BY <2>1, <2>3, <2>4, <2>5, WordIsRead
  <2> QED
    BY <1>3, <2>4, <2>5, <2>6
<1>6. CASE Src!JoinsNext
  <2>1. Src!At("reads") /\ LineRead(answer)
    BY <1>1, <1>6 DEF Src!JoinsNext, LineInv
  <2>2. answer' = Src!Reading(answer.parts + 1, Len(answer.joined), answer.joined,
                              answer.inspection, Src!EvalScan(answer.eval.found),
                              Src!Continue(answer.shell))
    BY <1>6 DEF Src!JoinsNext
  <2>3. answer'.at = "reads"
    BY <2>2 DEF Src!Reading
  <2>4. LineRead(answer')
    BY <2>1, <2>2, LineJoins
  <2> QED
    BY <1>3, <2>3, <2>4
<1>7. CASE Src!Judges
  <2>1. Src!At("reads") /\ LineRead(answer)
    BY <1>1, <1>7 DEF Src!Judges, LineInv
  <2>2. PICK verdict : verdict = Src!Verdict(answer.inspection, answer.parts)
    OBVIOUS
  <2>3. answer' = [at |-> "judged", parts |-> answer.parts, above |-> answer.above,
                   joined |-> answer.joined,
                   refused |-> answer.eval.found \/ verdict = "ambiguous",
                   disabled |-> verdict = "rewritable",
                   sources |-> answer.shell.sources, evals |-> answer.shell.evals]
    BY <1>7, <2>2 DEF Src!Judges
  <2>4. JudgedSafely(answer')
    BY <2>1, <2>2, <2>3, LineJudged
  <2>5. answer'.at = "judged"
    BY <2>3
  <2> QED
    BY <1>1, <1>2, <2>4, <2>5 DEF LineInv, Src!At
<1> QED
  BY <1>4, <1>5, <1>6, <1>7 DEF Src!SourceLinesNext

LEMMA LineAsked == QuestionsInit => LineInv
<1> SUFFICES ASSUME QuestionsInit, asked.part = "line" PROVE LineInv
  BY DEF LineInv
<1>1. AskLine(asked)
  BY DEF QuestionsInit, Asks, AskOwner, AskGlobals, AskShim, AskFile
<1>2. PICK bounds \in LineBounds : asked.words = bounds.words
  BY <1>1 DEF AskLine
<1>3. asked.words \subseteq Src!Words
  BY <1>2, LineBoundsAssumption
<1>4. answer = Unset
  BY DEF QuestionsInit
<1> QED
  BY <1>3, <1>4 DEF LineInv, Src!At

LEMMA LineKept == LineInv /\ [QuestionsNext]_<<asked, answer>> => LineInv'
<1> SUFFICES ASSUME LineInv, [QuestionsNext]_<<asked, answer>> PROVE LineInv'
  OBVIOUS
<1>1. CASE TellOwner \/ TellGlobals \/ TellFile
  BY <1>1 DEF TellOwner, TellGlobals, TellFile, LineInv
<1>2. CASE A!ShimArgsNext
  BY <1>2, ShimsOnly DEF LineInv
<1>3. CASE Src!SourceLinesNext
  BY <1>3, LineStep
<1>4. CASE UNCHANGED <<asked, answer>>
  BY <1>4 DEF LineInv, LineRead, JudgedSafely, Src!At
<1> QED
  BY <1>1, <1>2, <1>3, <1>4 DEF QuestionsNext

\* What is copied into ~/.myshellrc does not source it or evaluate anything, and what is
\* disabled did nothing but source it, outside the named exceptions: for lines of any length and
\* on any number of physical lines (shellrc.py 447, 567).
THEOREM CopiesAlwaysSafe == QuestionsSpec => []CopiesAreSafe
<1>1. LineInv => CopiesAreSafe
  BY DEF LineInv, JudgedSafely, CopiesAreSafe, Src!CopyIsSafe, Src!At
<1> QED
  BY <1>1, LineAsked, LineKept, PTL DEF QuestionsSpec

-----------------------------------------------------------------------------
(***************************************************************************)
(* The PATH lines of a startup file.  A set of lines that holds the first, *)
(* and with each the one after it, holds all of them.                      *)
(***************************************************************************)
LEMMA Induction ==
  ASSUME NEW n \in Nat, NEW S, 1 \in S, \A i \in 1 .. n : i \in S => i + 1 \in S
  PROVE  1 .. n + 1 \subseteq S
<1>1. SUFFICES ASSUME ~(1 .. n + 1 \subseteq S) PROVE FALSE
  OBVIOUS
<1> DEFINE T == {i \in 1 .. n + 1 : i \notin S}
<1>2. T \subseteq Nat /\ T # {}
  BY <1>1
<1>3. IsWellFoundedOn(OpToRel(<, Nat), Nat)
  BY NatLessThanWellFounded
<1>4. PICK x \in T : \A y \in T : ~(<<y, x>> \in OpToRel(<, Nat))
  <2> HIDE DEF T
  <2> QED BY <1>2, <1>3, WFMin
<1>5. \A y \in T : ~(y < x)
  BY <1>2, <1>4 DEF OpToRel
<1>6. x # 1 /\ x - 1 \in 1 .. n /\ x - 1 \notin T
  BY <1>5
<1> QED BY <1>6

\* The scan reads the lines one after the other.
LEMMA ScanSteps ==
  ASSUME NEW lines, Len(lines) \in Nat
  PROVE  /\ Rc!Scan(lines)[1] = Rc!Unread
         /\ \A i \in 1 .. Len(lines) : Rc!Scan(lines)[i + 1] =
              Rc!Scanned(Rc!Scan(lines)[i], lines[i], i \in Rc!Managed(lines))
<1> DEFINE n == Len(lines)
           start == Rc!Unread
           Step(s, i) == Rc!Scanned(s, lines[i], i \in Rc!Managed(lines))
           RunsTo(f, k) == /\ f = [i \in 1 .. k |-> f[i]] /\ f[1] = start
                         /\ \A i \in 1 .. n : i + 1 \in 1 .. k => f[i + 1] = Step(f[i], i)
           S == {k \in 1 .. n + 1 : \E f : RunsTo(f, k)}
<1> HIDE DEF n, start, Step
<1>n. n \in Nat
  BY DEF n
<1>1. 1 \in S
  <2> DEFINE g == [i \in 1 .. 1 |-> start]
  <2>1. RunsTo(g, 1)
    BY <1>n
  <2> QED BY <2>1, <1>n
<1>2. ASSUME NEW k \in 1 .. n, k \in S PROVE k + 1 \in S
  <2>1. PICK f : RunsTo(f, k)
    BY <1>2
  <2> DEFINE g == [i \in 1 .. k + 1 |-> IF i = k + 1 THEN Step(f[k], k) ELSE f[i]]
  <2>2. \A i \in 1 .. k : g[i] = f[i]
    BY <1>n
  <2>3. g[k + 1] = Step(g[k], k) /\ g[1] = start
    BY <2>1, <2>2, <1>n
  <2>4. ASSUME NEW i \in 1 .. n, i + 1 \in 1 .. k + 1 PROVE g[i + 1] = Step(g[i], i)
    <3>1. CASE i = k
      BY <3>1, <2>3
    <3>2. CASE i # k
      <4>1. i \in 1 .. k /\ i + 1 \in 1 .. k
        BY <2>4, <3>2, <1>n
      <4>2. g[i + 1] = f[i + 1] /\ g[i] = f[i] /\ f[i + 1] = Step(f[i], i)
        BY <2>1, <2>2, <4>1
      <4> QED BY <4>2
    <3> QED BY <3>1, <3>2
  <2>5. g = [i \in 1 .. k + 1 |-> g[i]]
    OBVIOUS
  <2>6. RunsTo(g, k + 1)
    <3> HIDE DEF g
    <3> QED BY <2>3, <2>4, <2>5
  <2>7. \E h : RunsTo(h, k + 1)
    <3> HIDE DEF g, RunsTo
    <3> QED BY <2>6
  <2>8. k + 1 \in 1 .. n + 1
    BY <1>n
  <2> QED
    <3> HIDE DEF RunsTo
    <3> QED BY <2>7, <2>8
<1>3. n + 1 \in S
  <2>1. 1 .. n + 1 \subseteq S
    <3> HIDE DEF S
    <3> QED BY <1>1, <1>2, <1>n, Induction
  <2> QED BY <2>1, <1>n
<1>4. PICK f : RunsTo(f, n + 1)
  BY <1>3
<1>5. ASSUME NEW i \in 1 .. n + 1
      PROVE  f[i] = IF i = 1 THEN start ELSE Step(f[i - 1], i - 1)
  <2>1. CASE i = 1
    BY <2>1, <1>4
  <2>2. CASE i # 1
    <3>1. i - 1 \in 1 .. n /\ (i - 1) + 1 = i
      BY <2>2, <1>n
    <3> QED BY <1>4, <2>2, <3>1
  <2> QED BY <2>1, <2>2
<1>6. f = [i \in 1 .. n + 1 |-> IF i = 1 THEN start ELSE Step(f[i - 1], i - 1)]
  <2> DEFINE g == [i \in 1 .. n + 1 |-> IF i = 1 THEN start ELSE Step(f[i - 1], i - 1)]
  <2>1. \A i \in 1 .. n + 1 : f[i] = g[i]
    BY <1>5
  <2>2. f = [i \in 1 .. n + 1 |-> f[i]]
    BY <1>4
  <2>3. g = [i \in 1 .. n + 1 |-> g[i]]
    OBVIOUS
  <2>4. f = g
    <3> HIDE DEF g
    <3> QED BY <2>1, <2>2, <2>3
  <2> QED BY <2>4
<1> DEFINE F(h) == [i \in 1 .. n + 1 |-> IF i = 1 THEN start ELSE Step(h[i - 1], i - 1)]
<1>8. \E h : h = F(h)
  <2> HIDE DEF F
  <2>1. f = F(f)
    BY <1>6 DEF F
  <2> QED BY <2>1
<1> DEFINE run == Rc!Scan(lines)
<1>9. run = CHOOSE h : h = F(h)
  BY DEF Rc!Scan, n, start, Step
<1>10. run = F(run)
  <2> HIDE DEF F, run
  <2> QED BY <1>8, <1>9
<1> HIDE DEF run
<1>11. ASSUME NEW i \in 1 .. n + 1 PROVE run[i] = F(run)[i]
  <2> DEFINE other == F(run)
  <2>1. run = other
    BY <1>10
  <2> HIDE DEF other
  <2>2. run[i] = other[i]
    BY <2>1
  <2> QED BY <2>2 DEF other
<1>12. ASSUME NEW i \in 1 .. n PROVE run[i + 1] = Step(run[i], i)
  <2>1. i + 1 \in 1 .. n + 1 /\ i + 1 # 1 /\ (i + 1) - 1 = i
    BY <1>n
  <2> QED BY <1>11, <2>1
<1>13. run[1] = start
  BY <1>11, <1>n
<1> QED BY <1>12, <1>13 DEF run, start, Step, n

\* So does the shell.
LEMMA SourcingSteps ==
  ASSUME NEW lines, NEW path, NEW truths, Len(lines) \in Nat
  PROVE  /\ Rc!Sourcing(lines, path, truths)[1] = Rc!Started(path)
         /\ \A i \in 1 .. Len(lines) : Rc!Sourcing(lines, path, truths)[i + 1] =
              Rc!After(Rc!Sourcing(lines, path, truths)[i], lines[i], i, truths)
<1> DEFINE n == Len(lines)
           start == Rc!Started(path)
           Step(s, i) == Rc!After(s, lines[i], i, truths)
           RunsTo(f, k) == /\ f = [i \in 1 .. k |-> f[i]] /\ f[1] = start
                         /\ \A i \in 1 .. n : i + 1 \in 1 .. k => f[i + 1] = Step(f[i], i)
           S == {k \in 1 .. n + 1 : \E f : RunsTo(f, k)}
<1> HIDE DEF n, start, Step
<1>n. n \in Nat
  BY DEF n
<1>1. 1 \in S
  <2> DEFINE g == [i \in 1 .. 1 |-> start]
  <2>1. RunsTo(g, 1)
    BY <1>n
  <2> QED BY <2>1, <1>n
<1>2. ASSUME NEW k \in 1 .. n, k \in S PROVE k + 1 \in S
  <2>1. PICK f : RunsTo(f, k)
    BY <1>2
  <2> DEFINE g == [i \in 1 .. k + 1 |-> IF i = k + 1 THEN Step(f[k], k) ELSE f[i]]
  <2>2. \A i \in 1 .. k : g[i] = f[i]
    BY <1>n
  <2>3. g[k + 1] = Step(g[k], k) /\ g[1] = start
    BY <2>1, <2>2, <1>n
  <2>4. ASSUME NEW i \in 1 .. n, i + 1 \in 1 .. k + 1 PROVE g[i + 1] = Step(g[i], i)
    <3>1. CASE i = k
      BY <3>1, <2>3
    <3>2. CASE i # k
      <4>1. i \in 1 .. k /\ i + 1 \in 1 .. k
        BY <2>4, <3>2, <1>n
      <4>2. g[i + 1] = f[i + 1] /\ g[i] = f[i] /\ f[i + 1] = Step(f[i], i)
        BY <2>1, <2>2, <4>1
      <4> QED BY <4>2
    <3> QED BY <3>1, <3>2
  <2>5. g = [i \in 1 .. k + 1 |-> g[i]]
    OBVIOUS
  <2>6. RunsTo(g, k + 1)
    <3> HIDE DEF g
    <3> QED BY <2>3, <2>4, <2>5
  <2>7. \E h : RunsTo(h, k + 1)
    <3> HIDE DEF g, RunsTo
    <3> QED BY <2>6
  <2>8. k + 1 \in 1 .. n + 1
    BY <1>n
  <2> QED
    <3> HIDE DEF RunsTo
    <3> QED BY <2>7, <2>8
<1>3. n + 1 \in S
  <2>1. 1 .. n + 1 \subseteq S
    <3> HIDE DEF S
    <3> QED BY <1>1, <1>2, <1>n, Induction
  <2> QED BY <2>1, <1>n
<1>4. PICK f : RunsTo(f, n + 1)
  BY <1>3
<1>5. ASSUME NEW i \in 1 .. n + 1
      PROVE  f[i] = IF i = 1 THEN start ELSE Step(f[i - 1], i - 1)
  <2>1. CASE i = 1
    BY <2>1, <1>4
  <2>2. CASE i # 1
    <3>1. i - 1 \in 1 .. n /\ (i - 1) + 1 = i
      BY <2>2, <1>n
    <3> QED BY <1>4, <2>2, <3>1
  <2> QED BY <2>1, <2>2
<1>6. f = [i \in 1 .. n + 1 |-> IF i = 1 THEN start ELSE Step(f[i - 1], i - 1)]
  <2> DEFINE g == [i \in 1 .. n + 1 |-> IF i = 1 THEN start ELSE Step(f[i - 1], i - 1)]
  <2>1. \A i \in 1 .. n + 1 : f[i] = g[i]
    BY <1>5
  <2>2. f = [i \in 1 .. n + 1 |-> f[i]]
    BY <1>4
  <2>3. g = [i \in 1 .. n + 1 |-> g[i]]
    OBVIOUS
  <2>4. f = g
    <3> HIDE DEF g
    <3> QED BY <2>1, <2>2, <2>3
  <2> QED BY <2>4
<1> DEFINE F(h) == [i \in 1 .. n + 1 |-> IF i = 1 THEN start ELSE Step(h[i - 1], i - 1)]
<1>8. \E h : h = F(h)
  <2> HIDE DEF F
  <2>1. f = F(f)
    BY <1>6 DEF F
  <2> QED BY <2>1
<1> DEFINE run == Rc!Sourcing(lines, path, truths)
<1>9. run = CHOOSE h : h = F(h)
  BY DEF Rc!Sourcing, n, start, Step
<1>10. run = F(run)
  <2> HIDE DEF F, run
  <2> QED BY <1>8, <1>9
<1> HIDE DEF run
<1>11. ASSUME NEW i \in 1 .. n + 1 PROVE run[i] = F(run)[i]
  <2> DEFINE other == F(run)
  <2>1. run = other
    BY <1>10
  <2> HIDE DEF other
  <2>2. run[i] = other[i]
    BY <2>1
  <2> QED BY <2>2 DEF other
<1>12. ASSUME NEW i \in 1 .. n PROVE run[i + 1] = Step(run[i], i)
  <2>1. i + 1 \in 1 .. n + 1 /\ i + 1 # 1 /\ (i + 1) - 1 = i
    BY <1>n
  <2> QED BY <1>11, <2>1
<1>13. run[1] = start
  BY <1>11, <1>n
<1> QED BY <1>12, <1>13 DEF run, start, Step, n

-----------------------------------------------------------------------------
\* What the shell is in, and what each line makes of it, whatever is on PATH.
Frames == [closer : Rc!CLOSERS, on : BOOLEAN, ran : BOOLEAN, empty : BOOLEAN, else : BOOLEAN]
Dirs == Rc!Names \cup {"z"}
FileShells ==
  [stack : Seq(Frames), path : SUBSET Dirs, b : Dirs, heredoc : BOOLEAN, bad : BOOLEAN, again : SUBSET Nat]

\* A command gives the innermost block a body and leaves the blocks what they are.
LEMMA BodyStands ==
  ASSUME NEW stack \in Seq(Frames)
  PROVE  /\ Rc!WithBody(stack) \in Seq(Frames)
         /\ Len(Rc!WithBody(stack)) = Len(stack)
         /\ \A k \in 1 .. Len(stack) :
              /\ Rc!WithBody(stack)[k].closer = stack[k].closer
              /\ Rc!WithBody(stack)[k].on = stack[k].on
              /\ Rc!WithBody(stack)[k].ran = stack[k].ran
              /\ Rc!WithBody(stack)[k].else = stack[k].else
              /\ Rc!WithBody(stack)[k].empty = (k # Len(stack) /\ stack[k].empty)
<1>1. \A k \in 1 .. Len(stack) : stack[k] \in Frames
  OBVIOUS
<1> DEFINE body == Rc!WithBody(stack)
<1>2. body = [k \in 1 .. Len(stack) |-> IF k = Len(stack) THEN [stack[k] EXCEPT !.empty = FALSE] ELSE stack[k]]
  BY DEF Rc!WithBody
<1>3. \A k \in 1 .. Len(stack) : body[k] \in Frames
  BY <1>1, <1>2, ZenonT(30) DEF Frames
<1>4. Len(stack) \in Nat
  OBVIOUS
<1>5. body \in Seq(Frames) /\ Len(body) = Len(stack)
  <2>1. body \in [1 .. Len(stack) -> Frames]
    <3> HIDE DEF body
    <3> QED BY <1>2, <1>3
  <2> HIDE DEF body
  <2> QED BY <2>1, <1>4, IsASeq
<1>6. ASSUME NEW k \in 1 .. Len(stack)
      PROVE  /\ body[k].closer = stack[k].closer
             /\ body[k].on = stack[k].on
             /\ body[k].ran = stack[k].ran
             /\ body[k].else = stack[k].else
             /\ body[k].empty = (k # Len(stack) /\ stack[k].empty)
  <2> HIDE DEF body
  <2> QED BY <1>1, <1>2 DEF Frames
<1> QED BY <1>5, <1>6

LEMMA OuterStands ==
  ASSUME NEW s \in FileShells, s.stack # <<>>
  PROVE  /\ Len(s.stack) \in Nat \ {0}
         /\ Rc!Outer(s) \in Seq(Frames) /\ Len(Rc!Outer(s)) = Len(s.stack) - 1
         /\ \A k \in 1 .. Len(s.stack) - 1 : Rc!Outer(s)[k] = s.stack[k]
         /\ Rc!Top(s) \in Frames
<1>1. s.stack \in Seq(Frames) /\ Len(s.stack) \in Nat \ {0}
  BY DEF FileShells
<1> QED BY <1>1, SubSeqProperties DEF Rc!Outer, Rc!Top

LEMMA AddedType ==
  ASSUME NEW l \in Rc!Lines, NEW s \in FileShells
  PROVE  /\ Rc!Added(l.value, s.b) \subseteq Dirs /\ Rc!Assigned(l.value, s) \subseteq Dirs
         /\ l.head = "B=" => l.value[1] \in Dirs
<1>1. l.value \in Seq(Rc!Names) /\ s.b \in Dirs /\ s.path \subseteq Dirs
  BY DEF Rc!Lines, FileShells
<1>2. Rc!Range(l.value) \subseteq Rc!Names
  BY <1>1 DEF Rc!Range
<1>3. l.head = "B=" => l.value[1] \in Rc!Names
  BY <1>1 DEF Rc!Lines
<1> QED BY <1>1, <1>2, <1>3 DEF Rc!Added, Rc!Assigned, Dirs

LEMMA AfterType ==
  ASSUME NEW s \in FileShells, NEW l \in Rc!Lines, NEW i \in Nat, NEW truths
  PROVE  Rc!After(s, l, i, truths) \in FileShells
<1>1. s.stack \in Seq(Frames)
  BY DEF FileShells
<1>2. CASE s.bad \/ s.heredoc
  BY <1>2 DEF Rc!After, FileShells
<1>3. ASSUME l.head \in Rc!OPENERS, NEW holds \in BOOLEAN PROVE Rc!Opened(s, l, holds) \in FileShells
  <2>1. [closer |-> Rc!CloserOf[l.head], on |-> holds, ran |-> holds, empty |-> l.head # "case",
          else |-> FALSE] \in Frames
    BY <1>3 DEF Frames, Rc!OPENERS, Rc!CloserOf, Rc!CLOSERS
  <2>2. Append(s.stack, [closer |-> Rc!CloserOf[l.head], on |-> holds, ran |-> holds,
                         empty |-> l.head # "case", else |-> FALSE]) \in Seq(Frames)
    BY <1>1, <2>1
  <2> QED BY <2>2 DEF Rc!Opened, FileShells
<1>4. ASSUME NEW closer PROVE Rc!Close(s, closer) \in FileShells
  BY <1>1, OuterStands, BodyStands DEF Rc!Close, FileShells
<1>5. ASSUME NEW holds \in BOOLEAN, NEW else \in BOOLEAN PROVE Rc!Branch(s, holds, else) \in FileShells
  <2>1. CASE s.stack = <<>> \/ Rc!Top(s).closer # "fi" \/ Rc!Top(s).empty \/ Rc!Top(s).else
    BY <2>1 DEF Rc!Branch, FileShells
  <2>2. CASE ~(s.stack = <<>> \/ Rc!Top(s).closer # "fi" \/ Rc!Top(s).empty \/ Rc!Top(s).else)
    <3> DEFINE branch == [closer |-> "fi", on |-> holds /\ ~Rc!Top(s).ran, ran |-> holds \/ Rc!Top(s).ran,
                          empty |-> TRUE, else |-> else]
    <3>1. branch \in Frames
      BY <2>2, OuterStands DEF Frames, Rc!CLOSERS
    <3>2. Append(Rc!Outer(s), branch) \in Seq(Frames)
      BY <3>1, <2>2, OuterStands
    <3> QED BY <2>2, <3>2 DEF Rc!Branch, FileShells
  <2> QED BY <2>1, <2>2
<1>6. Rc!Command(s, l, i, truths) \in FileShells
  BY <1>1, BodyStands, AddedType DEF Rc!Command, FileShells
<1>7. (l.head = "for" \/ Rc!Holds(l, i, s.path, truths)) \in BOOLEAN /\ (l.head = "else") \in BOOLEAN
  BY DEF Rc!Holds, Rc!Lines
<1> QED BY <1>2, <1>3, <1>4, <1>5, <1>6, <1>7 DEF Rc!After

-----------------------------------------------------------------------------
\* A line is of one kind: it opens a block, closes one, turns to its other branch, runs or is a comment.
LEMMA HeadsApart ==
  /\ Rc!OPENERS = {"if", "while", "for", "case"}
  /\ Rc!OPENERS \cap Rc!CLOSERS = {} /\ Rc!OPENERS \cap {"elif", "else"} = {} /\
       Rc!CLOSERS \cap {"elif", "else"} = {}
  /\ Rc!OPENERS \cap Rc!Commands = {} /\ Rc!CLOSERS \cap Rc!Commands = {} /\
       {"elif", "else"} \cap Rc!Commands = {}
<1>1. Rc!OPENERS = {"if", "while", "for", "case"}
  BY DEF Rc!OPENERS, Rc!CloserOf
<1> QED BY <1>1 DEF Rc!CLOSERS, Rc!Commands

LEMMA AfterCases ==
  ASSUME NEW s, ~s.bad, ~s.heredoc, NEW l, NEW i, NEW truths
  PROVE  /\ l.head \in Rc!OPENERS =>
              Rc!After(s, l, i, truths) = Rc!Opened(s, l, l.head = "for" \/ Rc!Holds(l, i, s.path, truths))
         /\ l.head \in Rc!CLOSERS => Rc!After(s, l, i, truths) = Rc!Close(s, l.head)
         /\ l.head \in {"elif", "else"} =>
              Rc!After(s, l, i, truths) = Rc!Branch(s, l.head = "else" \/
                (l.head = "for" \/ Rc!Holds(l, i, s.path, truths)),
                                              l.head = "else")
         /\ l.head \in Rc!Commands => Rc!After(s, l, i, truths) = Rc!Command(s, l, i, truths)
<1> DEFINE holds == l.head = "for" \/ Rc!Holds(l, i, s.path, truths)
           open == Rc!Opened(s, l, holds)
           close == Rc!Close(s, l.head)
           branch == Rc!Branch(s, l.head = "else" \/ holds, l.head = "else")
           command == Rc!Command(s, l, i, truths)
<1>1. Rc!After(s, l, i, truths) =
        CASE l.head \in Rc!OPENERS -> open [] l.head \in Rc!CLOSERS -> close
          [] l.head \in {"elif", "else"} -> branch
          [] l.head \in Rc!Commands -> command [] OTHER -> s
  BY DEF Rc!After
<1> QED
  <2> HIDE DEF open, close, branch, command
  <2>1. Rc!After(s, l, i, truths) =
        CASE l.head \in Rc!OPENERS -> open [] l.head \in Rc!CLOSERS -> close
          [] l.head \in {"elif", "else"} -> branch
          [] l.head \in Rc!Commands -> command [] OTHER -> s
    BY <1>1
  <2>2. /\ l.head \in Rc!OPENERS => Rc!After(s, l, i, truths) = open
        /\ l.head \in Rc!CLOSERS => Rc!After(s, l, i, truths) = close
        /\ l.head \in {"elif", "else"} => Rc!After(s, l, i, truths) = branch
        /\ l.head \in Rc!Commands => Rc!After(s, l, i, truths) = command
    BY <2>1, HeadsApart
  <2> QED BY <2>2 DEF open, close, branch, command

\* What a line of each kind makes of a shell in n blocks: another block ...
Opening(s, l, i, truths, t, n) ==
  /\ t.bad = FALSE /\ t.heredoc = FALSE /\ t.path = s.path /\ t.b = s.b /\ t.again = s.again
  /\ n \in Nat /\ Len(t.stack) = n + 1
  /\ \A k \in 1 .. n : t.stack[k] = s.stack[k]
  /\ t.stack[n + 1].closer = Rc!CloserOf[l.head]
  /\ t.stack[n + 1].on = (l.head = "for" \/ Rc!Holds(l, i, s.path, truths))
  /\ t.stack[n + 1].ran = (l.head = "for" \/ Rc!Holds(l, i, s.path, truths))
  /\ t.stack[n + 1].empty = (l.head # "case")
  /\ t.stack[n + 1].else = FALSE

LEMMA OpenEffect ==
  ASSUME NEW s \in FileShells, ~s.bad, ~s.heredoc, NEW l \in Rc!Lines, l.head \in Rc!OPENERS, NEW i, NEW truths
  PROVE  Opening(s, l, i, truths, Rc!After(s, l, i, truths), Len(s.stack))
<1> DEFINE t == Rc!After(s, l, i, truths)
           n == Len(s.stack)
<1>t. t = Rc!After(s, l, i, truths) /\ n = Len(s.stack)
  OBVIOUS
<1> HIDE DEF t, n
<1>g. SUFFICES Opening(s, l, i, truths, t, n)
  BY DEF t, n
<1> DEFINE holds == l.head = "for" \/ Rc!Holds(l, i, s.path, truths)
           frame == [closer |-> Rc!CloserOf[l.head], on |-> holds, ran |-> holds,
                     empty |-> l.head # "case", else |-> FALSE]
<1>1. t = [s EXCEPT !.stack = Append(s.stack, frame)]
  BY <1>t, AfterCases DEF Rc!Opened
<1>2. s.stack \in Seq(Frames) /\ s.bad = FALSE /\ s.heredoc = FALSE
  BY <1>t DEF FileShells
<1>3. n \in Nat /\ Len(Append(s.stack, frame)) = n + 1 /\ Append(s.stack, frame)[n + 1] = frame
      /\ \A k \in 1 .. n : Append(s.stack, frame)[k] = s.stack[k]
  <2> HIDE DEF frame
  <2> QED BY <1>t, <1>2
<1>4. /\ t.bad = s.bad /\ t.heredoc = s.heredoc /\ t.path = s.path /\ t.b = s.b /\ t.again = s.again
      /\ t.stack = Append(s.stack, frame)
  <2> HIDE DEF frame
  <2> QED BY <1>1 DEF FileShells
<1> QED BY <1>2, <1>3, <1>4 DEF Opening

\* ... one block less, which must be of that kind and have a body ...
Closing(s, l, t, n) ==
  /\ t.heredoc = FALSE /\ t.path = s.path /\ t.b = s.b /\ t.again = s.again /\ n \in Nat
  /\ t.bad = (n = 0 \/ s.stack[n].closer # l.head \/ s.stack[n].empty)
  /\ t.bad => t.stack = s.stack
  /\ ~t.bad => /\ Len(t.stack) = n - 1
               /\ \A k \in 1 .. n - 1 :
                    /\ t.stack[k].closer = s.stack[k].closer
                    /\ t.stack[k].on = s.stack[k].on
                    /\ t.stack[k].ran = s.stack[k].ran
                    /\ t.stack[k].else = s.stack[k].else
                    /\ t.stack[k].empty = (k # n - 1 /\ s.stack[k].empty)

LEMMA CloseEffect ==
  ASSUME NEW s \in FileShells, ~s.bad, ~s.heredoc, NEW l \in Rc!Lines, l.head \in Rc!CLOSERS, NEW i, NEW truths
  PROVE  Closing(s, l, Rc!After(s, l, i, truths), Len(s.stack))
<1> DEFINE t == Rc!After(s, l, i, truths)
           n == Len(s.stack)
<1>t. t = Rc!After(s, l, i, truths) /\ n = Len(s.stack)
  OBVIOUS
<1> HIDE DEF t, n
<1>g. SUFFICES Closing(s, l, t, n)
  BY DEF t, n
<1>1. s.stack \in Seq(Frames) /\ s.bad = FALSE /\ s.heredoc = FALSE /\ n \in Nat /\ (s.stack = <<>> <=> n = 0)
  BY <1>t DEF FileShells
<1>2. t = Rc!Close(s, l.head)
  BY <1>t, AfterCases
<1>3. CASE s.stack = <<>> \/ Rc!Top(s).closer # l.head \/ Rc!Top(s).empty
  <2>1. t = [s EXCEPT !.bad = TRUE]
    BY <1>2, <1>3 DEF Rc!Close
  <2>2. t.bad = TRUE /\ t.heredoc = s.heredoc /\ t.path = s.path /\ t.b = s.b /\ t.again = s.again /\
          t.stack = s.stack
    BY <2>1 DEF FileShells
  <2> QED BY <1>t, <1>1, <1>3, <2>2 DEF Rc!Top, Closing
<1>4. CASE ~(s.stack = <<>> \/ Rc!Top(s).closer # l.head \/ Rc!Top(s).empty)
  <2>1. t = [s EXCEPT !.stack = Rc!WithBody(Rc!Outer(s))]
    BY <1>2, <1>4 DEF Rc!Close
  <2>2. /\ t.bad = s.bad /\ t.heredoc = s.heredoc /\ t.path = s.path /\ t.b = s.b /\ t.again = s.again
        /\ t.stack = Rc!WithBody(Rc!Outer(s))
    BY <2>1 DEF FileShells
  <2>3. Rc!Outer(s) \in Seq(Frames) /\ Len(Rc!Outer(s)) = n - 1 /\
          \A k \in 1 .. n - 1 : Rc!Outer(s)[k] = s.stack[k]
    BY <1>t, <1>4, OuterStands
  <2>4. Len(t.stack) = n - 1 /\ \A k \in 1 .. n - 1 :
                           /\ t.stack[k].closer = s.stack[k].closer
                           /\ t.stack[k].on = s.stack[k].on
                           /\ t.stack[k].ran = s.stack[k].ran
                           /\ t.stack[k].else = s.stack[k].else
                           /\ t.stack[k].empty = (k # n - 1 /\ s.stack[k].empty)
    BY <2>2, <2>3, BodyStands
  <2> QED BY <1>t, <1>1, <1>4, <2>2, <2>4 DEF Rc!Top, Closing
<1> QED BY <1>3, <1>4

\* ... the other branch of the innermost one ...
Branching(s, l, i, truths, t, n) ==
  /\ t.heredoc = FALSE /\ t.path = s.path /\ t.b = s.b /\ t.again = s.again /\ n \in Nat
  /\ t.bad = (n = 0 \/ s.stack[n].closer # "fi" \/ s.stack[n].empty \/ s.stack[n].else)
  /\ t.bad => t.stack = s.stack
  /\ ~t.bad => /\ Len(t.stack) = n
               /\ \A k \in 1 .. n - 1 : t.stack[k] = s.stack[k]
               /\ t.stack[n].closer = "fi"
               /\ t.stack[n].on = ((l.head = "else" \/ Rc!Holds(l, i, s.path, truths)) /\ ~s.stack[n].ran)
               /\ t.stack[n].ran = ((l.head = "else" \/ Rc!Holds(l, i, s.path, truths)) \/ s.stack[n].ran)
               /\ t.stack[n].empty = TRUE
               /\ t.stack[n].else = (l.head = "else")

LEMMA BranchEffect ==
  ASSUME NEW s \in FileShells, ~s.bad, ~s.heredoc, NEW l \in Rc!Lines, l.head \in {"elif", "else"}, NEW i,
           NEW truths
  PROVE  Branching(s, l, i, truths, Rc!After(s, l, i, truths), Len(s.stack))
<1> DEFINE t == Rc!After(s, l, i, truths)
           n == Len(s.stack)
<1>t. t = Rc!After(s, l, i, truths) /\ n = Len(s.stack)
  OBVIOUS
<1> HIDE DEF t, n
<1>g. SUFFICES Branching(s, l, i, truths, t, n)
  BY DEF t, n
<1> DEFINE holds == l.head = "else" \/ (l.head = "for" \/ Rc!Holds(l, i, s.path, truths))
           branch == [closer |-> "fi", on |-> holds /\ ~Rc!Top(s).ran, ran |-> holds \/ Rc!Top(s).ran,
                      empty |-> TRUE, else |-> l.head = "else"]
<1>1. s.stack \in Seq(Frames) /\ s.bad = FALSE /\ s.heredoc = FALSE /\ n \in Nat /\ (s.stack = <<>> <=> n = 0)
  BY <1>t DEF FileShells
<1>2. t = Rc!Branch(s, holds, l.head = "else")
  BY <1>t, AfterCases
<1>a. holds <=> l.head = "else" \/ Rc!Holds(l, i, s.path, truths)
  OBVIOUS
<1>3. CASE s.stack = <<>> \/ Rc!Top(s).closer # "fi" \/ Rc!Top(s).empty \/ Rc!Top(s).else
  <2>1. t = [s EXCEPT !.bad = TRUE]
    BY <1>2, <1>3 DEF Rc!Branch
  <2>2. t.bad = TRUE /\ t.heredoc = s.heredoc /\ t.path = s.path /\ t.b = s.b /\ t.again = s.again /\
          t.stack = s.stack
    BY <2>1 DEF FileShells
  <2> QED BY <1>t, <1>1, <1>3, <2>2 DEF Rc!Top, Branching
<1>4. CASE ~(s.stack = <<>> \/ Rc!Top(s).closer # "fi" \/ Rc!Top(s).empty \/ Rc!Top(s).else)
  <2>1. t = [s EXCEPT !.stack = Append(Rc!Outer(s), branch)]
    BY <1>2, <1>4 DEF Rc!Branch
  <2>2. /\ t.bad = s.bad /\ t.heredoc = s.heredoc /\ t.path = s.path /\ t.b = s.b /\ t.again = s.again
        /\ t.stack = Append(Rc!Outer(s), branch)
    <3> HIDE DEF branch
    <3> QED BY <2>1 DEF FileShells
  <2>3. n # 0 /\ Rc!Outer(s) \in Seq(Frames) /\ Len(Rc!Outer(s)) = n - 1 /\
          \A k \in 1 .. n - 1 : Rc!Outer(s)[k] = s.stack[k]
    BY <1>t, <1>4, <1>1, OuterStands
  <2>4. Len(t.stack) = n /\ t.stack[n] = branch /\ \A k \in 1 .. n - 1 : t.stack[k] = s.stack[k]
    <3> HIDE DEF branch
    <3> QED BY <2>2, <2>3, <1>1
  <2>5. /\ t.stack[n].closer = "fi" /\ t.stack[n].empty = TRUE /\ t.stack[n].else = (l.head = "else")
        /\ t.stack[n].on = (holds /\ ~Rc!Top(s).ran) /\ t.stack[n].ran = (holds \/ Rc!Top(s).ran)
    <3> HIDE DEF holds
    <3> QED BY <2>4
  <2>6. Rc!Top(s) = s.stack[n]
    BY <1>t DEF Rc!Top
  <2>7. t.bad = FALSE /\ ~(n = 0 \/ s.stack[n].closer # "fi" \/ s.stack[n].empty \/ s.stack[n].else)
    BY <1>1, <1>4, <2>2, <2>6
  <2> HIDE DEF holds, branch
  <2> QED BY <1>1, <1>a, <2>2, <2>4, <2>5, <2>6, <2>7 DEF Branching
<1> QED BY <1>3, <1>4

\* What a command does when it is reached, and when its own condition holds.
Does(s, l, i, truths) == Rc!Running(s) /\ (l.form \in {"and", "if", "case"} => Rc!Holds(l, i, s.path, truths))
Writes(s, l, i, truths) == l.head = "write" /\ l.form # "prefix" /\ Does(s, l, i, truths)

\* ... its effect on the variable and on PATH ...
Commanding(s, l, i, truths, t, n) ==
  /\ t.bad = FALSE /\ t.heredoc = (l.head = "heredoc") /\ n \in Nat /\ Len(t.stack) = n
  /\ t.stack = Rc!WithBody(s.stack)
  /\ \A k \in 1 .. n : /\ t.stack[k].closer = s.stack[k].closer
                       /\ t.stack[k].on = s.stack[k].on
                       /\ t.stack[k].ran = s.stack[k].ran
                       /\ t.stack[k].else = s.stack[k].else
                       /\ t.stack[k].empty = (k # n /\ s.stack[k].empty)
  /\ t.b = IF l.head = "B=" /\ Does(s, l, i, truths) THEN l.value[1] ELSE s.b
  /\ t.path = IF Writes(s, l, i, truths) THEN Rc!Assigned(l.value, s) ELSE s.path
  /\ t.again = IF Writes(s, l, i, truths) /\ "PATH" \in Rc!Range(l.value)
                  /\ "m" \in s.path \cap Rc!Added(l.value, s.b)
               THEN s.again \cup {i} ELSE s.again

LEMMA CommandEffect ==
  ASSUME NEW s \in FileShells, ~s.bad, ~s.heredoc, NEW l \in Rc!Lines, l.head \in Rc!Commands, NEW i, NEW truths
  PROVE  Commanding(s, l, i, truths, Rc!After(s, l, i, truths), Len(s.stack))
<1> DEFINE t == Rc!After(s, l, i, truths)
           n == Len(s.stack)
<1>t. t = Rc!After(s, l, i, truths) /\ n = Len(s.stack)
  OBVIOUS
<1> HIDE DEF t, n
<1>g. SUFFICES Commanding(s, l, i, truths, t, n)
  BY DEF t, n
<1>1. s.stack \in Seq(Frames) /\ s.bad = FALSE /\ s.heredoc = FALSE /\ n \in Nat
  BY <1>t DEF FileShells
<1>2. t = Rc!Command(s, l, i, truths)
  BY <1>t, AfterCases
<1>3. /\ t.bad = s.bad /\ t.heredoc = (l.head = "heredoc") /\ t.stack = Rc!WithBody(s.stack)
      /\ t.b = IF l.head = "B=" /\ Does(s, l, i, truths) THEN l.value[1] ELSE s.b
      /\ t.path = IF Writes(s, l, i, truths) THEN Rc!Assigned(l.value, s) ELSE s.path
      /\ t.again = IF Writes(s, l, i, truths) /\ "PATH" \in Rc!Range(l.value)
                      /\ "m" \in s.path \cap Rc!Added(l.value, s.b)
                   THEN s.again \cup {i} ELSE s.again
  BY <1>2 DEF Rc!Command, Does, Writes, FileShells
<1> QED BY <1>t, <1>1, <1>3, BodyStands DEF Commanding

LEMMA CommentEffect ==
  ASSUME NEW s, NEW l \in Rc!Lines, l.head \in Rc!Comments, s.bad \/ ~s.heredoc, NEW i, NEW truths
  PROVE  Rc!After(s, l, i, truths) = s
BY DEF Rc!After, Rc!OPENERS, Rc!CLOSERS, Rc!CloserOf, Rc!Commands, Rc!Comments

\* ... and nothing but the end of the heredoc, in a heredoc.
Skipping(s, l, t) ==
  /\ t.heredoc = (l.head # "EOF") /\ t.bad = FALSE
  /\ t.stack = s.stack /\ t.path = s.path /\ t.b = s.b /\ t.again = s.again

LEMMA HeredocEffect ==
  ASSUME NEW s \in FileShells, ~s.bad, s.heredoc, NEW l, NEW i, NEW truths
  PROVE  Skipping(s, l, Rc!After(s, l, i, truths))
<1>1. Rc!After(s, l, i, truths) = [s EXCEPT !.heredoc = l.head # "EOF"]
  BY DEF Rc!After
<1>2. s.bad = FALSE
  BY DEF FileShells
<1> DEFINE on == l.head # "EOF"
<1> HIDE DEF on
<1>3. Rc!After(s, l, i, truths) = [s EXCEPT !.heredoc = on]
  BY <1>1 DEF on
<1>4. [s EXCEPT !.heredoc = on].heredoc = on
  BY DEF FileShells
<1> QED BY <1>2, <1>3, <1>4 DEF Skipping, FileShells, on

LEMMA BadEffect ==
  ASSUME NEW s, s.bad, NEW l, NEW i, NEW truths
  PROVE  Rc!After(s, l, i, truths) = s
BY DEF Rc!After

LEMMA HeadOfLine ==
  ASSUME NEW l \in Rc!Lines
  PROVE  l.head \in Rc!OPENERS \/ l.head \in Rc!CLOSERS \/ l.head \in {"elif", "else"}
         \/ l.head \in Rc!Commands \/ l.head \in Rc!Comments
BY DEF Rc!Lines, Rc!Heads

-----------------------------------------------------------------------------
\* So on all lines the shell is of that type; and what does not parse does not parse later.
LEMMA StartedType ==
  ASSUME NEW path \in SUBSET Dirs
  PROVE  Rc!Started(path) \in FileShells
BY DEF Rc!Started, FileShells, Dirs, Rc!Names

LEMMA RunType ==
  ASSUME NEW lines \in Seq(Rc!Lines), NEW path \in SUBSET Dirs, NEW truths, NEW i \in 1 .. Len(lines) + 1
  PROVE  Rc!Sourcing(lines, path, truths)[i] \in FileShells
<1> DEFINE run == Rc!Sourcing(lines, path, truths)
           S == {k \in 1 .. Len(lines) + 1 : run[k] \in FileShells}
<1>1. Len(lines) \in Nat /\ \A k \in 1 .. Len(lines) : lines[k] \in Rc!Lines
  OBVIOUS
<1>2. run[1] = Rc!Started(path) /\ \A k \in 1 .. Len(lines) : run[k + 1] = Rc!After(run[k], lines[k], k, truths)
  BY <1>1, SourcingSteps
<1> HIDE DEF run
<1>3. 1 \in S
  BY <1>1, <1>2, StartedType
<1>4. ASSUME NEW k \in 1 .. Len(lines), k \in S PROVE k + 1 \in S
  <2>1. k \in Nat /\ lines[k] \in Rc!Lines /\ run[k] \in FileShells /\ k + 1 \in 1 .. Len(lines) + 1
    BY <1>1, <1>4
  <2>2. run[k + 1] \in FileShells
    BY <1>2, <2>1, AfterType
  <2> QED BY <2>1, <2>2
<1>5. 1 .. Len(lines) + 1 \subseteq S
  <2> HIDE DEF S
  <2> QED BY <1>1, <1>3, <1>4, Induction
<1> QED BY <1>5 DEF run

LEMMA BadStays ==
  ASSUME NEW lines \in Seq(Rc!Lines), NEW path \in SUBSET Dirs, NEW truths,
         ~Rc!Sourcing(lines, path, truths)[Len(lines) + 1].bad, NEW i \in 1 .. Len(lines) + 1
  PROVE  ~Rc!Sourcing(lines, path, truths)[i].bad
<1> DEFINE run == Rc!Sourcing(lines, path, truths)
           S == {k \in 1 .. Len(lines) + 1 : i <= k /\ run[i].bad => run[k].bad}
<1>1. Len(lines) \in Nat /\ \A k \in 1 .. Len(lines) : lines[k] \in Rc!Lines
  OBVIOUS
<1>2. \A k \in 1 .. Len(lines) : run[k + 1] = Rc!After(run[k], lines[k], k, truths)
  BY <1>1, SourcingSteps
<1> HIDE DEF run
<1>3. 1 \in S
  BY <1>1
<1>4. ASSUME NEW k \in 1 .. Len(lines), k \in S PROVE k + 1 \in S
  <2>1. CASE i <= k
    <3>1. run[k].bad => run[k + 1] = run[k]
      BY <1>2, BadEffect
    <3> QED BY <1>1, <1>4, <2>1, <3>1
  <2>2. CASE i = k + 1
    BY <1>1, <2>2
  <2> QED BY <1>1, <2>1, <2>2
<1>5. 1 .. Len(lines) + 1 \subseteq S
  <2> HIDE DEF S
  <2> QED BY <1>1, <1>3, <1>4, Induction
<1>6. Len(lines) + 1 \in S /\ ~run[Len(lines) + 1].bad
  BY <1>1, <1>5 DEF run
<1>7. ~run[i].bad
  BY <1>1, <1>6
<1> QED BY <1>7 DEF run

\* Two shells that are in the same blocks, whatever they run.
Alike(s, t) ==
  /\ s.bad = t.bad /\ s.heredoc = t.heredoc /\ Len(s.stack) = Len(t.stack)
  /\ \A k \in 1 .. Len(s.stack) : /\ s.stack[k].closer = t.stack[k].closer
                                  /\ s.stack[k].empty = t.stack[k].empty
                                  /\ s.stack[k].else = t.stack[k].else

LEMMA StepAlike ==
  ASSUME NEW s \in FileShells, NEW t \in FileShells, Alike(s, t), NEW l \in Rc!Lines, NEW m \in Rc!Lines,
           l.head = m.head,
         NEW i, NEW truths, NEW others
  PROVE  Alike(Rc!After(s, l, i, truths), Rc!After(t, m, i, others))
<1> DEFINE p == Rc!After(s, l, i, truths)
           q == Rc!After(t, m, i, others)
           n == Len(s.stack)
<1>0. p = Rc!After(s, l, i, truths) /\ q = Rc!After(t, m, i, others) /\ n = Len(s.stack)
  OBVIOUS
<1> HIDE DEF p, q, n
<1>g. SUFFICES Alike(p, q)
  BY DEF p, q
<1>1. CASE s.bad
  <2>1. t.bad
    BY <1>1 DEF Alike
  <2>2. p = s
    BY <1>0, <1>1, BadEffect
  <2>3. q = t
    BY <1>0, <2>1, BadEffect
  <2> QED BY <2>2, <2>3
<1>2. CASE ~s.bad /\ s.heredoc
  <2>1. ~t.bad /\ t.heredoc
    BY <1>2 DEF Alike, FileShells
  <2>2. Skipping(s, l, p)
    BY <1>0, <1>2, HeredocEffect
  <2>3. Skipping(t, m, q)
    BY <1>0, <2>1, HeredocEffect
  <2> QED BY <2>2, <2>3 DEF Alike, Skipping
<1>3. CASE ~s.bad /\ ~s.heredoc
  <2>1. ~t.bad /\ ~t.heredoc /\ Len(t.stack) = n /\ n \in Nat
    BY <1>0, <1>3 DEF Alike, FileShells
  <2>a. \A k \in 1 .. n : /\ s.stack[k].closer = t.stack[k].closer
                         /\ s.stack[k].empty = t.stack[k].empty
                         /\ s.stack[k].else = t.stack[k].else
    BY <1>0 DEF Alike
  <2>2. CASE l.head \in Rc!OPENERS
    <3>1. Opening(s, l, i, truths, p, n)
      BY <1>0, <1>3, <2>2, OpenEffect
    <3>2. Opening(t, m, i, others, q, n)
      BY <1>0, <2>1, <2>2, OpenEffect
    <3>3. Len(p.stack) = n + 1 /\ Len(q.stack) = n + 1 /\ p.bad = q.bad /\ p.heredoc = q.heredoc
      BY <3>1, <3>2 DEF Opening
    <3>4. ASSUME NEW k \in 1 .. n + 1
          PROVE  /\ p.stack[k].closer = q.stack[k].closer
                 /\ p.stack[k].empty = q.stack[k].empty
                 /\ p.stack[k].else = q.stack[k].else
      <4>1. CASE k \in 1 .. n
        BY <2>a, <3>1, <3>2, <4>1 DEF Opening
      <4>2. CASE k = n + 1
        BY <3>1, <3>2, <4>2 DEF Opening
      <4> QED BY <2>1, <4>1, <4>2
    <3> QED BY <3>3, <3>4 DEF Alike
  <2>3. CASE l.head \in Rc!CLOSERS
    <3>1. Closing(s, l, p, n)
      BY <1>0, <1>3, <2>3, CloseEffect
    <3>2. Closing(t, m, q, n)
      BY <1>0, <2>1, <2>3, CloseEffect
    <3>a. (n = 0 \/ s.stack[n].closer # l.head \/ s.stack[n].empty) =
            (n = 0 \/ t.stack[n].closer # m.head \/ t.stack[n].empty)
      <4>1. CASE n = 0
        BY <4>1
      <4>2. CASE n # 0
        <5>1. n \in 1 .. n
          BY <2>1, <4>2
        <5> QED BY <2>a, <5>1
      <4> QED BY <4>1, <4>2
    <3>3. p.bad = q.bad /\ p.heredoc = q.heredoc
      BY <3>a, <3>1, <3>2 DEF Closing
    <3>4. CASE p.bad
      <4>1. p.stack = s.stack /\ q.stack = t.stack
        BY <3>1, <3>2, <3>3, <3>4 DEF Closing
      <4> QED BY <3>3, <4>1 DEF Alike
    <3>5. CASE ~p.bad
      <4>1. Len(p.stack) = n - 1 /\ Len(q.stack) = n - 1
        BY <3>1, <3>2, <3>3, <3>5 DEF Closing
      <4>2. ASSUME NEW k \in 1 .. n - 1
            PROVE  /\ p.stack[k].closer = q.stack[k].closer
                   /\ p.stack[k].empty = q.stack[k].empty
                   /\ p.stack[k].else = q.stack[k].else
        <5>1. k \in 1 .. n
          BY <2>1
        <5> QED BY <2>a, <3>1, <3>2, <3>3, <3>5, <5>1 DEF Closing
      <4> QED BY <3>3, <4>1, <4>2 DEF Alike
    <3> QED BY <3>4, <3>5
  <2>4. CASE l.head \in {"elif", "else"}
    <3>1. Branching(s, l, i, truths, p, n)
      BY <1>0, <1>3, <2>4, BranchEffect
    <3>2. Branching(t, m, i, others, q, n)
      BY <1>0, <2>1, <2>4, BranchEffect
    <3>a. (n = 0 \/ s.stack[n].closer # "fi" \/ s.stack[n].empty \/ s.stack[n].else) =
            (n = 0 \/ t.stack[n].closer # "fi" \/ t.stack[n].empty \/ t.stack[n].else)
      <4>1. CASE n = 0
        BY <4>1
      <4>2. CASE n # 0
        <5>1. n \in 1 .. n
          BY <2>1, <4>2
        <5> QED BY <2>a, <5>1
      <4> QED BY <4>1, <4>2
    <3>3. p.bad = q.bad /\ p.heredoc = q.heredoc
      BY <3>a, <3>1, <3>2 DEF Branching
    <3>4. CASE p.bad
      <4>1. p.stack = s.stack /\ q.stack = t.stack
        BY <3>1, <3>2, <3>3, <3>4 DEF Branching
      <4> QED BY <3>3, <4>1 DEF Alike
    <3>5. CASE ~p.bad
      <4>1. Len(p.stack) = n /\ Len(q.stack) = n
        BY <3>1, <3>2, <3>3, <3>5 DEF Branching
      <4>2. ASSUME NEW k \in 1 .. n
            PROVE  /\ p.stack[k].closer = q.stack[k].closer
                   /\ p.stack[k].empty = q.stack[k].empty
                   /\ p.stack[k].else = q.stack[k].else
        <5>1. CASE k = n
          BY <3>1, <3>2, <3>3, <3>5, <5>1 DEF Branching
        <5>2. CASE k \in 1 .. n - 1
          BY <2>a, <3>1, <3>2, <3>3, <3>5, <5>2 DEF Branching
        <5> QED BY <2>1, <5>1, <5>2
      <4> QED BY <3>3, <4>1, <4>2 DEF Alike
    <3> QED BY <3>4, <3>5
  <2>5. CASE l.head \in Rc!Commands
    <3>1. Commanding(s, l, i, truths, p, n)
      BY <1>0, <1>3, <2>5, CommandEffect
    <3>2. Commanding(t, m, i, others, q, n)
      BY <1>0, <2>1, <2>5, CommandEffect
    <3>3. Len(p.stack) = n /\ Len(q.stack) = n /\ p.bad = q.bad /\ p.heredoc = q.heredoc
      BY <3>1, <3>2 DEF Commanding
    <3>4. ASSUME NEW k \in 1 .. n
          PROVE  /\ p.stack[k].closer = q.stack[k].closer
                 /\ p.stack[k].empty = q.stack[k].empty
                 /\ p.stack[k].else = q.stack[k].else
      BY <2>a, <3>1, <3>2 DEF Commanding
    <3> QED BY <3>3, <3>4 DEF Alike
  <2>6. CASE l.head \in Rc!Comments
    BY <1>0, <1>3, <2>1, <2>6, CommentEffect
  <2> QED BY <2>2, <2>3, <2>4, <2>5, <2>6, HeadOfLine
<1> QED BY <1>1, <1>2, <1>3

\* Files with the same heads put any two shells in the same blocks.
LEMMA RunsAlike ==
  ASSUME NEW lines \in Seq(Rc!Lines), NEW other \in Seq(Rc!Lines), Len(other) = Len(lines),
         \A k \in 1 .. Len(lines) : other[k].head = lines[k].head,
         NEW path \in SUBSET Dirs, NEW truths, NEW path2 \in SUBSET Dirs, NEW truths2,
         NEW i \in 1 .. Len(lines) + 1
  PROVE  Alike(Rc!Sourcing(lines, path, truths)[i], Rc!Sourcing(other, path2, truths2)[i])
<1> DEFINE run == Rc!Sourcing(lines, path, truths)
           run2 == Rc!Sourcing(other, path2, truths2)
           S == {k \in 1 .. Len(lines) + 1 : Alike(run[k], run2[k])}
<1>1. /\ Len(lines) \in Nat
      /\ \A k \in 1 .. Len(lines) : lines[k] \in Rc!Lines /\ other[k] \in Rc!Lines /\
           lines[k].head = other[k].head
  OBVIOUS
<1>2. run[1] = Rc!Started(path) /\ \A k \in 1 .. Len(lines) : run[k + 1] = Rc!After(run[k], lines[k], k, truths)
  BY <1>1, SourcingSteps
<1>3. run2[1] = Rc!Started(path2) /\ \A k \in 1 .. Len(lines) : run2[k + 1] =
        Rc!After(run2[k], other[k], k, truths2)
  BY <1>1, SourcingSteps
<1>4. \A k \in 1 .. Len(lines) + 1 : run[k] \in FileShells /\ run2[k] \in FileShells
  BY RunType
<1> HIDE DEF run, run2
<1>5. 1 \in S
  <2>1. Alike(Rc!Started(path), Rc!Started(path2))
    BY DEF Rc!Started, Alike
  <2> QED BY <1>1, <1>2, <1>3, <2>1
<1>6. ASSUME NEW k \in 1 .. Len(lines), k \in S PROVE k + 1 \in S
  <2>1. /\ lines[k] \in Rc!Lines /\ other[k] \in Rc!Lines /\ lines[k].head = other[k].head
        /\ run[k] \in FileShells /\ run2[k] \in FileShells /\ Alike(run[k], run2[k]) /\
             k + 1 \in 1 .. Len(lines) + 1
    BY <1>1, <1>4, <1>6
  <2>2. Alike(run[k + 1], run2[k + 1])
    BY <1>2, <1>3, <2>1, StepAlike
  <2> QED BY <2>1, <2>2
<1>7. 1 .. Len(lines) + 1 \subseteq S
  <2> HIDE DEF S
  <2> QED BY <1>1, <1>5, <1>6, Induction
<1> QED BY <1>7 DEF run, run2

-----------------------------------------------------------------------------
\* What the scan is in, and what each line makes of it.
ScanFrames == [closer : Rc!CLOSERS, tests : BOOLEAN]
Scans == [stack : Seq(ScanFrames), local : {"m", "n", "v"}, heredoc : BOOLEAN]

LEMMA Appended ==
  ASSUME NEW seq \in Seq(ScanFrames), NEW e \in ScanFrames
  PROVE  /\ Append(seq, e) \in Seq(ScanFrames) /\ Len(Append(seq, e)) = Len(seq) + 1
         /\ Append(seq, e)[Len(seq) + 1] = e
         /\ \A k \in 1 .. Len(seq) : Append(seq, e)[k] = seq[k]
  OBVIOUS

LEMMA Shortened ==
  ASSUME NEW seq \in Seq(ScanFrames), Len(seq) # 0
  PROVE  /\ SubSeq(seq, 1, Len(seq) - 1) \in Seq(ScanFrames)
         /\ Len(SubSeq(seq, 1, Len(seq) - 1)) = Len(seq) - 1
         /\ \A k \in 1 .. Len(seq) - 1 : SubSeq(seq, 1, Len(seq) - 1)[k] = seq[k]
<1> DEFINE m == Len(seq) - 1
<1>1. m \in Nat /\ 1 \in 1 .. Len(seq) + 1 /\ m \in 1 - 1 .. Len(seq) /\ m + 1 = Len(seq)
  OBVIOUS
<1> HIDE DEF m
<1>2. /\ SubSeq(seq, 1, m) \in Seq(ScanFrames)
      /\ Len(SubSeq(seq, 1, m)) = IF 1 <= m THEN m - 1 + 1 ELSE 0
      /\ \A i \in 1 .. m - 1 + 1 : SubSeq(seq, 1, m)[i] = seq[1 + i - 1]
  BY <1>1, SubSeqProperties
<1>3. Len(SubSeq(seq, 1, m)) = m /\ \A i \in 1 .. m : SubSeq(seq, 1, m)[i] = seq[i]
  BY <1>1, <1>2
<1> QED BY <1>2, <1>3 DEF m

LEMMA TopReplaced ==
  ASSUME NEW seq \in Seq(ScanFrames), Len(seq) # 0, NEW e \in ScanFrames
  PROVE  /\ [seq EXCEPT ![Len(seq)] = e] \in Seq(ScanFrames) /\ Len([seq EXCEPT ![Len(seq)] = e]) = Len(seq)
         /\ [seq EXCEPT ![Len(seq)] = e][Len(seq)] = e
         /\ \A k \in 1 .. Len(seq) - 1 : [seq EXCEPT ![Len(seq)] = e][k] = seq[k]
  OBVIOUS

LEMMA InnermostIsTop ==
  ASSUME NEW stack \in Seq(ScanFrames), Len(stack) # 0
  PROVE  Rc!Innermost(stack, stack[Len(stack)].closer) = Len(stack)
<1> DEFINE n == Len(stack)
           with == {k \in DOMAIN stack : stack[k].closer = stack[n].closer}
<1>1. n \in with /\ \A k \in with : k \in Nat /\ k <= n
  OBVIOUS
<1>2. Rc!Innermost(stack, stack[n].closer) = IF with = {} THEN 0 ELSE Rc!Max(with)
  BY DEF Rc!Innermost
<1> HIDE DEF with
<1>3. Rc!Max(with) \in with /\ \A k \in with : Rc!Max(with) >= k
  BY <1>1 DEF Rc!Max
<1>4. Rc!Max(with) = n
  BY <1>1, <1>3
<1> QED BY <1>1, <1>2, <1>4

\* What the scan makes of a line it reads, where the block it closes is the innermost one.
Reading(r, l, q, n) ==
  /\ q \in Scans
  /\ q.heredoc = (l.head = "heredoc") /\ q.local = Rc!Remember(r.local, l) /\ n \in Nat
  /\ l.head \in Rc!OPENERS => /\ Len(q.stack) = n + 1 /\ \A k \in 1 .. n : q.stack[k] = r.stack[k]
                           /\ q.stack[n + 1].closer = Rc!CloserOf[l.head] /\ q.stack[n + 1].tests = l.tests
  /\ l.head \in Rc!CLOSERS => Len(q.stack) = n - 1 /\ \A k \in 1 .. n - 1 : q.stack[k] = r.stack[k]
  /\ l.head = "elif" => /\ Len(q.stack) = n /\ \A k \in 1 .. n - 1 : q.stack[k] = r.stack[k]
                        /\ q.stack[n].closer = "fi" /\ q.stack[n].tests = l.tests
  /\ l.head \notin Rc!OPENERS \cup Rc!CLOSERS \cup {"elif"} => q.stack = r.stack

LEMMA ReadingEffect ==
  ASSUME NEW r \in Scans, ~r.heredoc, NEW l \in Rc!Lines,
         l.head \in Rc!CLOSERS => Len(r.stack) # 0 /\ r.stack[Len(r.stack)].closer = l.head,
         l.head = "elif" => Len(r.stack) # 0 /\ r.stack[Len(r.stack)].closer = "fi"
  PROVE  Reading(r, l, Rc!Scanned(r, l, FALSE), Len(r.stack))
<1> DEFINE q == Rc!Scanned(r, l, FALSE)
           n == Len(r.stack)
<1>0. q = Rc!Scanned(r, l, FALSE) /\ n = Len(r.stack)
  OBVIOUS
<1> HIDE DEF q, n
<1>g. SUFFICES Reading(r, l, q, n)
  BY DEF q, n
<1>1. r.stack \in Seq(ScanFrames) /\ n \in Nat /\ r.local \in {"m", "n", "v"} /\ r.heredoc = FALSE
  BY <1>0 DEF Scans
<1>2. q = [stack |-> Rc!UpdateBlockStack(r.stack, l), local |-> Rc!Remember(r.local, l),
        heredoc |-> l.head = "heredoc"]
  BY <1>0, <1>1 DEF Rc!Scanned
<1>3. q.stack = Rc!UpdateBlockStack(r.stack, l) /\ q.local = Rc!Remember(r.local, l) /\
        q.heredoc = (l.head = "heredoc")
  BY <1>2
<1>4. Rc!Remember(r.local, l) \in {"m", "n", "v"}
  BY <1>1 DEF Rc!Remember, Rc!Known
<1>5. l.tests \in BOOLEAN
  BY DEF Rc!Lines
<1>6. q.stack \in Seq(ScanFrames) => q \in Scans
  <2> DEFINE stack == Rc!UpdateBlockStack(r.stack, l)
             local == Rc!Remember(r.local, l)
  <2> HIDE DEF stack, local
  <2>1. q = [stack |-> stack, local |-> local, heredoc |-> l.head = "heredoc"] /\ local \in {"m", "n", "v"}
    BY <1>2, <1>4 DEF stack, local
  <2> QED BY <2>1 DEF Scans
<1>7. CASE l.head \in Rc!OPENERS
  <2> DEFINE frame == [closer |-> Rc!CloserOf[l.head], tests |-> l.tests]
  <2>1. q.stack = Append(r.stack, frame)
    BY <1>3, <1>7, HeadsApart DEF Rc!UpdateBlockStack
  <2>2. frame \in ScanFrames
    BY <1>5, <1>7, HeadsApart DEF ScanFrames, Rc!CloserOf, Rc!CLOSERS
  <2>3. /\ q.stack \in Seq(ScanFrames) /\ Len(q.stack) = n + 1 /\ q.stack[n + 1] = frame
        /\ \A k \in 1 .. n : q.stack[k] = r.stack[k]
    <3> HIDE DEF frame
    <3>1. /\ Append(r.stack, frame) \in Seq(ScanFrames) /\ Len(Append(r.stack, frame)) = Len(r.stack) + 1
          /\ Append(r.stack, frame)[Len(r.stack) + 1] = frame
          /\ \A k \in 1 .. Len(r.stack) : Append(r.stack, frame)[k] = r.stack[k]
      BY <1>1, <2>2, Appended
    <3> QED BY <1>0, <2>1, <3>1
  <2>4. l.head \notin Rc!CLOSERS /\ l.head # "elif"
    BY <1>7, HeadsApart
  <2> QED BY <1>1, <1>3, <1>6, <1>7, <2>3, <2>4 DEF Reading
<1>8. CASE l.head \in Rc!CLOSERS
  <2>1. q.stack = Rc!PopCloser(r.stack, l.head)
    BY <1>3, <1>8, HeadsApart DEF Rc!UpdateBlockStack
  <2>2. Rc!Innermost(r.stack, l.head) = n /\ n # 0
    BY <1>0, <1>1, <1>8, InnermostIsTop
  <2>3. q.stack = SubSeq(r.stack, 1, n - 1)
    BY <2>1, <2>2 DEF Rc!PopCloser
  <2>4. /\ q.stack \in Seq(ScanFrames) /\ Len(q.stack) = n - 1
        /\ \A k \in 1 .. n - 1 : q.stack[k] = r.stack[k]
    <3>1. /\ SubSeq(r.stack, 1, Len(r.stack) - 1) \in Seq(ScanFrames)
          /\ Len(SubSeq(r.stack, 1, Len(r.stack) - 1)) = Len(r.stack) - 1
          /\ \A k \in 1 .. Len(r.stack) - 1 : SubSeq(r.stack, 1, Len(r.stack) - 1)[k] = r.stack[k]
      BY <1>0, <1>1, <2>2, Shortened
    <3> QED BY <1>0, <2>3, <3>1
  <2>5. l.head \notin Rc!OPENERS /\ l.head # "elif"
    BY <1>8, HeadsApart
  <2> QED BY <1>1, <1>3, <1>6, <1>8, <2>4, <2>5 DEF Reading
<1>9. CASE l.head = "elif"
  <2> DEFINE frame == [closer |-> "fi", tests |-> l.tests]
  <2>1. q.stack = Rc!ReplaceFi(r.stack, l.tests)
    BY <1>3, <1>9, HeadsApart DEF Rc!UpdateBlockStack
  <2>2. Rc!Innermost(r.stack, "fi") = n /\ n # 0
    BY <1>0, <1>1, <1>9, InnermostIsTop
  <2>3. q.stack = [r.stack EXCEPT ![n] = frame]
    BY <2>1, <2>2 DEF Rc!ReplaceFi
  <2>4. frame \in ScanFrames
    BY <1>5 DEF ScanFrames, Rc!CLOSERS
  <2>5. /\ q.stack \in Seq(ScanFrames) /\ Len(q.stack) = n /\ q.stack[n] = frame
        /\ \A k \in 1 .. n - 1 : q.stack[k] = r.stack[k]
    <3> HIDE DEF frame
    <3>1. /\ [r.stack EXCEPT ![Len(r.stack)] = frame] \in Seq(ScanFrames)
          /\ Len([r.stack EXCEPT ![Len(r.stack)] = frame]) = Len(r.stack)
          /\ [r.stack EXCEPT ![Len(r.stack)] = frame][Len(r.stack)] = frame
          /\ \A k \in 1 .. Len(r.stack) - 1 : [r.stack EXCEPT ![Len(r.stack)] = frame][k] = r.stack[k]
      BY <1>0, <1>1, <2>2, <2>4, TopReplaced
    <3> QED BY <1>0, <2>3, <3>1
  <2>6. l.head \notin Rc!OPENERS /\ l.head \notin Rc!CLOSERS
    BY <1>9, HeadsApart
  <2> QED BY <1>1, <1>3, <1>6, <1>9, <2>5, <2>6 DEF Reading
<1>10. CASE l.head \notin Rc!OPENERS \cup Rc!CLOSERS \cup {"elif"}
  <2>1. q.stack = r.stack
    BY <1>3, <1>10 DEF Rc!UpdateBlockStack
  <2> QED BY <1>1, <1>3, <1>6, <1>10, <2>1 DEF Reading
<1> QED BY <1>7, <1>8, <1>9, <1>10

-----------------------------------------------------------------------------
\* The scan is in the blocks the shell is in.
Synced(r, s) ==
  /\ r \in Scans /\ r.heredoc = s.heredoc /\ Len(r.stack) = Len(s.stack)
  /\ \A k \in 1 .. Len(s.stack) : r.stack[k].closer = s.stack[k].closer

\* A block whose condition asks if PATH lacks the managed directory is not run.
Tested(r, s) == \A k \in 1 .. Len(s.stack) : r.stack[k].tests => ~s.stack[k].on

\* What is between our markers: it opens no block, and the scan does not read it.
OurLine(l) == l.head \in {"ours >>>", "<<< ours"} \/ l = Rc!Write(<<"m", "PATH">>, "case", TRUE, FALSE)

\* A line the shell parses keeps the scan and the shell in the same blocks.
LEMMA StepSynced ==
  ASSUME NEW s \in FileShells, ~s.bad, NEW r, Synced(r, s), NEW l \in Rc!Lines, NEW i, NEW truths,
         NEW managed \in BOOLEAN, managed => OurLine(l), ~Rc!After(s, l, i, truths).bad
  PROVE  /\ Synced(Rc!Scanned(r, l, managed), Rc!After(s, l, i, truths))
         /\ Tested(r, s) /\ "m" \in s.path /\ (l.head = "else" => ~Rc!PresenceGuarded(r, l))
              => Tested(Rc!Scanned(r, l, managed), Rc!After(s, l, i, truths))
<1> DEFINE t == Rc!After(s, l, i, truths)
           q == Rc!Scanned(r, l, managed)
           n == Len(s.stack)
           Guards == Tested(r, s) /\ "m" \in s.path /\ (l.head = "else" => ~Rc!PresenceGuarded(r, l))
<1>0. t = Rc!After(s, l, i, truths) /\ q = Rc!Scanned(r, l, managed) /\ n = Len(s.stack) /\ ~t.bad
  OBVIOUS
<1> HIDE DEF t, q, n
<1>g. SUFFICES Synced(q, t) /\ (Guards => Tested(q, t))
  BY DEF t, q
<1> HIDE DEF Guards
<1>1. r \in Scans /\ r.heredoc = s.heredoc /\ Len(r.stack) = n /\
        \A k \in 1 .. n : r.stack[k].closer = s.stack[k].closer
  BY <1>0 DEF Synced
<1>2. r.stack \in Seq(ScanFrames) /\ n \in Nat
  BY <1>1 DEF Scans
<1>3. Guards => \A k \in 1 .. n : r.stack[k].tests => ~s.stack[k].on
  BY <1>0 DEF Guards, Tested
<1>4. CASE s.heredoc
  <2>1. Skipping(s, l, t)
    BY <1>0, <1>4, HeredocEffect
  <2>2. q = [r EXCEPT !.heredoc = l.head # "EOF"]
    BY <1>0, <1>1, <1>4 DEF Rc!Scanned
  <2> DEFINE on == l.head # "EOF"
  <2>3. q.stack = r.stack /\ q.heredoc = on /\ q \in Scans
    <3> HIDE DEF on
    <3>1. q = [r EXCEPT !.heredoc = on]
      BY <2>2 DEF on
    <3>2. on \in BOOLEAN
      BY DEF on
    <3> QED BY <1>1, <3>1, <3>2 DEF Scans
  <2> QED BY <1>0, <1>1, <1>3, <2>1, <2>3 DEF Skipping, Synced, Tested
<1>5. CASE ~s.heredoc /\ managed
  <2>1. q = r
    BY <1>0, <1>1, <1>5 DEF Rc!Scanned
  <2>2. CASE l.head \in {"ours >>>", "<<< ours"}
    <3>1. t = s
      BY <1>0, <1>5, <2>2, CommentEffect DEF Rc!Comments
    <3> QED BY <1>0, <1>1, <1>3, <2>1, <3>1 DEF Synced, Tested
  <2>3. CASE l = Rc!Write(<<"m", "PATH">>, "case", TRUE, FALSE)
    <3>1. l.head = "write" /\ l.head \in Rc!Commands
      BY <2>3 DEF Rc!Write, Rc!Commands
    <3>2. Commanding(s, l, i, truths, t, n)
      BY <1>0, <1>5, <3>1, CommandEffect
    <3>3. t.heredoc = s.heredoc /\ Len(t.stack) = n
          /\ \A k \in 1 .. n : t.stack[k].closer = s.stack[k].closer /\ t.stack[k].on = s.stack[k].on
      BY <1>5, <3>1, <3>2 DEF Commanding, FileShells
    <3> QED BY <1>0, <1>1, <1>3, <2>1, <3>3 DEF Synced, Tested
  <2> QED BY <1>5, <2>2, <2>3 DEF OurLine
<1>6. CASE ~s.heredoc /\ ~managed
  <2>1. q = Rc!Scanned(r, l, FALSE) /\ ~r.heredoc
    BY <1>0, <1>1, <1>6
  <2>2. CASE l.head \in Rc!OPENERS
    <3>1. Opening(s, l, i, truths, t, n)
      BY <1>0, <1>6, <2>2, OpenEffect
    <3>2. Reading(r, l, q, n)
      BY <1>1, <2>1, <2>2, ReadingEffect, HeadsApart
    <3>3. l.head # "heredoc"
      BY <2>2, HeadsApart
    <3>4. /\ q \in Scans /\ q.heredoc = t.heredoc /\ Len(q.stack) = n + 1 /\ Len(t.stack) = n + 1
          /\ \A k \in 1 .. n : q.stack[k] = r.stack[k] /\ t.stack[k] = s.stack[k]
          /\ q.stack[n + 1].closer = t.stack[n + 1].closer /\ q.stack[n + 1].tests = l.tests
          /\ t.stack[n + 1].on = (l.head = "for" \/ Rc!Holds(l, i, s.path, truths))
      BY <2>2, <3>1, <3>2, <3>3 DEF Opening, Reading
    <3>5. \A k \in 1 .. n + 1 : k \in 1 .. n \/ k = n + 1
      BY <1>2
    <3>6. Synced(q, t)
      BY <1>1, <3>4, <3>5 DEF Synced
    <3>7. Guards => (l.tests => ~(l.head = "for" \/ Rc!Holds(l, i, s.path, truths)))
      BY DEF Guards, Rc!Holds, Rc!Lines
    <3>8. ASSUME Guards, NEW k \in 1 .. n + 1, q.stack[k].tests PROVE ~t.stack[k].on
      <4>1. CASE k \in 1 .. n
        BY <1>3, <3>4, <3>8, <4>1
      <4>2. CASE k = n + 1
        BY <3>4, <3>7, <3>8, <4>2
      <4> QED BY <3>5, <4>1, <4>2
    <3> QED BY <3>4, <3>6, <3>8 DEF Tested
  <2>3. CASE l.head \in Rc!CLOSERS
    <3>1. Closing(s, l, t, n)
      BY <1>0, <1>6, <2>3, CloseEffect
    <3>2. n # 0 /\ s.stack[n].closer = l.head
      BY <1>0, <3>1 DEF Closing
    <3>3. n \in 1 .. n /\ r.stack[n].closer = l.head
      BY <1>1, <1>2, <3>2
    <3>4. Reading(r, l, q, n)
      BY <1>1, <2>1, <2>3, <3>2, <3>3, ReadingEffect, HeadsApart
    <3>5. l.head # "heredoc"
      BY <2>3, HeadsApart DEF Rc!Commands
    <3>6. /\ q \in Scans /\ q.heredoc = t.heredoc /\ Len(q.stack) = n - 1 /\ Len(t.stack) = n - 1
          /\ \A k \in 1 .. n - 1 : /\ q.stack[k] = r.stack[k]
                                   /\ t.stack[k].closer = s.stack[k].closer /\ t.stack[k].on = s.stack[k].on
      BY <1>0, <2>3, <3>1, <3>4, <3>5 DEF Closing, Reading
    <3>7. \A k \in 1 .. n - 1 : k \in 1 .. n
      BY <1>2
    <3> QED BY <1>1, <1>3, <3>6, <3>7 DEF Synced, Tested
  <2>4. CASE l.head \in {"elif", "else"}
    <3>1. Branching(s, l, i, truths, t, n)
      BY <1>0, <1>6, <2>4, BranchEffect
    <3>2. n # 0 /\ s.stack[n].closer = "fi"
      BY <1>0, <3>1 DEF Branching
    <3>3. n \in 1 .. n /\ r.stack[n].closer = "fi"
      BY <1>1, <1>2, <3>2
    <3>4. Reading(r, l, q, n)
      BY <1>1, <2>1, <2>4, <3>2, <3>3, ReadingEffect, HeadsApart
    <3>5. l.head # "heredoc" /\ l.head \notin Rc!OPENERS \cup Rc!CLOSERS
      BY <2>4, HeadsApart
    <3>6. /\ q \in Scans /\ q.heredoc = t.heredoc /\ Len(t.stack) = n
          /\ \A k \in 1 .. n - 1 : t.stack[k] = s.stack[k]
          /\ t.stack[n].closer = "fi"
          /\ t.stack[n].on = ((l.head = "else" \/ Rc!Holds(l, i, s.path, truths)) /\ ~s.stack[n].ran)
      BY <1>0, <3>1, <3>4, <3>5 DEF Branching, Reading
    <3>7. \A k \in 1 .. n : k \in 1 .. n - 1 \/ k = n
      BY <1>2
    <3>8. CASE l.head = "elif"
      <4>1. Len(q.stack) = n /\ (\A k \in 1 .. n - 1 : q.stack[k] = r.stack[k]) /\
              q.stack[n].closer = "fi" /\ q.stack[n].tests = l.tests
        BY <3>4, <3>8 DEF Reading
      <4>2. Synced(q, t)
        BY <1>1, <3>6, <3>7, <4>1 DEF Synced
      <4>3. Guards => (l.tests => ~Rc!Holds(l, i, s.path, truths))
        BY DEF Guards, Rc!Holds
      <4>4. ASSUME Guards, NEW k \in 1 .. n, q.stack[k].tests PROVE ~t.stack[k].on
        <5>1. CASE k \in 1 .. n - 1
          BY <1>3, <3>6, <4>1, <4>4, <5>1
        <5>2. CASE k = n
          BY <3>6, <3>8, <4>1, <4>3, <4>4, <5>2
        <5> QED BY <3>7, <5>1, <5>2
      <4> QED BY <3>6, <4>2, <4>4 DEF Tested
    <3>9. CASE l.head = "else"
      <4>1. q.stack = r.stack
        BY <3>4, <3>5, <3>9 DEF Reading
      <4>2. Synced(q, t)
        BY <1>1, <3>3, <3>6, <3>7, <4>1 DEF Synced
      <4>3. Guards => \A k \in 1 .. n : ~r.stack[k].tests
        BY <1>1, <1>2, <3>9 DEF Guards, Rc!PresenceGuarded
      <4> QED BY <3>6, <4>1, <4>2, <4>3 DEF Tested
    <3> QED BY <2>4, <3>8, <3>9
  <2>5. CASE l.head \in Rc!Commands
    <3>1. Commanding(s, l, i, truths, t, n)
      BY <1>0, <1>6, <2>5, CommandEffect
    <3>2. l.head \notin Rc!OPENERS \cup Rc!CLOSERS \cup {"elif"} /\ l.head \notin Rc!CLOSERS /\ l.head # "elif"
      BY <2>5, HeadsApart
    <3>3. Reading(r, l, q, n)
      BY <1>1, <2>1, <3>2, ReadingEffect
    <3>4. q \in Scans /\ q.heredoc = t.heredoc /\ q.stack = r.stack /\ Len(t.stack) = n
          /\ \A k \in 1 .. n : t.stack[k].closer = s.stack[k].closer /\ t.stack[k].on = s.stack[k].on
      BY <3>1, <3>2, <3>3 DEF Commanding, Reading
    <3> QED BY <1>1, <1>3, <3>4 DEF Synced, Tested
  <2>6. CASE l.head \in Rc!Comments
    <3>1. t = s
      BY <1>0, <1>6, <2>6, CommentEffect
    <3>2. l.head \notin Rc!OPENERS \cup Rc!CLOSERS \cup {"elif"} /\ l.head # "heredoc"
      BY <2>6, HeadsApart DEF Rc!Comments, Rc!CLOSERS
    <3>3. Reading(r, l, q, n)
      BY <1>1, <2>1, <3>2, ReadingEffect
    <3>4. q \in Scans /\ q.heredoc = FALSE /\ q.stack = r.stack
      BY <3>2, <3>3 DEF Reading
    <3>5. s.heredoc = FALSE
      BY <1>6 DEF FileShells
    <3> QED BY <1>0, <1>1, <1>3, <3>1, <3>4, <3>5 DEF Synced, Tested
  <2> QED BY <2>2, <2>3, <2>4, <2>5, <2>6, HeadOfLine
<1> QED BY <1>4, <1>5, <1>6

-----------------------------------------------------------------------------
\* What the variable holds is told by a line outside all blocks.
Settled(r, l) == l.head = "B=" => r.stack = <<>> /\ Rc!Known(l.value[1], "v")

LEMMA StepTold ==
  ASSUME NEW s \in FileShells, ~s.bad, NEW r, Synced(r, s), NEW l \in Rc!Lines, NEW i, NEW truths,
         NEW managed \in BOOLEAN, managed => OurLine(l), Settled(r, l), r.local = s.b
  PROVE  Rc!Scanned(r, l, managed).local = Rc!After(s, l, i, truths).b
<1> DEFINE t == Rc!After(s, l, i, truths)
           q == Rc!Scanned(r, l, managed)
<1>0. t = Rc!After(s, l, i, truths) /\ q = Rc!Scanned(r, l, managed)
  OBVIOUS
<1> HIDE DEF t, q
<1>g. SUFFICES q.local = t.b
  BY DEF t, q
<1>1. r \in Scans /\ r.heredoc = s.heredoc /\ Len(r.stack) = Len(s.stack)
  BY DEF Synced
<1>2. l.head # "B=" => t.b = s.b
  <2>1. CASE s.heredoc
    BY <1>0, <2>1, HeredocEffect DEF Skipping
  <2>2. CASE ~s.heredoc
    <3>1. CASE l.head \in Rc!OPENERS
      <4>1. Opening(s, l, i, truths, t, Len(s.stack))
        BY <1>0, <2>2, <3>1, OpenEffect
      <4> QED BY <4>1 DEF Opening
    <3>2. CASE l.head \in Rc!CLOSERS
      <4>1. Closing(s, l, t, Len(s.stack))
        BY <1>0, <2>2, <3>2, CloseEffect
      <4> QED BY <4>1 DEF Closing
    <3>3. CASE l.head \in {"elif", "else"}
      <4>1. Branching(s, l, i, truths, t, Len(s.stack))
        BY <1>0, <2>2, <3>3, BranchEffect
      <4> QED BY <4>1 DEF Branching
    <3>4. CASE l.head \in Rc!Commands
      <4>1. Commanding(s, l, i, truths, t, Len(s.stack))
        BY <1>0, <2>2, <3>4, CommandEffect
      <4> QED BY <4>1 DEF Commanding
    <3>5. CASE l.head \in Rc!Comments
      BY <1>0, <2>2, <3>5, CommentEffect
    <3> QED BY <3>1, <3>2, <3>3, <3>4, <3>5, HeadOfLine
  <2> QED BY <2>1, <2>2
<1>3. CASE s.heredoc
  <2>1. q = [r EXCEPT !.heredoc = l.head # "EOF"]
    BY <1>0, <1>1, <1>3 DEF Rc!Scanned
  <2>2. q.local = r.local
    BY <1>1, <2>1 DEF Scans
  <2> QED BY <1>0, <1>3, <2>2, HeredocEffect, ZenonT(30) DEF Skipping
<1>4. CASE ~s.heredoc /\ managed
  <2>1. q = r
    BY <1>0, <1>1, <1>4 DEF Rc!Scanned
  <2>2. l.head # "B="
    <3>1. OurLine(l)
      BY <1>4
    <3>2. Rc!Write(<<"m", "PATH">>, "case", TRUE, FALSE).head = "write"
      BY DEF Rc!Write
    <3> QED BY <3>1, <3>2 DEF OurLine
  <2> QED BY <1>2, <2>1, <2>2
<1>5. CASE ~s.heredoc /\ ~managed
  <2>1. q = [stack |-> Rc!UpdateBlockStack(r.stack, l), local |-> Rc!Remember(r.local, l),
          heredoc |-> l.head = "heredoc"]
    BY <1>0, <1>1, <1>5 DEF Rc!Scanned
  <2>2. q.local = Rc!Remember(r.local, l)
    BY <2>1
  <2>3. CASE l.head # "B="
    BY <1>2, <2>2, <2>3 DEF Rc!Remember
  <2>4. CASE l.head = "B="
    <3>1. r.stack = <<>> /\ l.value[1] \in {"m", "n"}
      BY <2>4 DEF Settled, Rc!Known, Rc!Expand
    <3>2. Len(s.stack) = 0 /\ s.stack \in Seq(Frames)
      BY <1>1, <3>1 DEF FileShells
    <3>3. Rc!Running(s)
      BY <3>2 DEF Rc!Running
    <3>4. l.form = "plain"
      BY <2>4 DEF Rc!Lines
    <3>5. Does(s, l, i, truths)
      BY <3>3, <3>4 DEF Does
    <3>6. l.head \in Rc!Commands
      BY <2>4 DEF Rc!Commands
    <3>7. Commanding(s, l, i, truths, t, Len(s.stack))
      BY <1>0, <1>5, <3>6, CommandEffect
    <3>8. t.b = l.value[1]
      BY <2>4, <3>5, <3>7 DEF Commanding
    <3>9. Rc!Remember(r.local, l) = l.value[1]
      BY <2>4, <3>1 DEF Rc!Remember, Rc!Known, Rc!Expand
    <3> QED BY <2>2, <3>8, <3>9
  <2> QED BY <2>3, <2>4
<1> QED BY <1>3, <1>4, <1>5

\* On all lines: the same blocks, and the same value of a variable that is not stale.
LEMMA RunSynced ==
  ASSUME NEW lines \in Seq(Rc!Lines), Rc!OursIsOurs(lines), NEW path \in SUBSET Dirs, NEW truths,
         ~Rc!Sourcing(lines, path, truths)[Len(lines) + 1].bad, NEW i \in 1 .. Len(lines) + 1
  PROVE  /\ Synced(Rc!Scan(lines)[i], Rc!Sourcing(lines, path, truths)[i])
         /\ ~Rc!Stale(lines) => Rc!Scan(lines)[i].local = Rc!Sourcing(lines, path, truths)[i].b
<1> DEFINE run == Rc!Sourcing(lines, path, truths)
           scan == Rc!Scan(lines)
           S == {k \in 1 .. Len(lines) + 1 : Synced(scan[k], run[k]) /\
             (~Rc!Stale(lines) => scan[k].local = run[k].b)}
<1>1. Len(lines) \in Nat /\ DOMAIN lines = 1 .. Len(lines) /\ \A k \in 1 .. Len(lines) : lines[k] \in Rc!Lines
  OBVIOUS
<1>2. run[1] = Rc!Started(path) /\ \A k \in 1 .. Len(lines) : run[k + 1] = Rc!After(run[k], lines[k], k, truths)
  BY <1>1, SourcingSteps
<1>3. scan[1] = Rc!Unread /\ \A k \in 1 .. Len(lines) : scan[k + 1] =
        Rc!Scanned(scan[k], lines[k], k \in Rc!Managed(lines))
  BY <1>1, ScanSteps
<1>4. \A k \in 1 .. Len(lines) + 1 : run[k] \in FileShells /\ ~run[k].bad
  BY RunType, BadStays
<1>5. ~Rc!Stale(lines) => \A k \in 1 .. Len(lines) : Settled(scan[k], lines[k])
  BY <1>1 DEF Rc!Stale, Settled
<1>6. \A k \in Rc!Managed(lines) : OurLine(lines[k])
  BY DEF Rc!OursIsOurs, OurLine
<1> HIDE DEF run, scan
<1>7. 1 \in S
  <2>1. Synced(Rc!Unread, Rc!Started(path)) /\ Rc!Unread.local = Rc!Started(path).b
    BY DEF Synced, Rc!Unread, Rc!Started, Scans
  <2> QED BY <1>1, <1>2, <1>3, <2>1
<1>8. ASSUME NEW k \in 1 .. Len(lines), k \in S PROVE k + 1 \in S
  <2>1. /\ lines[k] \in Rc!Lines /\ run[k] \in FileShells /\ ~run[k].bad /\ Synced(scan[k], run[k])
        /\ k + 1 \in 1 .. Len(lines) + 1 /\ ~run[k + 1].bad
        /\ run[k + 1] = Rc!After(run[k], lines[k], k, truths)
        /\ scan[k + 1] = Rc!Scanned(scan[k], lines[k], k \in Rc!Managed(lines))
    BY <1>1, <1>2, <1>3, <1>4, <1>8
  <2>2. Synced(scan[k + 1], run[k + 1])
    <3> DEFINE managed == k \in Rc!Managed(lines)
    <3>1. managed \in BOOLEAN /\ (managed => OurLine(lines[k])) /\
            scan[k + 1] = Rc!Scanned(scan[k], lines[k], managed)
      BY <1>6, <2>1
    <3> HIDE DEF managed
    <3> QED BY <2>1, <3>1, StepSynced
  <2>3. ~Rc!Stale(lines) => scan[k + 1].local = run[k + 1].b
    <3> DEFINE managed == k \in Rc!Managed(lines)
    <3>1. managed \in BOOLEAN /\ (managed => OurLine(lines[k])) /\
            scan[k + 1] = Rc!Scanned(scan[k], lines[k], managed)
      BY <1>6, <2>1
    <3>2. ~Rc!Stale(lines) => Settled(scan[k], lines[k]) /\ scan[k].local = run[k].b
      BY <1>5, <1>8
    <3> HIDE DEF managed
    <3> QED BY <2>1, <3>1, <3>2, StepTold
  <2> QED BY <2>1, <2>2, <2>3
<1>9. 1 .. Len(lines) + 1 \subseteq S
  <2> HIDE DEF S
  <2> QED BY <1>1, <1>7, <1>8, Induction
<1> QED BY <1>9 DEF run, scan

-----------------------------------------------------------------------------
\* A line the scan reads that writes PATH for good.
Written(lines, i) ==
  /\ i \in 1 .. Len(lines) /\ lines[i].head = "write" /\ lines[i].form \notin {"prefix", "case"}
  /\ i \notin Rc!Managed(lines) /\ ~Rc!Scan(lines)[i].heredoc

Unresolved(l, s) == \E x \in Rc!Range(l.value) : x # "PATH" /\ ~Rc!Known(x, s.local)

\* The records, and those the report, the cleanup and the guard choose, line by line.
LEMMA RecordsWritten ==
  ASSUME NEW lines \in Seq(Rc!Lines)
  PROVE  Rc!Records(lines) =
           {[index |-> i, value |-> lines[i].value, targets |-> Rc!Targets(lines[i], Rc!Scan(lines)[i]),
             simple |-> lines[i].form = "plain", indented |-> lines[i].indent,
             guarded |-> Rc!PresenceGuarded(Rc!Scan(lines)[i], lines[i]),
               block |-> Rc!Scan(lines)[i].stack # <<>>,
             unresolved |-> Unresolved(lines[i],
               Rc!Scan(lines)[i])] : i \in {i \in DOMAIN lines : Written(lines, i)}}
<1>1. {i \in DOMAIN lines : Written(lines, i)} =
        {i \in DOMAIN lines : /\ lines[i].head = "write" /\ lines[i].form \notin {"prefix", "case"}
                              /\ i \notin Rc!Managed(lines) /\ ~Rc!Scan(lines)[i].heredoc}
  BY DEF Written
<1> QED BY <1>1, Zenon DEF Rc!Records, Unresolved

LEMMA RecordOf ==
  ASSUME NEW lines \in Seq(Rc!Lines), NEW r \in Rc!Records(lines)
  PROVE  /\ Written(lines, r.index) /\ lines[r.index] \in Rc!Lines
         /\ r.value = lines[r.index].value /\ r.targets = Rc!Targets(lines[r.index], Rc!Scan(lines)[r.index])
         /\ r.simple = (lines[r.index].form = "plain") /\ r.indented = lines[r.index].indent
         /\ r.guarded = Rc!PresenceGuarded(Rc!Scan(lines)[r.index], lines[r.index])
         /\ r.block = (Rc!Scan(lines)[r.index].stack # <<>>)
         /\ r.unresolved = Unresolved(lines[r.index], Rc!Scan(lines)[r.index])
<1>1. PICK i \in {i \in DOMAIN lines : Written(lines, i)} :
        r = [index |-> i, value |-> lines[i].value, targets |-> Rc!Targets(lines[i], Rc!Scan(lines)[i]),
             simple |-> lines[i].form = "plain", indented |-> lines[i].indent,
             guarded |-> Rc!PresenceGuarded(Rc!Scan(lines)[i], lines[i]),
               block |-> Rc!Scan(lines)[i].stack # <<>>,
             unresolved |-> Unresolved(lines[i], Rc!Scan(lines)[i])]
  BY RecordsWritten
<1>2. Written(lines, i) /\ lines[i] \in Rc!Lines
  OBVIOUS
<1>3. /\ r.index = i /\ r.value = lines[i].value /\ r.targets = Rc!Targets(lines[i], Rc!Scan(lines)[i])
      /\ r.simple = (lines[i].form = "plain") /\ r.indented = lines[i].indent
      /\ r.guarded = Rc!PresenceGuarded(Rc!Scan(lines)[i], lines[i]) /\
           r.block = (Rc!Scan(lines)[i].stack # <<>>)
      /\ r.unresolved = Unresolved(lines[i], Rc!Scan(lines)[i])
  BY <1>1
<1> QED BY <1>2, <1>3

LEMMA RecordAt ==
  ASSUME NEW lines \in Seq(Rc!Lines), NEW i, Written(lines, i)
  PROVE  \E r \in Rc!Records(lines) :
         /\ r.index = i /\ r.value = lines[i].value /\ r.targets = Rc!Targets(lines[i], Rc!Scan(lines)[i])
         /\ r.simple = (lines[i].form = "plain") /\ r.indented = lines[i].indent
         /\ r.guarded = Rc!PresenceGuarded(Rc!Scan(lines)[i], lines[i]) /\
              r.block = (Rc!Scan(lines)[i].stack # <<>>)
         /\ r.unresolved = Unresolved(lines[i], Rc!Scan(lines)[i])
<1> DEFINE r == [index |-> i, value |-> lines[i].value, targets |-> Rc!Targets(lines[i], Rc!Scan(lines)[i]),
                 simple |-> lines[i].form = "plain", indented |-> lines[i].indent,
                 guarded |-> Rc!PresenceGuarded(Rc!Scan(lines)[i], lines[i]),
                   block |-> Rc!Scan(lines)[i].stack # <<>>,
                 unresolved |-> Unresolved(lines[i], Rc!Scan(lines)[i])]
<1>1. i \in {k \in DOMAIN lines : Written(lines, k)}
  BY DEF Written
<1>2. r \in Rc!Records(lines)
  BY <1>1, RecordsWritten, Zenon
<1>3. /\ r.index = i /\ r.value = lines[i].value /\ r.targets = Rc!Targets(lines[i], Rc!Scan(lines)[i])
      /\ r.simple = (lines[i].form = "plain") /\ r.indented = lines[i].indent
      /\ r.guarded = Rc!PresenceGuarded(Rc!Scan(lines)[i], lines[i]) /\
           r.block = (Rc!Scan(lines)[i].stack # <<>>)
      /\ r.unresolved = Unresolved(lines[i], Rc!Scan(lines)[i])
  OBVIOUS
<1> HIDE DEF r
<1> QED BY <1>2, <1>3

LEMMA WriterLines ==
  ASSUME NEW lines \in Seq(Rc!Lines), NEW i
  PROVE  i \in Rc!Indices(Rc!Writers(lines)) <=>
           /\ Written(lines, i) /\ ~Rc!PresenceGuarded(Rc!Scan(lines)[i], lines[i])
           /\ "m" \in Rc!Targets(lines[i], Rc!Scan(lines)[i])
<1>1. ASSUME i \in Rc!Indices(Rc!Writers(lines))
      PROVE  /\ Written(lines, i) /\ ~Rc!PresenceGuarded(Rc!Scan(lines)[i], lines[i])
             /\ "m" \in Rc!Targets(lines[i], Rc!Scan(lines)[i])
  <2>1. PICK r \in Rc!Records(lines) : r.index = i /\ ~r.guarded /\ "m" \in r.targets
    BY <1>1 DEF Rc!Indices, Rc!Writers
  <2> QED BY <2>1, RecordOf
<1>2. ASSUME Written(lines, i), ~Rc!PresenceGuarded(Rc!Scan(lines)[i], lines[i]),
               "m" \in Rc!Targets(lines[i], Rc!Scan(lines)[i])
      PROVE  i \in Rc!Indices(Rc!Writers(lines))
  <2>1. PICK r \in Rc!Records(lines) :
          /\ r.index = i /\ r.targets = Rc!Targets(lines[i], Rc!Scan(lines)[i])
          /\ r.guarded = Rc!PresenceGuarded(Rc!Scan(lines)[i], lines[i])
    BY <1>2, RecordAt
  <2> QED BY <1>2, <2>1 DEF Rc!Indices, Rc!Writers
<1> QED BY <1>1, <1>2

LEMMA DuplicateLine ==
  ASSUME NEW lines \in Seq(Rc!Lines), NEW i \in Rc!Indices(Rc!Duplicates(lines))
  PROVE  /\ Written(lines, i) /\ lines[i] \in Rc!Lines /\ lines[i].form = "plain"
         /\ ~Rc!EmptiesBlock(lines) => Rc!Scan(lines)[i].stack = <<>>
         /\ ~Rc!MoreGoes(lines) => /\ ~Unresolved(lines[i], Rc!Scan(lines)[i])
                                /\ Rc!Targets(lines[i], Rc!Scan(lines)[i]) = {"m"}
<1>1. PICK r \in Rc!Duplicates(lines) : r.index = i
  BY DEF Rc!Indices
<1>2. r \in Rc!Records(lines) /\ r.simple
  BY DEF Rc!Duplicates
<1>3. /\ Written(lines, i) /\ lines[i] \in Rc!Lines
      /\ r.targets = Rc!Targets(lines[i], Rc!Scan(lines)[i])
      /\ r.simple = (lines[i].form = "plain")
      /\ r.block = (Rc!Scan(lines)[i].stack # <<>>)
      /\ r.unresolved = Unresolved(lines[i], Rc!Scan(lines)[i])
  BY <1>1, <1>2, RecordOf
<1> QED BY <1>2, <1>3 DEF Rc!EmptiesBlock, Rc!MoreGoes

LEMMA GuardableLine ==
  ASSUME NEW lines \in Seq(Rc!Lines), NEW i \in Rc!Indices(Rc!Guardable(lines))
  PROVE  /\ Written(lines, i) /\ lines[i] \in Rc!Lines /\ lines[i].form = "plain"
         /\ Rc!Range(lines[i].value) = {lines[i].value[1], "PATH"} /\ lines[i].value[1] # "PATH"
         /\ Rc!Expand(lines[i].value[1], Rc!Scan(lines)[i].local) = "m"
<1>1. PICK r \in Rc!Guardable(lines) : r.index = i
  BY DEF Rc!Indices
<1>2. r \in Rc!Records(lines) /\ "m" \in r.targets /\ r.simple /\ Len(r.value) = 2 /\
        r.value[1] # "PATH" /\ r.value[2] = "PATH"
  BY <1>1 DEF Rc!Guardable, Rc!Writers
<1> DEFINE l == lines[i]
           s == Rc!Scan(lines)[i]
<1>3. /\ Written(lines, i) /\ l \in Rc!Lines
      /\ r.value = l.value /\ r.targets = Rc!Targets(l, s) /\ r.simple = (l.form = "plain")
  BY <1>1, <1>2, RecordOf
<1> HIDE DEF l, s
<1>4. l.value \in Seq(Rc!Names)
  BY <1>3 DEF Rc!Lines
<1>5. Rc!Range(l.value) = {l.value[1], "PATH"}
  BY <1>2, <1>3, <1>4 DEF Rc!Range
<1>6. l.form = "plain"
  BY <1>2, <1>3
<1>7. "m" \in {Rc!Expand(x, s.local) : x \in {x \in Rc!Range(l.value) : x # "PATH" /\ Rc!Known(x, s.local)}}
  BY <1>2, <1>3, <1>6 DEF Rc!Targets
<1>8. Rc!Expand(l.value[1], s.local) = "m"
  BY <1>5, <1>7
<1> QED BY <1>2, <1>3, <1>5, <1>6, <1>8 DEF l, s

\* What the guard puts in the place of a line.
Guarding(l) == Rc!Write(<<"m", "PATH">>, "case", TRUE, l.indent)

LEMMA GuardingLine ==
  ASSUME NEW l \in Rc!Lines
  PROVE  /\ Guarding(l) \in Rc!Lines /\ Guarding(l).head = "write" /\ Guarding(l).form = "case" /\
              Guarding(l).tests
         /\ Rc!Range(Guarding(l).value) = {"m", "PATH"}
<1> DEFINE g == Guarding(l)
<1>1. g = [head |-> "write", tests |-> TRUE, value |-> <<"m", "PATH">>, form |-> "case", indent |-> l.indent]
  BY DEF Guarding, Rc!Write
<1>2. <<"m", "PATH">> \in Seq(Rc!Names) /\ Rc!Range(<<"m", "PATH">>) = {"m", "PATH"}
  BY DEF Rc!Names, Rc!Range
<1>3. l.indent \in BOOLEAN
  BY DEF Rc!Lines
<1>4. "write" \in Rc!Heads /\ "case" \in Rc!Forms
  BY DEF Rc!Heads, Rc!Commands, Rc!Forms
<1> DEFINE value == <<"m", "PATH">>
<1>5. g.head = "write" /\ g.tests = TRUE /\ g.value = value /\ g.form = "case" /\ g.indent = l.indent
  BY <1>1
<1>6. g \in [head : Rc!Heads, tests : BOOLEAN, value : Seq(Rc!Names), form : Rc!Forms, indent : BOOLEAN]
  <2> HIDE DEF value
  <2>1. g = [head |-> "write", tests |-> TRUE, value |-> value, form |-> "case", indent |-> l.indent]
    BY <1>1 DEF value
  <2>2. value \in Seq(Rc!Names)
    BY <1>2 DEF value
  <2> HIDE DEF g
  <2> QED BY <1>3, <1>4, <2>1, <2>2
<1> HIDE DEF g
<1>7. g \in Rc!Lines
  BY <1>5, <1>6 DEF Rc!Lines
<1> QED BY <1>2, <1>5, <1>7 DEF g

LEMMA GuardedLines ==
  ASSUME NEW lines \in Seq(Rc!Lines)
  PROVE  /\ Rc!GuardWriters(lines) \in Seq(Rc!Lines) /\ Len(Rc!GuardWriters(lines)) = Len(lines)
         /\ \A k \in 1 .. Len(lines) :
              /\ Rc!GuardWriters(lines)[k] =
                   IF k \in Rc!Indices(Rc!Guardable(lines)) THEN Guarding(lines[k]) ELSE lines[k]
              /\ Rc!GuardWriters(lines)[k].head = lines[k].head
<1> DEFINE guarded == Rc!GuardWriters(lines)
           G == Rc!Indices(Rc!Guardable(lines))
<1> HIDE DEF G
<1>1. Len(lines) \in Nat /\ DOMAIN lines = 1 .. Len(lines) /\ \A k \in 1 .. Len(lines) : lines[k] \in Rc!Lines
  OBVIOUS
<1>2. guarded = [k \in 1 .. Len(lines) |-> IF k \in G THEN Guarding(lines[k]) ELSE lines[k]]
  BY <1>1 DEF Rc!GuardWriters, Guarding, G
<1> HIDE DEF guarded
<1>3. ASSUME NEW k \in 1 .. Len(lines)
      PROVE  /\ guarded[k] = IF k \in G THEN Guarding(lines[k]) ELSE lines[k]
             /\ guarded[k] \in Rc!Lines /\ guarded[k].head = lines[k].head
  <2>1. k \in G => lines[k].head = "write"
    BY GuardableLine DEF G, Written
  <2> QED BY <1>1, <1>2, <2>1, GuardingLine
<1>4. guarded \in [1 .. Len(lines) -> Rc!Lines]
  BY <1>2, <1>3
<1>5. guarded \in Seq(Rc!Lines) /\ Len(guarded) = Len(lines)
  BY <1>1, <1>4, IsASeq
<1> QED BY <1>3, <1>5 DEF guarded, G

\* Two shells that differ in nothing but the lines that have added a directory again.
Same(s, t) == s.stack = t.stack /\ s.path = t.path /\ s.b = t.b /\ s.heredoc = t.heredoc /\ s.bad = t.bad

LEMMA StepSame ==
  ASSUME NEW s \in FileShells, NEW t \in FileShells, Same(s, t), NEW l \in Rc!Lines, NEW i, NEW truths
  PROVE  Same(Rc!After(s, l, i, truths), Rc!After(t, l, i, truths))
<1> DEFINE p == Rc!After(s, l, i, truths)
           q == Rc!After(t, l, i, truths)
<1>0. p = Rc!After(s, l, i, truths) /\ q = Rc!After(t, l, i, truths)
  OBVIOUS
<1> HIDE DEF p, q
<1>g. SUFFICES Same(p, q)
  BY DEF p, q
<1>1. s.stack = t.stack /\ s.path = t.path /\ s.b = t.b /\ s.heredoc = t.heredoc /\ s.bad = t.bad
  BY DEF Same
<1>a. Rc!Outer(s) = Rc!Outer(t) /\ Rc!Top(s) = Rc!Top(t)
  BY <1>1 DEF Rc!Outer, Rc!Top
<1>2. CASE s.bad
  <2>1. t.bad
    BY <1>1, <1>2
  <2>2. p = s /\ q = t
    BY <1>0, <1>2, <2>1, BadEffect
  <2> QED BY <2>2
<1>3. CASE ~s.bad /\ s.heredoc
  <2>1. ~t.bad /\ t.heredoc
    BY <1>1, <1>3
  <2>2. Skipping(s, l, p)
    BY <1>0, <1>3, HeredocEffect
  <2>3. Skipping(t, l, q)
    BY <1>0, <2>1, HeredocEffect
  <2> QED BY <1>1, <2>2, <2>3 DEF Skipping, Same
<1>4. CASE ~s.bad /\ ~s.heredoc
  <2>1. ~t.bad /\ ~t.heredoc
    BY <1>1, <1>4
  <2>2. CASE l.head \in Rc!OPENERS
    <3> DEFINE holds == l.head = "for" \/ Rc!Holds(l, i, s.path, truths)
               stack == Append(s.stack, [closer |-> Rc!CloserOf[l.head], on |-> holds, ran |-> holds,
                                         empty |-> l.head # "case", else |-> FALSE])
    <3>1. p = [s EXCEPT !.stack = stack]
      BY <1>0, <1>4, <2>2, AfterCases DEF Rc!Opened
    <3>2. q = [t EXCEPT !.stack = stack]
      BY <1>0, <1>1, <2>1, <2>2, AfterCases DEF Rc!Opened
    <3> HIDE DEF stack
    <3> QED BY <1>1, <3>1, <3>2 DEF Same, FileShells
  <2>3. CASE l.head \in Rc!CLOSERS
    <3>1. p = Rc!Close(s, l.head) /\ q = Rc!Close(t, l.head)
      BY <1>0, <1>4, <2>1, <2>3, AfterCases
    <3> QED BY <1>1, <1>a, <3>1 DEF Rc!Close, Same, FileShells
  <2>4. CASE l.head \in {"elif", "else"}
    <3> DEFINE holds == l.head = "else" \/ (l.head = "for" \/ Rc!Holds(l, i, s.path, truths))
               stack == Append(Rc!Outer(s), [closer |-> "fi", on |-> holds /\ ~Rc!Top(s).ran,
                                          ran |-> holds \/ Rc!Top(s).ran, empty |-> TRUE,
                                            else |-> l.head = "else"])
               wrong == s.stack = <<>> \/ Rc!Top(s).closer # "fi" \/ Rc!Top(s).empty \/ Rc!Top(s).else
    <3>1. p = IF wrong THEN [s EXCEPT !.bad = TRUE] ELSE [s EXCEPT !.stack = stack]
      BY <1>0, <1>4, <2>4, AfterCases DEF Rc!Branch
    <3>2. q = IF wrong THEN [t EXCEPT !.bad = TRUE] ELSE [t EXCEPT !.stack = stack]
      BY <1>0, <1>1, <1>a, <2>1, <2>4, AfterCases DEF Rc!Branch
    <3> HIDE DEF stack, wrong
    <3> QED BY <1>1, <3>1, <3>2 DEF Same, FileShells
  <2>5. CASE l.head \in Rc!Commands
    <3>1. Commanding(s, l, i, truths, p, Len(s.stack))
      BY <1>0, <1>4, <2>5, CommandEffect
    <3>2. Commanding(t, l, i, truths, q, Len(t.stack))
      BY <1>0, <2>1, <2>5, CommandEffect
    <3>3. Does(s, l, i, truths) = Does(t, l, i, truths) /\ Writes(s, l, i, truths) = Writes(t, l, i, truths)
      BY <1>1 DEF Does, Writes, Rc!Running
    <3>4. Rc!Assigned(l.value, s) = Rc!Assigned(l.value, t)
      BY <1>1 DEF Rc!Assigned
    <3> QED BY <1>1, <3>1, <3>2, <3>3, <3>4 DEF Commanding, Same
  <2>6. CASE l.head \in Rc!Comments
    <3>1. p = s /\ q = t
      BY <1>0, <1>4, <2>1, <2>6, CommentEffect
    <3> QED BY <3>1
  <2> QED BY <2>2, <2>3, <2>4, <2>5, <2>6, HeadOfLine
<1> QED BY <1>2, <1>3, <1>4

-----------------------------------------------------------------------------
\* The line is reached, runs, and adds a managed directory to a PATH that has it.
Again(s, l, i, truths) ==
  /\ ~s.bad /\ ~s.heredoc /\ Writes(s, l, i, truths)
  /\ "PATH" \in Rc!Range(l.value) /\ "m" \in s.path \cap Rc!Added(l.value, s.b)

\* What any line makes of PATH, and of the lines that have added a directory again.
Remembered(s, l, i, truths, t) ==
  /\ t.path = IF ~s.bad /\ ~s.heredoc /\ Writes(s, l, i, truths) THEN Rc!Assigned(l.value, s) ELSE s.path
  /\ t.again = IF Again(s, l, i, truths) THEN s.again \cup {i} ELSE s.again

LEMMA SideEffect ==
  ASSUME NEW s \in FileShells, NEW l \in Rc!Lines, NEW i, NEW truths
  PROVE  Remembered(s, l, i, truths, Rc!After(s, l, i, truths))
<1> DEFINE t == Rc!After(s, l, i, truths)
           n == Len(s.stack)
<1>0. t = Rc!After(s, l, i, truths) /\ n = Len(s.stack)
  OBVIOUS
<1> HIDE DEF t, n
<1>g. SUFFICES Remembered(s, l, i, truths, t)
  BY DEF t
<1>1. CASE s.bad
  <2>1. t = s
    BY <1>0, <1>1, BadEffect
  <2> QED BY <1>1, <2>1 DEF Again, Remembered
<1>2. CASE ~s.bad /\ s.heredoc
  <2>1. Skipping(s, l, t)
    BY <1>0, <1>2, HeredocEffect
  <2> QED BY <1>2, <2>1 DEF Again, Skipping, Remembered
<1>3. CASE ~s.bad /\ ~s.heredoc
  <2>1. CASE l.head \notin Rc!Commands
    <3>1. ~Writes(s, l, i, truths)
      BY <2>1 DEF Writes, Rc!Commands
    <3>2. t.path = s.path /\ t.again = s.again
      <4>1. CASE l.head \in Rc!OPENERS
        <5>1. Opening(s, l, i, truths, t, n)
          BY <1>0, <1>3, <4>1, OpenEffect
        <5> QED BY <5>1 DEF Opening
      <4>2. CASE l.head \in Rc!CLOSERS
        <5>1. Closing(s, l, t, n)
          BY <1>0, <1>3, <4>2, CloseEffect
        <5> QED BY <5>1 DEF Closing
      <4>3. CASE l.head \in {"elif", "else"}
        <5>1. Branching(s, l, i, truths, t, n)
          BY <1>0, <1>3, <4>3, BranchEffect
        <5> QED BY <5>1 DEF Branching
      <4>4. CASE l.head \in Rc!Comments
        BY <1>0, <1>3, <4>4, CommentEffect
      <4> QED BY <2>1, <4>1, <4>2, <4>3, <4>4, HeadOfLine
    <3> QED BY <3>1, <3>2 DEF Again, Remembered
  <2>2. CASE l.head \in Rc!Commands
    <3>1. Commanding(s, l, i, truths, t, n)
      BY <1>0, <1>3, <2>2, CommandEffect
    <3> QED BY <1>3, <3>1 DEF Commanding, Again, Remembered
  <2> QED BY <2>1, <2>2
<1> QED BY <1>1, <1>2, <1>3

\* The lines that have added it again are those that did when they were reached.
LEMMA AgainAt ==
  ASSUME NEW lines \in Seq(Rc!Lines), NEW path \in SUBSET Dirs, NEW truths, NEW i \in 1 .. Len(lines) + 1
  PROVE  Rc!Sourcing(lines, path, truths)[i].again =
           {k \in 1 .. i - 1 : Again(Rc!Sourcing(lines, path, truths)[k], lines[k], k, truths)}
<1> DEFINE run == Rc!Sourcing(lines, path, truths)
           These(j) == {k \in 1 .. j - 1 : Again(run[k], lines[k], k, truths)}
           S == {k \in 1 .. Len(lines) + 1 : run[k].again = These(k)}
<1>1. Len(lines) \in Nat /\ \A k \in 1 .. Len(lines) : lines[k] \in Rc!Lines
  OBVIOUS
<1>2. run[1] = Rc!Started(path) /\ \A k \in 1 .. Len(lines) : run[k + 1] = Rc!After(run[k], lines[k], k, truths)
  BY <1>1, SourcingSteps
<1>3. \A k \in 1 .. Len(lines) + 1 : run[k] \in FileShells
  BY RunType
<1> HIDE DEF run
<1>4. 1 \in S
  <2>1. run[1].again = {} /\ These(1) = {}
    BY <1>2 DEF Rc!Started
  <2> QED BY <1>1, <2>1
<1>5. ASSUME NEW k \in 1 .. Len(lines), k \in S PROVE k + 1 \in S
  <2>1. k \in Nat /\ k + 1 \in 1 .. Len(lines) + 1 /\ lines[k] \in Rc!Lines /\ run[k] \in FileShells /\
          run[k].again = These(k)
    BY <1>1, <1>3, <1>5
  <2>2. run[k + 1].again = IF Again(run[k], lines[k], k, truths) THEN run[k].again \cup {k} ELSE run[k].again
    <3>1. Rc!After(run[k], lines[k], k, truths).again
            = IF Again(run[k], lines[k], k, truths) THEN run[k].again \cup {k} ELSE run[k].again
      <4>1. Remembered(run[k], lines[k], k, truths, Rc!After(run[k], lines[k], k, truths))
        BY <2>1, SideEffect
      <4> QED BY <4>1 DEF Remembered
    <3> QED BY <1>2, <3>1
  <2>3. These(k + 1) = IF Again(run[k], lines[k], k, truths) THEN These(k) \cup {k} ELSE These(k)
    <3>1. \A j : j \in 1 .. (k + 1) - 1 <=> j \in 1 .. k - 1 \/ j = k
      BY <2>1
    <3> QED BY <3>1
  <2> QED
    <3> HIDE DEF These
    <3> QED BY <2>1, <2>2, <2>3
<1>6. 1 .. Len(lines) + 1 \subseteq S
  <2> HIDE DEF S
  <2> QED BY <1>1, <1>4, <1>5, Induction
<1> QED BY <1>6 DEF run

\* A file the shell reads is read whatever it is started with.
LEMMA ParsesAnyhow ==
  ASSUME NEW lines \in Seq(Rc!Lines), Rc!Parses(lines), NEW path \in SUBSET Dirs, NEW truths
  PROVE  /\ ~Rc!Sourcing(lines, path, truths)[Len(lines) + 1].bad
         /\ Len(Rc!Sourcing(lines, path, truths)[Len(lines) + 1].stack) = 0
         /\ ~Rc!Sourcing(lines, path, truths)[Len(lines) + 1].heredoc
<1> DEFINE n == Len(lines) + 1
           end == Rc!Sourcing(lines, Rc!Nested, {})[n]
           other == Rc!Sourcing(lines, path, truths)[n]
<1>1. Rc!Nested \in SUBSET Dirs /\ n \in 1 .. Len(lines) + 1
  BY DEF Rc!Nested, Dirs, Rc!Names
<1>2. Alike(end, other) /\ end \in FileShells /\ other \in FileShells
  BY <1>1, RunsAlike, RunType
<1>3. Rc!Sourced(lines, Rc!Nested, {}) = [end EXCEPT !.bad = @ \/ end.stack # <<>> \/ end.heredoc]
  BY DEF Rc!Sourced
<1> HIDE DEF end, other, n
<1>4. ~end.bad /\ end.stack = <<>> /\ ~end.heredoc
  BY <1>2, <1>3 DEF Rc!Parses, FileShells
<1>5. ~other.bad /\ Len(other.stack) = 0 /\ ~other.heredoc
  BY <1>2, <1>4 DEF Alike
<1> QED BY <1>5 DEF other, n

LEMMA ParsesAsWell ==
  ASSUME NEW lines \in Seq(Rc!Lines), Rc!Parses(lines), NEW other \in Seq(Rc!Lines),
         Alike(Rc!Sourcing(lines, Rc!Nested, {})[Len(lines) + 1],
           Rc!Sourcing(other, Rc!Nested, {})[Len(other) + 1])
  PROVE  Rc!Parses(other)
<1> DEFINE end == Rc!Sourcing(lines, Rc!Nested, {})[Len(lines) + 1]
           last == Rc!Sourcing(other, Rc!Nested, {})[Len(other) + 1]
<1>1. Rc!Nested \in SUBSET Dirs /\ Len(other) + 1 \in 1 .. Len(other) + 1
  BY DEF Rc!Nested, Dirs, Rc!Names
<1>2. last \in FileShells
  BY <1>1, RunType
<1>3. ~end.bad /\ Len(end.stack) = 0 /\ ~end.heredoc
  BY <1>1, ParsesAnyhow
<1>4. Rc!Sourced(other, Rc!Nested, {}) = [last EXCEPT !.bad = @ \/ last.stack # <<>> \/ last.heredoc]
  BY DEF Rc!Sourced
<1>5. Alike(end, last)
  OBVIOUS
<1> HIDE DEF end, last
<1>6. ~last.bad /\ last.stack = <<>> /\ ~last.heredoc
  BY <1>2, <1>3, <1>5 DEF Alike, FileShells
<1> QED BY <1>2, <1>4, <1>6 DEF Rc!Parses, FileShells

\* What a line that can be guarded and the guard of it do, where the directory on PATH is told.
LEMMA StepGuarded ==
  ASSUME NEW s \in FileShells, NEW t \in FileShells, Same(s, t), NEW l \in Rc!Lines, l.head = "write",
           l.form = "plain",
         Rc!Range(l.value) = {l.value[1], "PATH"}, l.value[1] # "PATH", Rc!Expand(l.value[1], s.b) = "m",
         NEW i, NEW truths
  PROVE  Same(Rc!After(s, l, i, truths), Rc!After(t, Guarding(l), i, truths))
<1> DEFINE p == Rc!After(s, l, i, truths)
           g == Guarding(l)
           q == Rc!After(t, g, i, truths)
<1>0. p = Rc!After(s, l, i, truths) /\ q = Rc!After(t, g, i, truths)
  OBVIOUS
<1>1. s.stack = t.stack /\ s.path = t.path /\ s.b = t.b /\ s.heredoc = t.heredoc /\ s.bad = t.bad
  BY DEF Same
<1>2. g \in Rc!Lines /\ g.head = "write" /\ g.form = "case" /\ g.tests /\ Rc!Range(g.value) = {"m", "PATH"}
  BY GuardingLine
<1> HIDE DEF p, q, g
<1>g. SUFFICES Same(p, q)
  BY DEF p, q, g
<1>3. CASE s.bad
  <2>1. p = s /\ q = t
    BY <1>0, <1>1, <1>3, BadEffect
  <2> QED BY <2>1
<1>4. CASE ~s.bad /\ s.heredoc
  <2>1. ~t.bad /\ t.heredoc
    BY <1>1, <1>4
  <2>2. Skipping(s, l, p)
    BY <1>0, <1>4, HeredocEffect
  <2>3. Skipping(t, g, q)
    BY <1>0, <2>1, HeredocEffect
  <2> QED BY <1>1, <1>2, <2>2, <2>3 DEF Skipping, Same
<1>5. CASE ~s.bad /\ ~s.heredoc
  <2>1. ~t.bad /\ ~t.heredoc /\ "write" \in Rc!Commands
    BY <1>1, <1>5 DEF Rc!Commands
  <2>2. Commanding(s, l, i, truths, p, Len(s.stack))
    BY <1>0, <1>5, <2>1, CommandEffect
  <2>3. Commanding(t, g, i, truths, q, Len(t.stack))
    BY <1>0, <1>2, <2>1, CommandEffect
  <2>4. p.stack = q.stack /\ p.bad = q.bad /\ p.heredoc = q.heredoc /\ p.b = q.b
    <3>1. p.stack = Rc!WithBody(s.stack) /\ p.bad = FALSE /\ p.heredoc = FALSE /\ p.b = s.b
      BY <2>2 DEF Commanding
    <3>2. q.stack = Rc!WithBody(t.stack) /\ q.bad = FALSE /\ q.heredoc = FALSE /\ q.b = t.b
      BY <1>2, <2>3 DEF Commanding
    <3> QED BY <1>1, <3>1, <3>2
  <2>5. Writes(s, l, i, truths) <=> Rc!Running(s)
    BY DEF Writes, Does
  <2>6. Writes(t, g, i, truths) <=> Rc!Running(s) /\ "m" \notin s.path
    <3>1. Rc!Running(t) <=> Rc!Running(s)
      BY <1>1 DEF Rc!Running
    <3>2. Rc!Holds(g, i, t.path, truths) <=> "m" \notin s.path
      BY <1>1, <1>2 DEF Rc!Holds
    <3> QED BY <1>2, <3>1, <3>2 DEF Writes, Does
  <2>7. Rc!Assigned(l.value, s) = {"m"} \cup s.path
    BY DEF Rc!Assigned, Rc!Added, Rc!Expand
  <2>8. Rc!Assigned(g.value, t) = {"m"} \cup s.path
    BY <1>1, <1>2 DEF Rc!Assigned, Rc!Added
  <2>9. p.path = q.path
    <3>1. p.path = IF Writes(s, l, i, truths) THEN Rc!Assigned(l.value, s) ELSE s.path
      BY <2>2 DEF Commanding
    <3>2. q.path = IF Writes(t, g, i, truths) THEN Rc!Assigned(g.value, t) ELSE t.path
      BY <2>3 DEF Commanding
    <3> QED BY <1>1, <2>5, <2>6, <2>7, <2>8, <3>1, <3>2
  <2> QED BY <2>4, <2>9 DEF Same
<1> QED BY <1>3, <1>4, <1>5

LEMMA RunGuarded ==
  ASSUME NEW lines \in Seq(Rc!Lines), Rc!Parses(lines), Rc!OursIsOurs(lines), ~Rc!Stale(lines),
         NEW path \in SUBSET Dirs, NEW truths, NEW i \in 1 .. Len(lines) + 1
  PROVE  Same(Rc!Sourcing(lines, path, truths)[i], Rc!Sourcing(Rc!GuardWriters(lines), path, truths)[i])
<1> DEFINE guarded == Rc!GuardWriters(lines)
           run == Rc!Sourcing(lines, path, truths)
           run2 == Rc!Sourcing(guarded, path, truths)
           scan == Rc!Scan(lines)
           S == {k \in 1 .. Len(lines) + 1 : Same(run[k], run2[k])}
<1>1. Len(lines) \in Nat /\ \A k \in 1 .. Len(lines) : lines[k] \in Rc!Lines
  OBVIOUS
<1>2. guarded \in Seq(Rc!Lines) /\ Len(guarded) = Len(lines) /\ \A k \in 1 .. Len(lines) :
         guarded[k] = IF k \in Rc!Indices(Rc!Guardable(lines)) THEN Guarding(lines[k]) ELSE lines[k]
  BY GuardedLines
<1> HIDE DEF guarded
<1>3. run[1] = Rc!Started(path) /\ \A k \in 1 .. Len(lines) : run[k + 1] = Rc!After(run[k], lines[k], k, truths)
  BY <1>1, SourcingSteps
<1>4. run2[1] = Rc!Started(path) /\ \A k \in 1 .. Len(lines) : run2[k + 1] =
        Rc!After(run2[k], guarded[k], k, truths)
  <2>1. Len(guarded) \in Nat
    BY <1>1, <1>2
  <2> QED BY <1>2, <2>1, SourcingSteps
<1>5. \A k \in 1 .. Len(lines) + 1 : run[k] \in FileShells /\ run2[k] \in FileShells
  BY <1>2, RunType
<1>6. \A k \in 1 .. Len(lines) + 1 : scan[k].local = run[k].b
  BY ParsesAnyhow, RunSynced
<1> HIDE DEF run, run2, scan
<1>7. 1 \in S
  BY <1>1, <1>3, <1>4 DEF Same
<1>8. ASSUME NEW k \in 1 .. Len(lines), k \in S PROVE k + 1 \in S
  <2>1. /\ lines[k] \in Rc!Lines /\ run[k] \in FileShells /\ run2[k] \in FileShells /\ Same(run[k], run2[k])
        /\ k + 1 \in 1 .. Len(lines) + 1 /\ k \in 1 .. Len(lines) + 1
    BY <1>1, <1>5, <1>8
  <2>2. CASE k \in Rc!Indices(Rc!Guardable(lines))
    <3>1. /\ lines[k].head = "write" /\ lines[k].form = "plain"
          /\ Rc!Range(lines[k].value) = {lines[k].value[1], "PATH"} /\ lines[k].value[1] # "PATH"
          /\ Rc!Expand(lines[k].value[1], scan[k].local) = "m"
      BY <2>2, GuardableLine DEF Written, scan
    <3>2. Rc!Expand(lines[k].value[1], run[k].b) = "m"
      BY <1>6, <2>1, <3>1
    <3>3. Same(Rc!After(run[k], lines[k], k, truths), Rc!After(run2[k], Guarding(lines[k]), k, truths))
      BY <2>1, <3>1, <3>2, StepGuarded
    <3> QED BY <1>2, <1>3, <1>4, <2>1, <2>2, <3>3
  <2>3. CASE k \notin Rc!Indices(Rc!Guardable(lines))
    <3>1. Same(Rc!After(run[k], lines[k], k, truths), Rc!After(run2[k], lines[k], k, truths))
      BY <2>1, StepSame
    <3> QED BY <1>2, <1>3, <1>4, <2>1, <2>3, <3>1
  <2> QED BY <2>2, <2>3
<1>9. 1 .. Len(lines) + 1 \subseteq S
  <2> HIDE DEF S
  <2> QED BY <1>1, <1>7, <1>8, Induction
<1> QED BY <1>9 DEF run, run2, guarded

LEMMA SourcedParts ==
  ASSUME NEW lines \in Seq(Rc!Lines), NEW path \in SUBSET Dirs, NEW truths
  PROVE  /\ Rc!Sourced(lines, path, truths).path = Rc!Sourcing(lines, path, truths)[Len(lines) + 1].path
         /\ Rc!Sourced(lines, path, truths).again = Rc!Sourcing(lines, path, truths)[Len(lines) + 1].again
<1> DEFINE end == Rc!Sourcing(lines, path, truths)[Len(lines) + 1]
<1>1. Len(lines) + 1 \in 1 .. Len(lines) + 1
  OBVIOUS
<1>2. end \in FileShells
  BY <1>1, RunType
<1>3. Rc!Sourced(lines, path, truths) = [end EXCEPT !.bad = @ \/ end.stack # <<>> \/ end.heredoc]
  BY DEF Rc!Sourced
<1> HIDE DEF end
<1>4. Rc!Sourced(lines, path, truths).path = end.path /\ Rc!Sourced(lines, path, truths).again = end.again
  BY <1>2, <1>3 DEF FileShells
<1> QED BY <1>4 DEF end

LEMMA Paths == Rc!Nested \in SUBSET Dirs /\ Rc!Fresh \in SUBSET Dirs /\ "m" \in Rc!Nested
BY DEF Rc!Nested, Rc!Fresh, Dirs, Rc!Names

\* The guard: the file parses, every shell has the PATH it had, and no guarded line adds again.
LEMMA GuardingIsSafe ==
  ASSUME NEW lines \in Seq(Rc!Lines), Rc!Parses(lines), Rc!OursIsOurs(lines)
  PROVE  Rc!GuardIsSafe(lines, Rc!GuardWriters(lines))
<1> DEFINE guarded == Rc!GuardWriters(lines)
           n == Len(lines) + 1
           G == Rc!Indices(Rc!Guardable(lines))
<1>1. n \in 1 .. Len(lines) + 1 /\ Len(lines) \in Nat
  OBVIOUS
<1>2. guarded \in Seq(Rc!Lines) /\ Len(guarded) = Len(lines) /\ \A k \in 1 .. Len(lines) :
        /\ guarded[k] = IF k \in G THEN Guarding(lines[k]) ELSE lines[k]
        /\ guarded[k].head = lines[k].head
  BY GuardedLines
<1> HIDE DEF guarded
<1>3. Rc!Parses(guarded)
  <2>1. Alike(Rc!Sourcing(lines, Rc!Nested, {})[n], Rc!Sourcing(guarded, Rc!Nested, {})[n])
    BY <1>1, <1>2, Paths, RunsAlike
  <2> QED BY <1>2, <2>1, ParsesAsWell
<1>4. ASSUME ~Rc!Stale(lines), NEW path \in SUBSET Dirs PROVE Rc!SamePath(lines, guarded, path)
  <2>1. SUFFICES ASSUME NEW truths \in Rc!Truths(lines)
                 PROVE  Rc!Sourced(lines, path, truths).path = Rc!Sourced(guarded, path, truths).path
    BY DEF Rc!SamePath
  <2>2. Same(Rc!Sourcing(lines, path, truths)[n], Rc!Sourcing(guarded, path, truths)[n])
    BY <1>1, <1>4, RunGuarded DEF guarded
  <2> QED BY <1>2, <2>2, SourcedParts DEF Same
<1>5. ASSUME NEW truths \in Rc!Truths(lines)
      PROVE  Rc!Sourced(guarded, Rc!Nested, truths).again \cap G = {}
  <2> DEFINE run == Rc!Sourcing(guarded, Rc!Nested, truths)
  <2>1. Rc!Sourced(guarded, Rc!Nested, truths).again = {k \in 1 .. n - 1 : Again(run[k], guarded[k], k, truths)}
    BY <1>1, <1>2, Paths, SourcedParts, AgainAt
  <2>2. ASSUME NEW k \in 1 .. n - 1, k \in G PROVE ~Again(run[k], guarded[k], k, truths)
    <3>1. guarded[k] = Guarding(lines[k]) /\ lines[k] \in Rc!Lines
      BY <1>2, <2>2
    <3>2. guarded[k].form = "case" /\ guarded[k].tests
      BY <3>1, GuardingLine
    <3> HIDE DEF run
    <3> QED BY <3>2 DEF Again, Writes, Does, Rc!Holds
  <2> QED BY <2>1, <2>2
<1> QED BY <1>3, <1>4, <1>5, Paths DEF Rc!GuardIsSafe, guarded

-----------------------------------------------------------------------------
\* What the cleanup puts in the place of a line.
Gone == Rc!Line("gone")

LEMMA GoneLine ==
  /\ Gone \in Rc!Lines /\ Gone.head \in Rc!Comments /\ Gone.head = "gone"
<1> DEFINE none == <<>>
<1>1. Gone = [head |-> "gone", tests |-> FALSE, value |-> none, form |-> "plain", indent |-> FALSE]
  BY DEF Gone, Rc!Line
<1>2. none \in Seq(Rc!Names)
  OBVIOUS
<1>3. "gone" \in Rc!Comments /\ "gone" \in Rc!Heads /\ "plain" \in Rc!Forms
  BY DEF Rc!Comments, Rc!Heads, Rc!Forms
<1> HIDE DEF none
<1>4. /\ Gone \in [head : Rc!Heads, tests : BOOLEAN, value : Seq(Rc!Names), form : Rc!Forms, indent : BOOLEAN]
      /\ Gone.head = "gone" /\ Gone.form = "plain"
  BY <1>1, <1>2, <1>3
<1> QED BY <1>3, <1>4 DEF Rc!Lines

LEMMA StrippedLines ==
  ASSUME NEW lines \in Seq(Rc!Lines)
  PROVE  /\ Rc!StripLines(lines) \in Seq(Rc!Lines) /\ Len(Rc!StripLines(lines)) = Len(lines)
         /\ \A k \in 1 .. Len(lines) :
              Rc!StripLines(lines)[k] = IF k \in Rc!Indices(Rc!Duplicates(lines)) THEN Gone ELSE lines[k]
<1> DEFINE stripped == Rc!StripLines(lines)
           D == Rc!Indices(Rc!Duplicates(lines))
<1> HIDE DEF D
<1>1. Len(lines) \in Nat /\ DOMAIN lines = 1 .. Len(lines) /\ \A k \in 1 .. Len(lines) : lines[k] \in Rc!Lines
  OBVIOUS
<1>2. stripped = [k \in 1 .. Len(lines) |-> IF k \in D THEN Gone ELSE lines[k]]
  BY <1>1 DEF Rc!StripLines, Gone, D
<1> HIDE DEF stripped
<1>3. \A k \in 1 .. Len(lines) : stripped[k] = (IF k \in D THEN Gone ELSE lines[k]) /\ stripped[k] \in Rc!Lines
  BY <1>1, <1>2, GoneLine
<1>4. stripped \in [1 .. Len(lines) -> Rc!Lines]
  BY <1>2, <1>3
<1>5. stripped \in Seq(Rc!Lines) /\ Len(stripped) = Len(lines)
  BY <1>1, <1>4, IsASeq
<1> QED BY <1>3, <1>5 DEF stripped, D

LEMMA SameAlike ==
  ASSUME NEW s, NEW t, Same(s, t)
  PROVE  Alike(s, t)
BY DEF Same, Alike

\* A command outside all blocks is no part of what the shell has to read.
LEMMA StepStripped ==
  ASSUME NEW s \in FileShells, NEW t \in FileShells, Alike(s, t), ~s.bad, ~s.heredoc, Len(s.stack) = 0,
         NEW l \in Rc!Lines, l.head = "write", NEW i, NEW truths
  PROVE  /\ Alike(Rc!After(s, l, i, truths), Rc!After(t, Gone, i, truths))
         /\ Same(s, t) /\ (Writes(s, l, i, truths) => Rc!Assigned(l.value, s) = s.path)
              => Same(Rc!After(s, l, i, truths), Rc!After(t, Gone, i, truths))
<1> DEFINE p == Rc!After(s, l, i, truths)
           q == Rc!After(t, Gone, i, truths)
<1>0. p = Rc!After(s, l, i, truths) /\ q = Rc!After(t, Gone, i, truths)
  OBVIOUS
<1> HIDE DEF p, q
<1>1. ~t.bad /\ ~t.heredoc /\ Len(t.stack) = 0
  BY DEF Alike
<1>2. q = t
  BY <1>0, <1>1, GoneLine, CommentEffect
<1>3. "write" \in Rc!Commands
  BY DEF Rc!Commands
<1>4. Commanding(s, l, i, truths, p, Len(s.stack))
  BY <1>0, <1>3, CommandEffect
<1>5. s.stack \in Seq(Frames) /\ t.stack \in Seq(Frames) /\ s.bad = FALSE /\ s.heredoc = FALSE /\
        t.bad = FALSE /\ t.heredoc = FALSE
  BY <1>1 DEF FileShells
<1>6. Rc!WithBody(s.stack) \in Seq(Frames) /\ Len(Rc!WithBody(s.stack)) = Len(s.stack)
  BY <1>5, BodyStands
<1>7. s.stack = <<>> /\ t.stack = <<>> /\ Rc!WithBody(s.stack) = <<>>
  BY <1>1, <1>5, <1>6
<1>8. p.bad = FALSE /\ p.heredoc = FALSE /\ p.stack = <<>> /\ p.b = s.b
      /\ p.path = IF Writes(s, l, i, truths) THEN Rc!Assigned(l.value, s) ELSE s.path
  BY <1>4, <1>7 DEF Commanding
<1>9. Alike(p, q)
  BY <1>2, <1>5, <1>7, <1>8 DEF Alike
<1>10. ASSUME Same(s, t), Writes(s, l, i, truths) => Rc!Assigned(l.value, s) = s.path PROVE Same(p, q)
  <2>1. p.path = s.path
    BY <1>8, <1>10
  <2> QED BY <1>2, <1>5, <1>7, <1>8, <1>10, <2>1 DEF Same
<1> QED BY <1>0, <1>9, <1>10

LEMMA RunStripped ==
  ASSUME NEW lines \in Seq(Rc!Lines), Rc!Parses(lines), Rc!OursIsOurs(lines), ~Rc!EmptiesBlock(lines),
         NEW path \in SUBSET Dirs, NEW truths, NEW i \in 1 .. Len(lines) + 1
  PROVE  Alike(Rc!Sourcing(lines, path, truths)[i], Rc!Sourcing(Rc!StripLines(lines), path, truths)[i])
<1> DEFINE stripped == Rc!StripLines(lines)
           run == Rc!Sourcing(lines, path, truths)
           run2 == Rc!Sourcing(stripped, path, truths)
           scan == Rc!Scan(lines)
           S == {k \in 1 .. Len(lines) + 1 : Alike(run[k], run2[k])}
<1>1. Len(lines) \in Nat /\ \A k \in 1 .. Len(lines) : lines[k] \in Rc!Lines
  OBVIOUS
<1>2. stripped \in Seq(Rc!Lines) /\ Len(stripped) = Len(lines) /\ \A k \in 1 .. Len(lines) :
         stripped[k] = IF k \in Rc!Indices(Rc!Duplicates(lines)) THEN Gone ELSE lines[k]
  BY StrippedLines
<1> HIDE DEF stripped
<1>3. run[1] = Rc!Started(path) /\ \A k \in 1 .. Len(lines) : run[k + 1] = Rc!After(run[k], lines[k], k, truths)
  BY <1>1, SourcingSteps
<1>4. run2[1] = Rc!Started(path) /\ \A k \in 1 .. Len(lines) : run2[k + 1] =
        Rc!After(run2[k], stripped[k], k, truths)
  <2>1. Len(stripped) \in Nat
    BY <1>1, <1>2
  <2> QED BY <1>2, <2>1, SourcingSteps
<1>5. \A k \in 1 .. Len(lines) + 1 : run[k] \in FileShells /\ run2[k] \in FileShells
  BY <1>2, RunType
<1>6. \A k \in 1 .. Len(lines) + 1 : ~run[k].bad /\ Synced(scan[k], run[k])
  BY ParsesAnyhow, BadStays, RunSynced
<1> HIDE DEF run, run2, scan
<1>7. 1 \in S
  BY <1>1, <1>3, <1>4 DEF Alike
<1>8. ASSUME NEW k \in 1 .. Len(lines), k \in S PROVE k + 1 \in S
  <2>1. /\ lines[k] \in Rc!Lines /\ run[k] \in FileShells /\ run2[k] \in FileShells /\ Alike(run[k], run2[k])
        /\ k + 1 \in 1 .. Len(lines) + 1 /\ k \in 1 .. Len(lines) + 1
    BY <1>1, <1>5, <1>8
  <2>2. CASE k \in Rc!Indices(Rc!Duplicates(lines))
    <3>1. lines[k].head = "write" /\ ~scan[k].heredoc /\ scan[k].stack = <<>>
      BY <2>2, DuplicateLine DEF Written, scan
    <3>2. ~run[k].bad /\ ~run[k].heredoc /\ Len(run[k].stack) = 0
      BY <1>6, <2>1, <3>1 DEF Synced
    <3>3. Alike(Rc!After(run[k], lines[k], k, truths), Rc!After(run2[k], Gone, k, truths))
      BY <2>1, <3>1, <3>2, StepStripped
    <3> QED BY <1>2, <1>3, <1>4, <2>1, <2>2, <3>3
  <2>3. CASE k \notin Rc!Indices(Rc!Duplicates(lines))
    <3>1. Alike(Rc!After(run[k], lines[k], k, truths), Rc!After(run2[k], lines[k], k, truths))
      BY <2>1, StepAlike
    <3> QED BY <1>2, <1>3, <1>4, <2>1, <2>3, <3>1
  <2> QED BY <2>2, <2>3
<1>9. 1 .. Len(lines) + 1 \subseteq S
  <2> HIDE DEF S
  <2> QED BY <1>1, <1>7, <1>8, Induction
<1> QED BY <1>9 DEF run, run2, stripped

\* What is on PATH stays there where no line replaces it.
LEMMA RunKeptTo ==
  ASSUME NEW lines \in Seq(Rc!Lines), NEW path \in SUBSET Dirs, "m" \in path, NEW truths,
         NEW i \in 1 .. Len(lines) + 1, ~Rc!Replaced(lines, i - 1)
  PROVE  "m" \in Rc!Sourcing(lines, path, truths)[i].path
<1> DEFINE run == Rc!Sourcing(lines, path, truths)
           S == {k \in 1 .. Len(lines) + 1 : k <= i => "m" \in run[k].path}
<1>1. Len(lines) \in Nat /\ DOMAIN lines = 1 .. Len(lines) /\ \A k \in 1 .. Len(lines) : lines[k] \in Rc!Lines
  OBVIOUS
<1>2. run[1] = Rc!Started(path) /\ \A k \in 1 .. Len(lines) : run[k + 1] = Rc!After(run[k], lines[k], k, truths)
  BY <1>1, SourcingSteps
<1>3. \A k \in 1 .. Len(lines) + 1 : run[k] \in FileShells
  BY RunType
<1> HIDE DEF run
<1>4. 1 \in S
  BY <1>1, <1>2 DEF Rc!Started
<1>5. ASSUME NEW k \in 1 .. Len(lines), k \in S PROVE k + 1 \in S
  <2>0. k + 1 \in 1 .. Len(lines) + 1
    BY <1>1
  <2>a. SUFFICES ASSUME k + 1 <= i PROVE "m" \in run[k + 1].path
    BY <2>0
  <2>1. lines[k] \in Rc!Lines /\ run[k] \in FileShells /\ "m" \in run[k].path /\ k \in 1 .. i - 1
    BY <1>1, <1>3, <1>5, <2>a
  <2>2. Remembered(run[k], lines[k], k, truths, Rc!After(run[k], lines[k], k, truths))
    BY <2>1, SideEffect
  <2>3. Writes(run[k], lines[k], k, truths) => "PATH" \in Rc!Range(lines[k].value)
    BY <2>1 DEF Rc!Replaced, Writes
  <2>4. "m" \in run[k + 1].path
    BY <1>2, <2>1, <2>2, <2>3 DEF Remembered, Rc!Assigned
  <2> QED BY <2>4
<1>6. 1 .. Len(lines) + 1 \subseteq S
  <2> HIDE DEF S
  <2> QED BY <1>1, <1>4, <1>5, Induction
<1>7. i \in S /\ i <= i
  BY <1>1, <1>6
<1> QED BY <1>7 DEF run

LEMMA RunKept ==
  ASSUME NEW lines \in Seq(Rc!Lines), ~Rc!Replaces(lines), NEW path \in SUBSET Dirs, "m" \in path, NEW truths,
         NEW i \in 1 .. Len(lines) + 1
  PROVE  "m" \in Rc!Sourcing(lines, path, truths)[i].path
<1>1. \A k \in 1 .. i - 1 : k \in 1 .. Len(lines)
  OBVIOUS
<1>2. ~Rc!Replaced(lines, i - 1)
  BY <1>1 DEF Rc!Replaces, Rc!Replaced
<1> QED BY <1>2, RunKeptTo

\* A line that goes had added to a PATH that had it: the shell without it is in the same state.
LEMMA RunUntouched ==
  ASSUME NEW lines \in Seq(Rc!Lines), Rc!Parses(lines), Rc!OursIsOurs(lines), ~Rc!EmptiesBlock(lines),
         ~Rc!MoreGoes(lines), ~Rc!PutsBack(lines), ~Rc!Stale(lines), NEW truths, NEW i \in 1 .. Len(lines) + 1
  PROVE  Same(Rc!Sourcing(lines, Rc!Nested, truths)[i], Rc!Sourcing(Rc!StripLines(lines), Rc!Nested, truths)[i])
<1> DEFINE stripped == Rc!StripLines(lines)
           run == Rc!Sourcing(lines, Rc!Nested, truths)
           run2 == Rc!Sourcing(stripped, Rc!Nested, truths)
           scan == Rc!Scan(lines)
           S == {k \in 1 .. Len(lines) + 1 : Same(run[k], run2[k])}
<1>1. Len(lines) \in Nat /\ DOMAIN lines = 1 .. Len(lines) /\ \A k \in 1 .. Len(lines) : lines[k] \in Rc!Lines
  OBVIOUS
<1>2. stripped \in Seq(Rc!Lines) /\ Len(stripped) = Len(lines) /\ \A k \in 1 .. Len(lines) :
         stripped[k] = IF k \in Rc!Indices(Rc!Duplicates(lines)) THEN Gone ELSE lines[k]
  BY StrippedLines
<1> HIDE DEF stripped
<1>3. run[1] = Rc!Started(Rc!Nested) /\ \A k \in 1 .. Len(lines) : run[k + 1] =
        Rc!After(run[k], lines[k], k, truths)
  BY <1>1, SourcingSteps
<1>4. run2[1] = Rc!Started(Rc!Nested) /\ \A k \in 1 .. Len(lines) : run2[k + 1] =
        Rc!After(run2[k], stripped[k], k, truths)
  <2>1. Len(stripped) \in Nat
    BY <1>1, <1>2
  <2> QED BY <1>2, <2>1, SourcingSteps
<1>5. \A k \in 1 .. Len(lines) + 1 : run[k] \in FileShells /\ run2[k] \in FileShells
  BY <1>2, RunType, Paths
<1>6. \A k \in 1 .. Len(lines) + 1 :
        ~run[k].bad /\ Synced(scan[k], run[k]) /\ scan[k].local = run[k].b
  BY ParsesAnyhow, BadStays, RunSynced, Paths
<1>9. ASSUME NEW k \in Rc!Indices(Rc!Duplicates(lines)), k \in 1 .. Len(lines)
      PROVE  "m" \in run[k].path /\ ~Rc!Replaced(lines, k)
  <2>1. ~Rc!Replaced(lines, k)
    BY DEF Rc!PutsBack, Rc!Indices
  <2>2. ~Rc!Replaced(lines, k - 1)
    BY <1>1, <1>9, <2>1 DEF Rc!Replaced
  <2> QED BY <1>9, <2>1, <2>2, RunKeptTo, Paths
<1> HIDE DEF run, run2, scan
<1>7. 1 \in S
  BY <1>1, <1>3, <1>4 DEF Same
<1>8. ASSUME NEW k \in 1 .. Len(lines), k \in S PROVE k + 1 \in S
  <2>1. /\ lines[k] \in Rc!Lines /\ run[k] \in FileShells /\ run2[k] \in FileShells /\ Same(run[k], run2[k])
        /\ k + 1 \in 1 .. Len(lines) + 1 /\ k \in 1 .. Len(lines) + 1
    BY <1>1, <1>5, <1>8
  <2>2. CASE k \in Rc!Indices(Rc!Duplicates(lines))
    <3>1. lines[k].head = "write" /\ ~scan[k].heredoc /\ scan[k].stack = <<>> /\ lines[k].form = "plain"
          /\ ~Unresolved(lines[k], scan[k]) /\ Rc!Targets(lines[k], scan[k]) = {"m"}
      BY <2>2, DuplicateLine DEF Written, scan
    <3>2. /\ ~run[k].bad /\ ~run[k].heredoc /\ Len(run[k].stack) = 0 /\ scan[k].local = run[k].b
          /\ "m" \in run[k].path
      BY <1>6, <1>9, <2>1, <2>2, <3>1 DEF Synced
    <3>3. "PATH" \in Rc!Range(lines[k].value)
      <4>1. ~Rc!Replaced(lines, k) /\ k \in 1 .. k
        BY <1>9, <2>2
      <4> QED BY <3>1, <4>1 DEF Rc!Replaced
    <3>4. Rc!Added(lines[k].value, run[k].b) = {"m"}
      <4> DEFINE value == Rc!Range(lines[k].value)
                 local == scan[k].local
      <4>1. \A x \in value \ {"PATH"} : Rc!Known(x, local)
        BY <3>1 DEF Unresolved
      <4>2. {Rc!Expand(x, local) : x \in {x \in value : x # "PATH" /\ Rc!Known(x, local)}} = {"m"}
        BY <3>1 DEF Rc!Targets
      <4>3. Rc!Added(lines[k].value, run[k].b) = {IF x = "B" THEN local ELSE x : x \in value \ {"PATH"}}
        BY <3>2 DEF Rc!Added
      <4> HIDE DEF value, local
      <4>4. value \ {"PATH"} = {x \in value : x # "PATH" /\ Rc!Known(x, local)}
        BY <4>1
      <4> QED BY <4>2, <4>3, <4>4 DEF Rc!Expand
    <3>5. Rc!Assigned(lines[k].value, run[k]) = run[k].path
      BY <3>2, <3>3, <3>4 DEF Rc!Assigned
    <3>6. Same(Rc!After(run[k], lines[k], k, truths), Rc!After(run2[k], Gone, k, truths))
      BY <2>1, <3>1, <3>2, <3>5, SameAlike, StepStripped
    <3> QED BY <1>2, <1>3, <1>4, <2>1, <2>2, <3>6
  <2>3. CASE k \notin Rc!Indices(Rc!Duplicates(lines))
    <3>1. Same(Rc!After(run[k], lines[k], k, truths), Rc!After(run2[k], lines[k], k, truths))
      BY <2>1, StepSame
    <3> QED BY <1>2, <1>3, <1>4, <2>1, <2>3, <3>1
  <2> QED BY <2>2, <2>3
<1>10. 1 .. Len(lines) + 1 \subseteq S
  <2> HIDE DEF S
  <2> QED BY <1>1, <1>7, <1>8, Induction
<1> QED BY <1>10 DEF run, run2, stripped

\* The cleanup: a file that still parses, and the same PATH where the managed directory was on it.
LEMMA StrippingIsSafe ==
  ASSUME NEW lines \in Seq(Rc!Lines), Rc!Parses(lines), Rc!OursIsOurs(lines)
  PROVE  Rc!StripIsSafe(lines, Rc!StripLines(lines))
<1> DEFINE stripped == Rc!StripLines(lines)
           n == Len(lines) + 1
<1>1. n \in 1 .. Len(lines) + 1
  OBVIOUS
<1>2. stripped \in Seq(Rc!Lines) /\ Len(stripped) = Len(lines)
  BY StrippedLines
<1> HIDE DEF stripped
<1>3. ASSUME ~Rc!EmptiesBlock(lines) PROVE Rc!Parses(stripped)
  <2>1. Alike(Rc!Sourcing(lines, Rc!Nested, {})[n], Rc!Sourcing(stripped, Rc!Nested, {})[n])
    BY <1>1, <1>3, Paths, RunStripped DEF stripped
  <2> QED BY <1>2, <2>1, ParsesAsWell
<1>4. ASSUME ~Rc!EmptiesBlock(lines), ~Rc!MoreGoes(lines), ~Rc!PutsBack(lines), ~Rc!Stale(lines)
      PROVE  Rc!SamePath(lines, stripped, Rc!Nested)
  <2>1. SUFFICES ASSUME NEW truths \in Rc!Truths(lines)
                 PROVE  Rc!Sourced(lines, Rc!Nested, truths).path = Rc!Sourced(stripped, Rc!Nested, truths).path
    BY DEF Rc!SamePath
  <2>2. Same(Rc!Sourcing(lines, Rc!Nested, truths)[n], Rc!Sourcing(stripped, Rc!Nested, truths)[n])
    BY <1>1, <1>4, RunUntouched DEF stripped
  <2> QED BY <1>2, <2>2, SourcedParts, Paths DEF Same
<1> QED BY <1>3, <1>4 DEF Rc!StripIsSafe, stripped

-----------------------------------------------------------------------------
\* No block the scan takes for a test of PATH is run with the managed directory on it.
LEMMA RunTested ==
  ASSUME NEW lines \in Seq(Rc!Lines), Rc!Parses(lines), Rc!OursIsOurs(lines), ~Rc!Replaces(lines),
           ~Rc!ElseOfTest(lines),
         NEW truths, NEW i \in 1 .. Len(lines) + 1
  PROVE  Tested(Rc!Scan(lines)[i], Rc!Sourcing(lines, Rc!Nested, truths)[i])
<1> DEFINE run == Rc!Sourcing(lines, Rc!Nested, truths)
           scan == Rc!Scan(lines)
           S == {k \in 1 .. Len(lines) + 1 : Tested(scan[k], run[k])}
<1>1. Len(lines) \in Nat /\ DOMAIN lines = 1 .. Len(lines) /\ \A k \in 1 .. Len(lines) : lines[k] \in Rc!Lines
  OBVIOUS
<1>2. run[1] = Rc!Started(Rc!Nested) /\ \A k \in 1 .. Len(lines) : run[k + 1] =
        Rc!After(run[k], lines[k], k, truths)
  BY <1>1, SourcingSteps
<1>3. scan[1] = Rc!Unread /\ \A k \in 1 .. Len(lines) : scan[k + 1] =
        Rc!Scanned(scan[k], lines[k], k \in Rc!Managed(lines))
  BY <1>1, ScanSteps
<1>4. \A k \in 1 .. Len(lines) + 1 :
        run[k] \in FileShells /\ ~run[k].bad /\ Synced(scan[k], run[k]) /\ "m" \in run[k].path
  BY RunType, ParsesAnyhow, BadStays, RunSynced, RunKept, Paths
<1>5. \A k \in 1 .. Len(lines) : lines[k].head = "else" => ~Rc!PresenceGuarded(scan[k], lines[k])
  BY <1>1 DEF Rc!ElseOfTest
<1>6. \A k \in Rc!Managed(lines) : OurLine(lines[k])
  BY DEF Rc!OursIsOurs, OurLine
<1> HIDE DEF run, scan
<1>7. 1 \in S
  <2>1. Tested(Rc!Unread, Rc!Started(Rc!Nested))
    BY DEF Tested, Rc!Unread, Rc!Started
  <2> QED BY <1>1, <1>2, <1>3, <2>1
<1>8. ASSUME NEW k \in 1 .. Len(lines), k \in S PROVE k + 1 \in S
  <2>1. /\ lines[k] \in Rc!Lines /\ run[k] \in FileShells /\ ~run[k].bad /\ Synced(scan[k], run[k])
        /\ k + 1 \in 1 .. Len(lines) + 1 /\ ~run[k + 1].bad /\ "m" \in run[k].path /\ Tested(scan[k], run[k])
        /\ run[k + 1] = Rc!After(run[k], lines[k], k, truths)
        /\ scan[k + 1] = Rc!Scanned(scan[k], lines[k], k \in Rc!Managed(lines))
        /\ (lines[k].head = "else" => ~Rc!PresenceGuarded(scan[k], lines[k]))
    BY <1>1, <1>2, <1>3, <1>4, <1>5, <1>8
  <2> DEFINE managed == k \in Rc!Managed(lines)
  <2>2. managed \in BOOLEAN /\ (managed => OurLine(lines[k])) /\
          scan[k + 1] = Rc!Scanned(scan[k], lines[k], managed)
    BY <1>6, <2>1
  <2> HIDE DEF managed
  <2>3. Tested(scan[k + 1], run[k + 1])
    BY <2>1, <2>2, StepSynced
  <2> QED BY <2>1, <2>3
<1>9. 1 .. Len(lines) + 1 \subseteq S
  <2> HIDE DEF S
  <2> QED BY <1>1, <1>7, <1>8, Induction
<1> QED BY <1>9 DEF run, scan

\* What the line adds, the variable expanded, is what the cleanup finds it to add.
LEMMA AddedIsTarget ==
  ASSUME NEW l \in Rc!Lines, NEW s, s.local \in {"m", "n", "v"}
  PROVE  "m" \in Rc!Added(l.value, s.local) <=>
           "m" \in {Rc!Expand(x, s.local) : x \in {x \in Rc!Range(l.value) : x # "PATH" /\
             Rc!Known(x, s.local)}}
BY DEF Rc!Added, Rc!Expand, Rc!Known

\* A line that adds a directory again is one that is reported.
LEMMA AddsAgainIsWriter ==
  ASSUME NEW lines \in Seq(Rc!Lines), Rc!Parses(lines), Rc!OursIsOurs(lines),
         ~Rc!Stale(lines), ~Rc!Replaces(lines), ~Rc!ElseOfTest(lines), NEW truths, NEW i \in 1 .. Len(lines),
         Again(Rc!Sourcing(lines, Rc!Nested, truths)[i], lines[i], i, truths)
  PROVE  i \in Rc!Indices(Rc!Writers(lines))
<1> DEFINE l == lines[i]
           s == Rc!Sourcing(lines, Rc!Nested, truths)[i]
           r == Rc!Scan(lines)[i]
<1>1. i \in 1 .. Len(lines) + 1 /\ l \in Rc!Lines
  OBVIOUS
<1>2. s \in FileShells /\ Synced(r, s) /\ r.local = s.b /\ Tested(r, s)
  BY <1>1, RunType, ParsesAnyhow, RunSynced, RunTested, Paths
<1>3. Again(s, l, i, truths)
  OBVIOUS
<1>4. i \in Rc!Managed(lines) => OurLine(l)
  BY DEF Rc!OursIsOurs, OurLine
<1>w. Written(lines, i) <=> /\ l.head = "write" /\ l.form \notin {"prefix", "case"}
                            /\ i \notin Rc!Managed(lines) /\ ~r.heredoc
  BY DEF Written
<1> HIDE DEF l, s, r
<1>5. /\ ~s.heredoc /\ l.head = "write" /\ l.form # "prefix" /\ Rc!Running(s)
      /\ l.form \in {"and", "if", "case"} => Rc!Holds(l, i, s.path, truths)
      /\ "m" \in s.path /\ "m" \in Rc!Added(l.value, s.b)
  BY <1>3 DEF Again, Writes, Does
<1>6. l.form \in {"and", "if", "case"} => ~l.tests
  BY <1>5 DEF Rc!Holds
<1>7. l.form # "case"
  BY <1>1, <1>6 DEF Rc!Lines
<1>8. i \notin Rc!Managed(lines)
  <2>1. ~OurLine(l)
    <3>1. Rc!Write(<<"m", "PATH">>, "case", TRUE, FALSE).form = "case"
      BY DEF Rc!Write
    <3> QED BY <1>5, <1>7, <3>1 DEF OurLine
  <2> QED BY <1>4, <2>1
<1>9. Written(lines, i)
  BY <1>2, <1>5, <1>7, <1>8, <1>w DEF Synced
<1>10. ~Rc!PresenceGuarded(r, l)
  <2>1. \A k \in 1 .. Len(s.stack) : s.stack[k].on
    BY <1>2, <1>5 DEF Rc!Running, FileShells
  <2>2. r.stack \in Seq(ScanFrames) /\ Len(r.stack) = Len(s.stack)
    BY <1>2 DEF Synced, Scans
  <2>3. \A k \in DOMAIN r.stack : ~r.stack[k].tests
    BY <1>2, <2>1, <2>2, SMTT(30) DEF Tested
  <2> QED BY <1>6, <2>3 DEF Rc!PresenceGuarded
<1>11. "m" \in Rc!Targets(l, r)
  <2>1. r.local \in {"m", "n", "v"} /\ "m" \in Rc!Added(l.value, r.local)
    BY <1>2, <1>5 DEF Synced, Scans
  <2>2. "m" \in {Rc!Expand(x, r.local) : x \in {x \in Rc!Range(l.value) : x # "PATH" /\ Rc!Known(x, r.local)}}
    BY <1>1, <2>1, AddedIsTarget
  <2> QED BY <1>6, <2>2 DEF Rc!Targets
<1> QED BY <1>9, <1>10, <1>11, WriterLines DEF l, r

-----------------------------------------------------------------------------
\* The lines whose condition may answer either way.
Free(lines) == {i \in DOMAIN lines : ~lines[i].tests /\ (lines[i].head \in {"if", "elif", "while", "case"}
                                                         \/ lines[i].form \in {"and", "if"})}

\* What the shell is at depends on the conditions above it only.
LEMMA StepDecided ==
  ASSUME NEW s \in FileShells, NEW l \in Rc!Lines, NEW i, NEW truths, NEW others, i \in truths <=> i \in others
  PROVE  Rc!After(s, l, i, truths) = Rc!After(s, l, i, others)
<1>1. Rc!Holds(l, i, s.path, truths) = Rc!Holds(l, i, s.path, others)
  BY DEF Rc!Holds, Rc!Lines
<1>2. Rc!Command(s, l, i, truths) = Rc!Command(s, l, i, others)
  BY <1>1 DEF Rc!Command
<1> DEFINE Made(holds, command) ==
             IF s.bad THEN s
             ELSE IF s.heredoc THEN [s EXCEPT !.heredoc = l.head # "EOF"]
             ELSE CASE l.head \in Rc!OPENERS          -> Rc!Opened(s, l, holds)
                    [] l.head \in Rc!CLOSERS          -> Rc!Close(s, l.head)
                    [] l.head \in {"elif", "else"} -> Rc!Branch(s, l.head = "else" \/ holds, l.head = "else")
                    [] l.head \in Rc!Commands         -> command
                    [] OTHER                       -> s
           holds1 == l.head = "for" \/ Rc!Holds(l, i, s.path, truths)
           holds2 == l.head = "for" \/ Rc!Holds(l, i, s.path, others)
<1>3. Rc!After(s, l, i, truths) = Made(holds1, Rc!Command(s, l, i, truths))
  BY DEF Rc!After
<1>4. Rc!After(s, l, i, others) = Made(holds2, Rc!Command(s, l, i, others))
  BY DEF Rc!After
<1>5. holds1 = holds2
  BY <1>1
<1> HIDE DEF Made, holds1, holds2
<1> QED BY <1>2, <1>3, <1>4, <1>5

SameBefore(truths, others, i) == \A k \in 1 .. i - 1 : k \in truths <=> k \in others

LEMMA RunDecided ==
  ASSUME NEW lines \in Seq(Rc!Lines), NEW path \in SUBSET Dirs, NEW truths, NEW others,
         NEW i \in 1 .. Len(lines) + 1, SameBefore(truths, others, i)
  PROVE  Rc!Sourcing(lines, path, truths)[i] = Rc!Sourcing(lines, path, others)[i]
<1> DEFINE run == Rc!Sourcing(lines, path, truths)
           run2 == Rc!Sourcing(lines, path, others)
           S == {k \in 1 .. Len(lines) + 1 : k <= i => run[k] = run2[k]}
<1>1. Len(lines) \in Nat /\ \A k \in 1 .. Len(lines) : lines[k] \in Rc!Lines
  OBVIOUS
<1>2. run[1] = Rc!Started(path) /\ \A k \in 1 .. Len(lines) : run[k + 1] = Rc!After(run[k], lines[k], k, truths)
  BY <1>1, SourcingSteps
<1>3. run2[1] = Rc!Started(path) /\ \A k \in 1 .. Len(lines) : run2[k + 1] =
        Rc!After(run2[k], lines[k], k, others)
  BY <1>1, SourcingSteps
<1>4. \A k \in 1 .. Len(lines) + 1 : run[k] \in FileShells
  BY RunType
<1> HIDE DEF run, run2
<1>5. 1 \in S
  BY <1>1, <1>2, <1>3
<1>6. ASSUME NEW k \in 1 .. Len(lines), k \in S PROVE k + 1 \in S
  <2>1. k + 1 \in 1 .. Len(lines) + 1 /\ lines[k] \in Rc!Lines /\ run[k] \in FileShells
    BY <1>1, <1>4
  <2>2. ASSUME k + 1 <= i PROVE run[k + 1] = run2[k + 1]
    <3>1. run[k] = run2[k] /\ k \in 1 .. i - 1
      BY <1>6, <2>2
    <3>3. k \in truths <=> k \in others
      BY <3>1 DEF SameBefore
    <3>2. Rc!After(run[k], lines[k], k, truths) = Rc!After(run[k], lines[k], k, others)
      BY <2>1, <3>3, StepDecided
    <3> QED BY <1>2, <1>3, <3>1, <3>2
  <2> QED BY <2>1, <2>2
<1>7. 1 .. Len(lines) + 1 \subseteq S
  <2> HIDE DEF S
  <2> QED BY <1>1, <1>5, <1>6, Induction
<1>8. i \in S /\ i <= i
  BY <1>7
<1> QED BY <1>8 DEF run, run2

\* What a line makes of the blocks that are open, for the scan and for the shell.
Kept(r, s, q, t) ==
  /\ Len(q.stack) \in Nat /\ Len(q.stack) <= Len(r.stack)
  /\ \A k \in 1 .. Len(q.stack) :
       q.stack[k] = r.stack[k] /\ t.stack[k].on = s.stack[k].on /\ t.stack[k].ran = s.stack[k].ran
       /\ t.stack[k].else = s.stack[k].else

Deeper(r, s, q, t, l, holds, n) ==
  /\ n \in Nat /\ Len(q.stack) = n + 1
  /\ \A k \in 1 .. n : q.stack[k] = r.stack[k] /\ t.stack[k] = s.stack[k]
  /\ q.stack[n + 1].tests = l.tests /\ q.stack[n + 1].closer = Rc!CloserOf[l.head]
  /\ t.stack[n + 1].on = (l.head = "for" \/ holds) /\ t.stack[n + 1].ran = (l.head = "for" \/ holds)

TurnedTo(r, s, q, t, l, holds, n) ==
  /\ n \in Nat \ {0} /\ Len(q.stack) = n
  /\ \A k \in 1 .. n - 1 : q.stack[k] = r.stack[k] /\ t.stack[k] = s.stack[k]
  /\ r.stack[n].closer = "fi" /\ ~s.stack[n].else
  /\ l.head = "elif" => q.stack[n].tests = l.tests
  /\ t.stack[n].on = ((l.head = "else" \/ holds) /\ ~s.stack[n].ran)
  /\ t.stack[n].ran = ((l.head = "else" \/ holds) \/ s.stack[n].ran)
  /\ t.stack[n].else = (l.head = "else")

LEMMA StepFrames ==
  ASSUME NEW s \in FileShells, ~s.bad, NEW r, Synced(r, s), NEW l \in Rc!Lines, NEW i, NEW truths,
         NEW managed \in BOOLEAN, managed => OurLine(l), ~Rc!After(s, l, i, truths).bad
  PROVE  /\ r.heredoc \/ managed \/ l.head \notin Rc!OPENERS \cup {"elif", "else"} =>
              Kept(r, s, Rc!Scanned(r, l, managed), Rc!After(s, l, i, truths))
         /\ ~r.heredoc /\ ~managed /\ l.head \in Rc!OPENERS =>
              Deeper(r, s, Rc!Scanned(r, l, managed), Rc!After(s, l, i, truths), l,
                Rc!Holds(l, i, s.path, truths), Len(r.stack))
         /\ ~r.heredoc /\ ~managed /\ l.head \in {"elif", "else"} =>
              TurnedTo(r, s, Rc!Scanned(r, l, managed), Rc!After(s, l, i, truths), l,
                Rc!Holds(l, i, s.path, truths), Len(r.stack))
<1> DEFINE t == Rc!After(s, l, i, truths)
           q == Rc!Scanned(r, l, managed)
           n == Len(s.stack)
           holds == Rc!Holds(l, i, s.path, truths)
<1>0. t = Rc!After(s, l, i, truths) /\ q = Rc!Scanned(r, l, managed) /\ n = Len(s.stack) /\ ~t.bad
      /\ holds = Rc!Holds(l, i, s.path, truths)
  OBVIOUS
<1> HIDE DEF t, q, n, holds
<1>1. r \in Scans /\ r.heredoc = s.heredoc /\ Len(r.stack) = n /\
        \A k \in 1 .. n : r.stack[k].closer = s.stack[k].closer
  BY <1>0 DEF Synced
<1>g. SUFFICES /\ r.heredoc \/ managed \/ l.head \notin Rc!OPENERS \cup {"elif", "else"} => Kept(r, s, q, t)
               /\ ~r.heredoc /\ ~managed /\ l.head \in Rc!OPENERS => Deeper(r, s, q, t, l, holds, n)
               /\ ~r.heredoc /\ ~managed /\ l.head \in {"elif", "else"} => TurnedTo(r, s, q, t, l, holds, n)
  BY <1>1 DEF t, q, holds
<1>2. r.stack \in Seq(ScanFrames) /\ n \in Nat
  BY <1>1 DEF Scans
<1>4. CASE s.heredoc
  <2>1. Skipping(s, l, t)
    BY <1>0, <1>4, HeredocEffect
  <2>2. q = [r EXCEPT !.heredoc = l.head # "EOF"]
    BY <1>0, <1>1, <1>4 DEF Rc!Scanned
  <2>3. q.stack = r.stack
    BY <1>1, <2>2 DEF Scans
  <2> QED BY <1>1, <1>2, <1>4, <2>1, <2>3 DEF Skipping, Kept
<1>5. CASE ~s.heredoc /\ managed
  <2>1. q = r
    BY <1>0, <1>1, <1>5 DEF Rc!Scanned
  <2>2. CASE l.head \in {"ours >>>", "<<< ours"}
    <3>1. t = s
      BY <1>0, <1>5, <2>2, CommentEffect DEF Rc!Comments
    <3> QED BY <1>1, <1>2, <1>5, <2>1, <3>1 DEF Kept
  <2>3. CASE l = Rc!Write(<<"m", "PATH">>, "case", TRUE, FALSE)
    <3>1. l.head = "write" /\ l.head \in Rc!Commands
      BY <2>3 DEF Rc!Write, Rc!Commands
    <3>2. Commanding(s, l, i, truths, t, n)
      BY <1>0, <1>5, <3>1, CommandEffect
    <3> QED BY <1>1, <1>2, <1>5, <2>1, <3>2 DEF Commanding, Kept
  <2> QED BY <1>5, <2>2, <2>3 DEF OurLine
<1>6. CASE ~s.heredoc /\ ~managed
  <2>1. q = Rc!Scanned(r, l, FALSE) /\ ~r.heredoc
    BY <1>0, <1>1, <1>6
  <2>2. CASE l.head \in Rc!OPENERS
    <3>1. Opening(s, l, i, truths, t, n)
      BY <1>0, <1>6, <2>2, OpenEffect
    <3>2. Reading(r, l, q, n)
      BY <1>1, <2>1, <2>2, ReadingEffect, HeadsApart
    <3>3. Deeper(r, s, q, t, l, holds, n)
      BY <1>0, <2>2, <3>1, <3>2 DEF Opening, Reading, Deeper
    <3> QED BY <1>6, <2>1, <2>2, <3>3, HeadsApart
  <2>3. CASE l.head \in Rc!CLOSERS
    <3>1. Closing(s, l, t, n)
      BY <1>0, <1>6, <2>3, CloseEffect
    <3>2. n # 0 /\ s.stack[n].closer = l.head
      BY <1>0, <3>1 DEF Closing
    <3>3. n \in 1 .. n /\ r.stack[n].closer = l.head
      BY <1>1, <1>2, <3>2
    <3>4. Reading(r, l, q, n)
      BY <1>1, <2>1, <2>3, <3>2, <3>3, ReadingEffect, HeadsApart
    <3>5. Len(q.stack) = n - 1 /\ \A k \in 1 .. n - 1 : q.stack[k] = r.stack[k]
      BY <2>3, <3>4 DEF Reading
    <3>6. \A k \in 1 .. n - 1 : t.stack[k].on = s.stack[k].on /\ t.stack[k].ran = s.stack[k].ran
                                /\ t.stack[k].else = s.stack[k].else
      BY <1>0, <3>1 DEF Closing
    <3>7. Kept(r, s, q, t)
      BY <1>1, <1>2, <3>2, <3>5, <3>6 DEF Kept
    <3> QED BY <2>3, <3>7, HeadsApart
  <2>4. CASE l.head \in {"elif", "else"}
    <3>1. Branching(s, l, i, truths, t, n)
      BY <1>0, <1>6, <2>4, BranchEffect
    <3>2. n # 0 /\ s.stack[n].closer = "fi" /\ ~s.stack[n].else
      BY <1>0, <3>1 DEF Branching
    <3>3. n \in 1 .. n /\ r.stack[n].closer = "fi"
      BY <1>1, <1>2, <3>2
    <3>4. Reading(r, l, q, n)
      BY <1>1, <2>1, <2>4, <3>2, <3>3, ReadingEffect, HeadsApart
    <3>5. /\ Len(q.stack) = n /\ \A k \in 1 .. n - 1 : q.stack[k] = r.stack[k]
          /\ l.head = "elif" => q.stack[n].tests = l.tests
      <4>1. CASE l.head = "elif"
        BY <3>4, <4>1 DEF Reading
      <4>2. CASE l.head = "else"
        <5>1. l.head \notin Rc!OPENERS \cup Rc!CLOSERS \cup {"elif"}
          BY <4>2, HeadsApart
        <5> QED BY <1>1, <3>4, <4>2, <5>1 DEF Reading
      <4> QED BY <2>4, <4>1, <4>2
    <3>6. /\ \A k \in 1 .. n - 1 : t.stack[k] = s.stack[k]
          /\ t.stack[n].on = ((l.head = "else" \/ holds) /\ ~s.stack[n].ran)
          /\ t.stack[n].ran = ((l.head = "else" \/ holds) \/ s.stack[n].ran)
          /\ t.stack[n].else = (l.head = "else")
      BY <1>0, <3>1 DEF Branching
    <3>7. TurnedTo(r, s, q, t, l, holds, n)
      BY <1>2, <3>2, <3>3, <3>5, <3>6 DEF TurnedTo
    <3> QED BY <1>6, <2>1, <2>4, <3>7, HeadsApart
  <2>5. CASE l.head \in Rc!Commands
    <3>1. Commanding(s, l, i, truths, t, n)
      BY <1>0, <1>6, <2>5, CommandEffect
    <3>2. l.head \notin Rc!OPENERS \cup Rc!CLOSERS \cup {"elif"} /\ l.head \notin Rc!CLOSERS /\ l.head # "elif"
          /\ l.head \notin Rc!OPENERS /\ l.head \notin {"elif", "else"}
      BY <2>5, HeadsApart
    <3>3. Reading(r, l, q, n)
      BY <1>1, <2>1, <3>2, ReadingEffect
    <3>4. q.stack = r.stack
      BY <3>2, <3>3 DEF Reading
    <3>5. Kept(r, s, q, t)
      BY <1>1, <1>2, <3>1, <3>4 DEF Commanding, Kept
    <3> QED BY <3>2, <3>5
  <2>6. CASE l.head \in Rc!Comments
    <3>1. t = s
      BY <1>0, <1>6, <2>6, CommentEffect
    <3>2. l.head \notin Rc!OPENERS \cup Rc!CLOSERS \cup {"elif"} /\ l.head \notin Rc!OPENERS /\
            l.head \notin {"elif", "else"}
          /\ l.head \notin Rc!CLOSERS /\ l.head # "elif"
      BY <2>6, HeadsApart DEF Rc!Comments, Rc!CLOSERS
    <3>3. Reading(r, l, q, n)
      BY <1>1, <2>1, <3>2, ReadingEffect
    <3>4. q.stack = r.stack
      BY <3>2, <3>3 DEF Reading
    <3>5. Kept(r, s, q, t)
      BY <1>1, <1>2, <3>1, <3>4 DEF Kept
    <3> QED BY <3>2, <3>5
  <2> QED BY <2>2, <2>3, <2>4, <2>5, <2>6, HeadOfLine
<1> QED BY <1>4, <1>5, <1>6

-----------------------------------------------------------------------------
\* The free conditions answer so that the blocks up to one that asks about PATH are run ...
ReachOn(lines, i) ==
  \A c \in 0 .. Len(Rc!Scan(lines)[i].stack) :
    (\A k \in 1 .. c : ~Rc!Scan(lines)[i].stack[k].tests) =>
      \E truths \in SUBSET (Free(lines) \cap 1 .. i - 1) :
        \A k \in 1 .. c : Rc!Sourcing(lines, Rc!Nested, truths)[i].stack[k].on

\* ... and so that they are run and no branch of the next one has been, the else apart.
ReachOff(lines, i) ==
  \A c \in 1 .. Len(Rc!Scan(lines)[i].stack) :
    (\A k \in 1 .. c - 1 : ~Rc!Scan(lines)[i].stack[k].tests) /\ Rc!Scan(lines)[i].stack[c].closer = "fi" =>
      \E truths \in SUBSET (Free(lines) \cap 1 .. i - 1) :
        /\ \A k \in 1 .. c - 1 : Rc!Sourcing(lines, Rc!Nested, truths)[i].stack[k].on
        /\ ~Rc!Sourcing(lines, Rc!Nested, truths)[i].stack[c].ran \/
             Rc!Sourcing(lines, Rc!Nested, truths)[i].stack[c].else

LEMMA RunsDecided ==
  ASSUME NEW lines \in Seq(Rc!Lines), NEW i \in 1 .. Len(lines)
  PROVE  \A truths, others : SameBefore(truths, others, i) =>
           Rc!Sourcing(lines, Rc!Nested, truths)[i] = Rc!Sourcing(lines, Rc!Nested, others)[i]
<1>1. i \in 1 .. Len(lines) + 1 /\ Rc!Nested \in SUBSET Dirs
  BY Paths
<1>2. ASSUME NEW truths, NEW others, SameBefore(truths, others, i)
      PROVE  Rc!Sourcing(lines, Rc!Nested, truths)[i] = Rc!Sourcing(lines, Rc!Nested, others)[i]
  BY <1>1, <1>2, RunDecided
<1> QED BY <1>2

\* A line keeps both: it opens a block, closes one, or turns to a branch that is free to be run.
LEMMA StepReached ==
  ASSUME NEW lines \in Seq(Rc!Lines), Rc!Parses(lines), Rc!OursIsOurs(lines), ~Rc!Replaces(lines),
         NEW i \in 1 .. Len(lines), ReachOn(lines, i), ReachOff(lines, i)
  PROVE  ReachOn(lines, i + 1) /\ ReachOff(lines, i + 1)
<1> DEFINE Run(truths) == Rc!Sourcing(lines, Rc!Nested, truths)[i]
           Ran(truths) == Rc!Sourcing(lines, Rc!Nested, truths)[i + 1]
           r == Rc!Scan(lines)[i]
           q == Rc!Scan(lines)[i + 1]
           l == lines[i]
           n == Len(r.stack)
           F == SUBSET (Free(lines) \cap 1 .. i - 1)
           G == SUBSET (Free(lines) \cap 1 .. (i + 1) - 1)
           managed == i \in Rc!Managed(lines)
           Answers(truths) == Rc!Holds(l, i, Run(truths).path, truths)
<1>1. Len(lines) \in Nat /\ l \in Rc!Lines /\ i \in 1 .. Len(lines) + 1 /\ i + 1 \in 1 .. Len(lines) + 1 /\
        i \in DOMAIN lines
  OBVIOUS
<1>2. \A truths : Ran(truths) = Rc!After(Run(truths), l, i, truths)
  BY <1>1, SourcingSteps
<1>3. q = Rc!Scanned(r, l, managed) /\ managed \in BOOLEAN /\ (managed => OurLine(l))
  <2>1. q = Rc!Scanned(r, l, managed)
    BY <1>1, ScanSteps
  <2>2. managed => OurLine(l)
    BY DEF Rc!OursIsOurs, OurLine
  <2> QED BY <2>1, <2>2
<1>4. \A truths : /\ Run(truths) \in FileShells /\ ~Run(truths).bad /\ ~Ran(truths).bad
                  /\ Synced(r, Run(truths)) /\ "m" \in Run(truths).path
  BY <1>1, RunType, ParsesAnyhow, BadStays, RunSynced, RunKept, Paths
<1>5. \A truths, others : SameBefore(truths, others, i) => Run(truths) = Run(others)
  BY RunsDecided
<1>6. ASSUME NEW truths \in F
      PROVE  /\ truths \in G /\ i \notin truths
             /\ i \in Free(lines) => truths \cup {i} \in G
             /\ Run(truths \cup {i}) = Run(truths)
  <2>1. Run(truths) = Run(truths \cup {i})
    <3>1. SameBefore(truths, truths \cup {i}, i)
      BY <1>1 DEF SameBefore
    <3> QED BY <1>5, <3>1
  <2> QED BY <1>1, <2>1 DEF Free
<1>7. l.tests => \A truths : ~Answers(truths)
  BY <1>4 DEF Rc!Holds
<1>8. ~l.tests => \A truths : Answers(truths) <=> i \in truths
  BY DEF Rc!Holds
<1>9. l.head \in {"if", "elif", "while", "case"} /\ ~l.tests => i \in Free(lines)
  BY <1>1 DEF Free
<1>10. n \in Nat
  BY <1>4 DEF Synced, Scans
<1>on. \A c \in 0 .. n : (\A k \in 1 .. c : ~r.stack[k].tests) =>
         \E truths \in F : \A k \in 1 .. c : Run(truths).stack[k].on
  BY DEF ReachOn
<1>off. \A c \in 1 .. n : (\A k \in 1 .. c - 1 : ~r.stack[k].tests) /\ r.stack[c].closer = "fi" =>
          \E truths \in F : /\ \A k \in 1 .. c - 1 : Run(truths).stack[k].on
                            /\ ~Run(truths).stack[c].ran \/ Run(truths).stack[c].else
  BY DEF ReachOff
<1>a. \A truths : Rc!Holds(l, i, Run(truths).path, truths) <=> Answers(truths)
  OBVIOUS
<1>h. l \in Rc!Lines
  OBVIOUS
<1>g. SUFFICES /\ \A c \in 0 .. Len(q.stack) : (\A k \in 1 .. c : ~q.stack[k].tests) =>
                    \E truths \in G : \A k \in 1 .. c : Ran(truths).stack[k].on
               /\ \A c \in 1 .. Len(q.stack) : (\A k \in 1 .. c - 1 : ~q.stack[k].tests) /\
                    q.stack[c].closer = "fi" =>
                    \E truths \in G : /\ \A k \in 1 .. c - 1 : Ran(truths).stack[k].on
                                      /\ ~Ran(truths).stack[c].ran \/ Ran(truths).stack[c].else
  BY DEF ReachOn, ReachOff
<1>k. r.heredoc \/ managed \/ l.head \notin Rc!OPENERS \cup {"elif", "else"} =>
        \A truths : Kept(r, Run(truths), q, Ran(truths))
  <2> HIDE DEF Run, Ran, r, q, l, managed
  <2> QED BY <1>2, <1>3, <1>4, <1>h, StepFrames
<1>d. ~r.heredoc /\ ~managed /\ l.head \in Rc!OPENERS =>
        \A truths : Deeper(r, Run(truths), q, Ran(truths), l, Answers(truths), n)
  <2> HIDE DEF Run, Ran, r, q, l, managed
  <2> QED BY <1>2, <1>3, <1>4, <1>h, StepFrames
<1>t. ~r.heredoc /\ ~managed /\ l.head \in {"elif", "else"} =>
        \A truths : TurnedTo(r, Run(truths), q, Ran(truths), l, Answers(truths), n)
  <2> HIDE DEF Run, Ran, r, q, l, managed
  <2> QED BY <1>2, <1>3, <1>4, <1>h, StepFrames
<1>x. (l.head = "for" => l.tests = FALSE) /\ l.tests \in BOOLEAN
  BY <1>1 DEF Rc!Lines
<1> HIDE DEF Run, Ran, r, q, l, n, F, G, managed, Answers
<1>11. CASE r.heredoc \/ managed \/ l.head \notin Rc!OPENERS \cup {"elif", "else"}
  <2>1. \A truths : Kept(r, Run(truths), q, Ran(truths))
    BY <1>k, <1>11
  <2>2. /\ Len(q.stack) \in Nat /\ Len(q.stack) <= n
        /\ \A truths : \A k \in 1 .. Len(q.stack) :
             /\ q.stack[k] = r.stack[k] /\ Ran(truths).stack[k].on = Run(truths).stack[k].on
             /\ Ran(truths).stack[k].ran = Run(truths).stack[k].ran
             /\ Ran(truths).stack[k].else = Run(truths).stack[k].else
    BY <2>1 DEF Kept, n
  <2>3. ASSUME NEW c \in 0 .. Len(q.stack), \A k \in 1 .. c : ~q.stack[k].tests
        PROVE  \E truths \in G : \A k \in 1 .. c : Ran(truths).stack[k].on
    <3>1. c \in 0 .. n /\ \A k \in 1 .. c : k \in 1 .. Len(q.stack)
      BY <2>2, <1>10
    <3>2. \A k \in 1 .. c : ~r.stack[k].tests
      BY <2>2, <2>3, <3>1
    <3>3. PICK truths \in F : \A k \in 1 .. c : Run(truths).stack[k].on
      BY <1>on, <3>1, <3>2
    <3>4. \A k \in 1 .. c : Ran(truths).stack[k].on
      BY <2>2, <3>1, <3>3
    <3> QED BY <1>6, <3>4
  <2>4. ASSUME NEW c \in 1 .. Len(q.stack), \A k \in 1 .. c - 1 : ~q.stack[k].tests, q.stack[c].closer = "fi"
        PROVE  \E truths \in G : /\ \A k \in 1 .. c - 1 : Ran(truths).stack[k].on
                                 /\ ~Ran(truths).stack[c].ran \/ Ran(truths).stack[c].else
    <3>1. c \in 1 .. n /\ \A k \in 1 .. c - 1 : k \in 1 .. Len(q.stack)
      BY <2>2, <1>10
    <3>2. (\A k \in 1 .. c - 1 : ~r.stack[k].tests) /\ r.stack[c].closer = "fi"
      BY <2>2, <2>4, <3>1
    <3>3. PICK truths \in F : /\ \A k \in 1 .. c - 1 : Run(truths).stack[k].on
                              /\ ~Run(truths).stack[c].ran \/ Run(truths).stack[c].else
      BY <1>off, <3>1, <3>2
    <3>4. \A k \in 1 .. c - 1 : Ran(truths).stack[k].on
      BY <2>2, <3>1, <3>3
    <3>5. ~Ran(truths).stack[c].ran \/ Ran(truths).stack[c].else
      BY <2>2, <3>3
    <3> QED BY <1>6, <3>4, <3>5
  <2> QED BY <2>3, <2>4
<1>12. CASE ~r.heredoc /\ ~managed /\ l.head \in Rc!OPENERS
  <2>1. \A truths : Deeper(r, Run(truths), q, Ran(truths), l, Answers(truths), n)
    BY <1>d, <1>12
  <2>2. /\ Len(q.stack) = n + 1 /\ q.stack[n + 1].tests = l.tests /\ q.stack[n + 1].closer = Rc!CloserOf[l.head]
        /\ \A k \in 1 .. n : q.stack[k] = r.stack[k]
        /\ \A truths : \A k \in 1 .. n : Ran(truths).stack[k] = Run(truths).stack[k]
        /\ \A truths : Ran(truths).stack[n + 1].on = (l.head = "for" \/ Answers(truths))
        /\ \A truths : Ran(truths).stack[n + 1].ran = (l.head = "for" \/ Answers(truths))
    BY <2>1 DEF Deeper
  <2>3. ASSUME NEW c \in 0 .. n + 1, \A k \in 1 .. c : ~q.stack[k].tests
        PROVE  \E truths \in G : \A k \in 1 .. c : Ran(truths).stack[k].on
    <3>1. CASE c \in 0 .. n
      <4>a. \A k \in 1 .. c : k \in 1 .. n
        BY <1>10, <3>1
      <4>1. \A k \in 1 .. c : k \in 1 .. n /\ ~r.stack[k].tests
        BY <2>2, <2>3, <4>a
      <4>2. PICK truths \in F : \A k \in 1 .. c : Run(truths).stack[k].on
        BY <1>on, <3>1, <4>1
      <4>3. \A k \in 1 .. c : Ran(truths).stack[k].on
        BY <2>2, <4>1, <4>2
      <4> QED BY <1>6, <4>3
    <3>2. CASE c = n + 1
      <4>1. /\ n \in 0 .. n /\ \A k \in 1 .. n : ~r.stack[k].tests
            /\ ~l.tests /\ \A k \in 1 .. c : k \in 1 .. n \/ k = n + 1
        <5>1. n + 1 \in 1 .. c /\ \A k \in 1 .. n : k \in 1 .. c
          BY <1>10, <3>2
        <5> QED BY <1>10, <2>2, <2>3, <3>2, <5>1
      <4>2. PICK truths \in F : \A k \in 1 .. n : Run(truths).stack[k].on
        BY <1>on, <4>1
      <4>3. CASE l.head = "for"
        <5>1. \A k \in 1 .. c : Ran(truths).stack[k].on
          BY <2>2, <4>1, <4>2, <4>3
        <5> QED BY <1>6, <5>1
      <4>4. CASE l.head # "for"
        <5>1. i \in Free(lines)
          BY <1>9, <1>12, <4>1, <4>4, HeadsApart
        <5> DEFINE more == truths \cup {i}
        <5>2. more \in G /\ Run(more) = Run(truths) /\ i \in more
          BY <1>6, <5>1
        <5> HIDE DEF more
        <5>3. Answers(more)
          BY <1>8, <4>1, <5>2
        <5>5. \A k \in 1 .. n : Ran(more).stack[k].on
          BY <2>2, <4>2, <5>2
        <5>6. Ran(more).stack[n + 1].on
          BY <2>2, <5>3
        <5>4. \A k \in 1 .. c : Ran(more).stack[k].on
          BY <4>1, <5>5, <5>6
        <5> QED BY <5>2, <5>4
      <4> QED BY <4>3, <4>4
    <3> QED BY <1>10, <3>1, <3>2
  <2>4. ASSUME NEW c \in 1 .. n + 1, \A k \in 1 .. c - 1 : ~q.stack[k].tests, q.stack[c].closer = "fi"
        PROVE  \E truths \in G : /\ \A k \in 1 .. c - 1 : Ran(truths).stack[k].on
                                 /\ ~Ran(truths).stack[c].ran \/ Ran(truths).stack[c].else
    <3>0. \A k \in 1 .. c - 1 : k \in 1 .. n /\ ~r.stack[k].tests
      BY <1>10, <2>2, <2>4
    <3>1. CASE c \in 1 .. n
      <4>1. r.stack[c].closer = "fi"
        BY <2>2, <2>4, <3>1
      <4>2. PICK truths \in F : /\ \A k \in 1 .. c - 1 : Run(truths).stack[k].on
                                /\ ~Run(truths).stack[c].ran \/ Run(truths).stack[c].else
        BY <1>off, <3>0, <3>1, <4>1
      <4>3. \A k \in 1 .. c - 1 : Ran(truths).stack[k].on
        BY <2>2, <3>0, <4>2
      <4>4. ~Ran(truths).stack[c].ran \/ Ran(truths).stack[c].else
        BY <2>2, <3>1, <4>2
      <4> QED BY <1>6, <4>3, <4>4
    <3>2. CASE c = n + 1
      <4>1. n \in 0 .. n /\ c - 1 = n
        BY <1>10, <3>2
      <4>2. PICK truths \in F : \A k \in 1 .. n : Run(truths).stack[k].on
        BY <1>on, <3>0, <4>1
      <4>3. l.head # "for"
        <5>1. Rc!CloserOf["for"] = "done"
          BY DEF Rc!CloserOf
        <5> QED BY <2>2, <2>4, <3>2, <5>1
      <4>4. ~Answers(truths)
        BY <1>6, <1>7, <1>8, <1>x
      <4>5. \A k \in 1 .. c - 1 : Ran(truths).stack[k].on
        BY <2>2, <3>0, <4>1, <4>2
      <4>6. ~Ran(truths).stack[c].ran
        BY <2>2, <3>2, <4>3, <4>4
      <4> QED BY <1>6, <4>5, <4>6
    <3> QED BY <1>10, <3>1, <3>2
  <2> QED BY <2>2, <2>3, <2>4
<1>13. CASE ~r.heredoc /\ ~managed /\ l.head \in {"elif", "else"}
  <2>1. \A truths : TurnedTo(r, Run(truths), q, Ran(truths), l, Answers(truths), n)
    BY <1>t, <1>13
  <2>2. /\ n # 0 /\ Len(q.stack) = n /\ r.stack[n].closer = "fi" /\
             (l.head = "elif" => q.stack[n].tests = l.tests)
        /\ \A k \in 1 .. n - 1 : q.stack[k] = r.stack[k]
        /\ \A truths : \A k \in 1 .. n - 1 : Ran(truths).stack[k] = Run(truths).stack[k]
        /\ \A truths : /\ ~Run(truths).stack[n].else
                       /\ Ran(truths).stack[n].on =
                            ((l.head = "else" \/ Answers(truths)) /\ ~Run(truths).stack[n].ran)
                       /\ Ran(truths).stack[n].ran =
                            ((l.head = "else" \/ Answers(truths)) \/ Run(truths).stack[n].ran)
                       /\ Ran(truths).stack[n].else = (l.head = "else")
    BY <2>1 DEF TurnedTo
  <2>a. ASSUME \A k \in 1 .. n - 1 : ~q.stack[k].tests
        PROVE  \E truths \in F : /\ \A k \in 1 .. n - 1 : Ran(truths).stack[k].on /\ Run(truths).stack[k].on
                                 /\ ~Run(truths).stack[n].ran
    <3>1. n \in 1 .. n /\ \A k \in 1 .. n - 1 : ~r.stack[k].tests
      BY <1>10, <2>2, <2>a
    <3>2. PICK truths \in F : /\ \A k \in 1 .. n - 1 : Run(truths).stack[k].on
                              /\ ~Run(truths).stack[n].ran \/ Run(truths).stack[n].else
      BY <1>off, <2>2, <3>1
    <3>3. \A k \in 1 .. n - 1 : Ran(truths).stack[k].on
      BY <2>2, <3>2
    <3> QED BY <2>2, <3>2, <3>3
  <2>3. ASSUME NEW c \in 0 .. n, \A k \in 1 .. c : ~q.stack[k].tests
        PROVE  \E truths \in G : \A k \in 1 .. c : Ran(truths).stack[k].on
    <3>1. CASE c \in 0 .. n - 1
      <4>1. \A k \in 1 .. c : k \in 1 .. n - 1 /\ ~r.stack[k].tests
        BY <1>10, <2>2, <2>3, <3>1
      <4>2. c \in 0 .. n
        BY <1>10, <3>1
      <4>3. PICK truths \in F : \A k \in 1 .. c : Run(truths).stack[k].on
        BY <1>on, <4>1, <4>2
      <4>4. \A k \in 1 .. c : Ran(truths).stack[k].on
        BY <2>2, <4>1, <4>3
      <4> QED BY <1>6, <4>4
    <3>2. CASE c = n
      <4>1. /\ \A k \in 1 .. n - 1 : ~q.stack[k].tests
            /\ ~q.stack[n].tests /\ \A k \in 1 .. c : k \in 1 .. n - 1 \/ k = n
        <5>1. n \in 1 .. c /\ \A k \in 1 .. n - 1 : k \in 1 .. c
          BY <1>10, <2>2, <3>2
        <5> QED BY <1>10, <2>3, <3>2, <5>1
      <4>2. PICK truths \in F : /\ \A k \in 1 .. n - 1 : Ran(truths).stack[k].on /\ Run(truths).stack[k].on
                                /\ ~Run(truths).stack[n].ran
        BY <2>a, <4>1
      <4>3. CASE l.head = "else"
        <5>1. \A k \in 1 .. c : Ran(truths).stack[k].on
          BY <2>2, <4>1, <4>2, <4>3
        <5> QED BY <1>6, <5>1
      <4>4. CASE l.head = "elif"
        <5>1. ~l.tests /\ i \in Free(lines)
          BY <1>9, <2>2, <4>1, <4>4
        <5> DEFINE more == truths \cup {i}
        <5>2. more \in G /\ Run(more) = Run(truths) /\ i \in more
          BY <1>6, <5>1
        <5> HIDE DEF more
        <5>3. Answers(more)
          BY <1>8, <5>1, <5>2
        <5>4. \A k \in 1 .. n - 1 : Ran(more).stack[k].on
          BY <2>2, <4>2, <5>2
        <5>5. Ran(more).stack[n].on
          BY <2>2, <4>2, <5>2, <5>3
        <5>6. \A k \in 1 .. c : Ran(more).stack[k].on
          BY <4>1, <5>4, <5>5
        <5> QED BY <5>2, <5>6
      <4> QED BY <1>13, <4>3, <4>4
    <3> QED BY <1>10, <3>1, <3>2
  <2>4. ASSUME NEW c \in 1 .. n, \A k \in 1 .. c - 1 : ~q.stack[k].tests, q.stack[c].closer = "fi"
        PROVE  \E truths \in G : /\ \A k \in 1 .. c - 1 : Ran(truths).stack[k].on
                                 /\ ~Ran(truths).stack[c].ran \/ Ran(truths).stack[c].else
    <3>1. CASE c \in 1 .. n - 1
      <4>1. r.stack[c].closer = "fi" /\ c \in 1 .. n /\ \A k \in 1 .. c - 1 : k \in 1 .. n - 1 /\
              ~r.stack[k].tests
        BY <1>10, <2>2, <2>4, <3>1
      <4>2. PICK truths \in F : /\ \A k \in 1 .. c - 1 : Run(truths).stack[k].on
                                /\ ~Run(truths).stack[c].ran \/ Run(truths).stack[c].else
        BY <1>off, <4>1
      <4>3. \A k \in 1 .. c - 1 : Ran(truths).stack[k].on
        BY <2>2, <4>1, <4>2, SMTT(30)
      <4>4. ~Ran(truths).stack[c].ran \/ Ran(truths).stack[c].else
        BY <2>2, <3>1, <4>2
      <4> QED BY <1>6, <4>3, <4>4
    <3>2. CASE c = n
      <4>1. PICK truths \in F : /\ \A k \in 1 .. n - 1 : Ran(truths).stack[k].on /\ Run(truths).stack[k].on
                                /\ ~Run(truths).stack[n].ran
        BY <2>4, <2>a, <3>2
      <4>2. ~Answers(truths)
        BY <1>6, <1>7, <1>8, <1>x
      <4>3. ~Ran(truths).stack[n].ran \/ Ran(truths).stack[n].else
        BY <2>2, <4>1, <4>2
      <4> QED BY <1>6, <3>2, <4>1, <4>3
    <3> QED BY <1>10, <3>1, <3>2
  <2> QED BY <2>2, <2>3, <2>4
<1> QED BY <1>11, <1>12, <1>13

LEMMA Reached ==
  ASSUME NEW lines \in Seq(Rc!Lines), Rc!Parses(lines), Rc!OursIsOurs(lines), ~Rc!Replaces(lines),
         NEW i \in 1 .. Len(lines) + 1
  PROVE  ReachOn(lines, i)
<1> DEFINE S == {k \in 1 .. Len(lines) + 1 : ReachOn(lines, k) /\ ReachOff(lines, k)}
<1>1. Len(lines) \in Nat
  OBVIOUS
<1>2. 1 \in S
  <2>1. Rc!Scan(lines)[1] = Rc!Unread
    BY <1>1, ScanSteps
  <2>2. Len(Rc!Unread.stack) = 0
    BY DEF Rc!Unread
  <2>3. ReachOn(lines, 1) /\ ReachOff(lines, 1)
    <3>1. {} \in SUBSET (Free(lines) \cap 1 .. 1 - 1)
      OBVIOUS
    <3>2. ReachOn(lines, 1)
      <4> SUFFICES ASSUME NEW c \in 0 .. Len(Rc!Scan(lines)[1].stack)
                   PROVE  \E truths \in SUBSET (Free(lines) \cap 1 .. 1 - 1) :
                            \A k \in 1 .. c : Rc!Sourcing(lines, Rc!Nested, truths)[1].stack[k].on
        BY DEF ReachOn
      <4>1. \A k \in 1 .. c : Rc!Sourcing(lines, Rc!Nested, {})[1].stack[k].on
        BY <2>1, <2>2
      <4> QED BY <3>1, <4>1
    <3>3. ReachOff(lines, 1)
      BY <2>1, <2>2 DEF ReachOff
    <3> QED BY <3>2, <3>3
  <2> QED BY <1>1, <2>3
<1>3. ASSUME NEW k \in 1 .. Len(lines), k \in S PROVE k + 1 \in S
  <2>1. ReachOn(lines, k + 1) /\ ReachOff(lines, k + 1)
    BY <1>3, StepReached
  <2> QED BY <1>1, <2>1
<1>4. 1 .. Len(lines) + 1 \subseteq S
  <2> HIDE DEF S
  <2> QED BY <1>1, <1>2, <1>3, Induction
<1> QED BY <1>4

-----------------------------------------------------------------------------
\* A line that is reported adds a directory again, where the conditions around it are answered so.
LEMMA WriterAddsAgain ==
  ASSUME NEW lines \in Seq(Rc!Lines), Rc!Parses(lines), Rc!OursIsOurs(lines), ~Rc!Stale(lines),
           ~Rc!Replaces(lines),
         NEW i \in Rc!Indices(Rc!Writers(lines))
  PROVE  \E truths \in Rc!Truths(lines) :
           i \in 1 .. Len(lines) /\ Again(Rc!Sourcing(lines, Rc!Nested, truths)[i], lines[i], i, truths)
<1> DEFINE l == lines[i]
           r == Rc!Scan(lines)[i]
           Run(truths) == Rc!Sourcing(lines, Rc!Nested, truths)[i]
<1>1. Written(lines, i) /\ ~Rc!PresenceGuarded(r, l) /\ "m" \in Rc!Targets(l, r)
  BY WriterLines
<1>2. i \in 1 .. Len(lines) /\ i \in DOMAIN lines /\ i \in 1 .. Len(lines) + 1 /\ l \in Rc!Lines
  BY <1>1 DEF Written
<1>3. l.head = "write" /\ l.form \notin {"prefix", "case"} /\ ~r.heredoc
  BY <1>1 DEF Written
<1>4. \A truths : /\ Run(truths) \in FileShells /\ ~Run(truths).bad /\ Synced(r, Run(truths))
                  /\ r.local = Run(truths).b /\ "m" \in Run(truths).path
  BY <1>2, RunType, ParsesAnyhow, BadStays, RunSynced, RunKept, Paths
<1>5. l.form \in {"and", "if"} => ~l.tests
  BY <1>1 DEF Rc!Targets, Rc!PresenceGuarded
<1>6. "PATH" \in Rc!Range(l.value)
  BY <1>2, <1>3 DEF Rc!Replaces, Rc!Replaced
<1>7. r \in Scans
  BY <1>4 DEF Synced
<1>8. PICK truths \in SUBSET (Free(lines) \cap 1 .. i - 1) : \A k \in 1 .. Len(r.stack) : Run(truths).stack[k].on
  <2>1. Len(r.stack) \in 0 .. Len(r.stack) /\ \A k \in 1 .. Len(r.stack) : ~r.stack[k].tests
    BY <1>1, <1>7 DEF Rc!PresenceGuarded, Scans
  <2> QED BY <1>2, <2>1, Reached DEF ReachOn
<1> DEFINE more == IF l.form \in {"and", "if"} THEN truths \cup {i} ELSE truths
<1>9. more \in Rc!Truths(lines)
  <2>1. l.form \in {"and", "if"} => i \in Free(lines)
    BY <1>2, <1>5 DEF Free
  <2>2. Rc!Truths(lines) = SUBSET Free(lines)
    BY DEF Rc!Truths, Free
  <2> QED BY <2>1, <2>2
<1>10. Run(more) = Run(truths)
  <2>1. SameBefore(truths, more, i)
    BY <1>2 DEF SameBefore
  <2> HIDE DEF more
  <2> QED BY <1>2, <2>1, RunsDecided
<1>11. l.form \in {"and", "if"} => i \in more
  OBVIOUS
<1> DEFINE s == Run(more)
<1>12. s \in FileShells /\ ~s.bad /\ Synced(r, s) /\ r.local = s.b /\ "m" \in s.path
  BY <1>4
<1>13. \A k \in 1 .. Len(r.stack) : s.stack[k].on
  BY <1>8, <1>10
<1> HIDE DEF more, Run
<1>14. Again(s, l, i, more)
  <2> HIDE DEF s, l, r
  <2>1. ~s.heredoc
    BY <1>3, <1>12 DEF Synced
  <2>2. Rc!Running(s)
    <3>1. DOMAIN s.stack = 1 .. Len(s.stack) /\ Len(s.stack) = Len(r.stack)
      BY <1>12 DEF Synced, FileShells
    <3> QED BY <1>13, <3>1 DEF Rc!Running
  <2>3. l.form \in {"and", "if", "case"} => Rc!Holds(l, i, s.path, more)
    BY <1>3, <1>5, <1>11 DEF Rc!Holds
  <2>4. Writes(s, l, i, more)
    BY <1>3, <2>2, <2>3 DEF Writes, Does
  <2>5. "m" \in Rc!Added(l.value, s.b)
    <3>1. r.local \in {"m", "n", "v"}
      BY <1>7 DEF Scans
    <3>2. "m" \in {Rc!Expand(x, r.local) : x \in {x \in Rc!Range(l.value) : x # "PATH" /\ Rc!Known(x, r.local)}}
      BY <1>1 DEF Rc!Targets
    <3>3. "m" \in Rc!Added(l.value, r.local)
      BY <3>1, <3>2 DEF Rc!Added, Rc!Expand, Rc!Known
    <3> QED BY <1>12, <3>3
  <2> QED BY <1>6, <1>12, <2>1, <2>4, <2>5 DEF Again
<1> QED BY <1>2, <1>9, <1>14 DEF Run

\* The report: those lines and no others.
LEMMA ReportingIsTrue ==
  ASSUME NEW lines \in Seq(Rc!Lines), Rc!Parses(lines), Rc!OursIsOurs(lines)
  PROVE  Rc!ReportIsTrue(lines, Rc!Indices(Rc!Writers(lines)))
<1> SUFFICES ASSUME ~Rc!Stale(lines), ~Rc!ElseOfTest(lines), ~Rc!Replaces(lines)
             PROVE  Rc!Indices(Rc!Writers(lines)) =
                      UNION {Rc!Sourced(lines, Rc!Nested, truths).again : truths \in Rc!Truths(lines)}
  BY DEF Rc!ReportIsTrue
<1>1. Len(lines) \in Nat /\ Len(lines) + 1 \in 1 .. Len(lines) + 1
  OBVIOUS
<1>2. ASSUME NEW truths, NEW i
      PROVE  i \in Rc!Sourced(lines, Rc!Nested, truths).again <=>
               i \in 1 .. Len(lines) /\ Again(Rc!Sourcing(lines, Rc!Nested, truths)[i], lines[i], i, truths)
  <2>1. Rc!Sourced(lines, Rc!Nested, truths).again =
          {k \in 1 .. (Len(lines) + 1) - 1 : Again(Rc!Sourcing(lines, Rc!Nested, truths)[k], lines[k], k,
            truths)}
    BY <1>1, Paths, SourcedParts, AgainAt
  <2>2. (Len(lines) + 1) - 1 = Len(lines)
    BY <1>1
  <2> QED BY <2>1, <2>2
<1>3. ASSUME NEW truths \in Rc!Truths(lines), NEW i \in Rc!Sourced(lines, Rc!Nested, truths).again
      PROVE  i \in Rc!Indices(Rc!Writers(lines))
  BY <1>2, AddsAgainIsWriter
<1>4. ASSUME NEW i \in Rc!Indices(Rc!Writers(lines))
      PROVE  \E truths \in Rc!Truths(lines) : i \in Rc!Sourced(lines, Rc!Nested, truths).again
  BY <1>2, WriterAddsAgain
<1> QED BY <1>3, <1>4

\* The three of them, of any file.
LEMMA FilesJudged ==
  ASSUME NEW lines \in Seq(Rc!Lines)
  PROVE  Rc!LinesAreJudged(lines, [stripped |-> Rc!StripLines(lines), guarded |-> Rc!GuardWriters(lines),
                                reported |-> Rc!Indices(Rc!Writers(lines))])
<1> DEFINE stripped == Rc!StripLines(lines)
           guarded == Rc!GuardWriters(lines)
           reported == Rc!Indices(Rc!Writers(lines))
           verdict == [stripped |-> stripped, guarded |-> guarded, reported |-> reported]
<1>1. Rc!Parses(lines) /\ Rc!OursIsOurs(lines) =>
        Rc!StripIsSafe(lines, stripped) /\ Rc!GuardIsSafe(lines, guarded) /\ Rc!ReportIsTrue(lines, reported)
  BY StrippingIsSafe, GuardingIsSafe, ReportingIsTrue
<1>2. verdict.stripped = stripped /\ verdict.guarded = guarded /\ verdict.reported = reported
  OBVIOUS
<1> HIDE DEF stripped, guarded, reported, verdict
<1>3. Rc!LinesAreJudged(lines, verdict)
  BY <1>1, <1>2 DEF Rc!LinesAreJudged
<1> QED BY <1>3 DEF verdict, stripped, guarded, reported

(***************************************************************************)
(* Of every startup file a shell reads: the cleanup and the guard leave it *)
(* one the shell reads, and with the same directories on PATH; and the     *)
(* lines reported are those that put a managed directory on PATH again     *)
(* (rcclean.py, shellrc.py), but for what the exceptions name, and however *)
(* many lines there are and however they are nested.                       *)
(***************************************************************************)
THEOREM LinesAlwaysJudged == QuestionsSpec => []LinesAreJudged
<1>1. AnswersAsDefined => LinesAreJudged
  <2> SUFFICES ASSUME AnswersAsDefined, Answered("file")
               PROVE  Rc!LinesAreJudged(asked.lines, answer)
    BY DEF LinesAreJudged
  <2>1. AskFile(asked)
    BY DEF AnswersAsDefined, Answered, Asks, AskOwner, AskGlobals, AskShim, AskLine
  <2>2. asked.lines \in Seq(Rc!Lines)
    BY <2>1, StartupFilesAssumption DEF AskFile
  <2> QED BY <2>2, FilesJudged DEF AnswersAsDefined
<1> QED BY <1>1, AnswersInvariant, PTL
=============================================================================
