------------------------------- MODULE Ownership -------------------------------
(***************************************************************************)
(* Who owns the copy of a tool that runs (installer/ownership.py,          *)
(* resolve_ownership, over installer/install_ownership.py and the methods  *)
(* installer/resolve.py finds applicable): a pure function of what is on   *)
(* the machine and of what each manager answered.                          *)
(*                                                                         *)
(* A machine m is a record: the tool's declared kinds of method (and       *)
(* whether a script or SDKMAN method declares its bin_dir), the host, the  *)
(* copies of its command by place, each with who brought it, the copy PATH *)
(* finds, and the managers whose listing could be read.  resolve_ownership *)
(* sees the places and the listings, never who brought a copy.             *)
(***************************************************************************)
CONSTANT None

Kinds == {"download", "app", "script", "brew", "cask", "node", "uv-tool", "sdkman",
          "native", "host_setup"}

\* Where a copy of the command can be, as a resolved path.
Places == {"bin", "apps", "prefix", "cellar", "caskroom", "pnpm", "uvdir", "volta", "sdk",
           "vendor", "usr", "home"}

Listings == {"brew", "cask", "pnpm", "uv", "prefix"}

(***************************************************************************)
(* Who can have brought the copy at a place.  "other formula" is a formula *)
(* the tool does not declare, "gone" a pnpm shim whose package was         *)
(* removed, "base" a package of another name than the declared one.  A cask  *)
(* the tool does not declare is left out.                                  *)
(***************************************************************************)
Bringers(kinds, host, place) ==
  CASE place = "bin"      -> {"user"} \cup (IF "download" \in kinds THEN {"installer"} ELSE {})
    [] place = "apps"     -> {"user"} \cup (IF "app" \in kinds THEN {"installer"} ELSE {})
                             \cup (IF host.os = "macos" /\ host.brew /\ "cask" \in kinds
                                     THEN {"cask"} ELSE {})
    [] place = "prefix"   -> IF host.brew THEN {"user"} ELSE {}
    [] place = "cellar"   -> IF host.brew THEN {"other formula"} \cup (kinds \cap {"brew"}) ELSE {}
    [] place = "caskroom" -> IF host.brew /\ "cask" \in kinds THEN {"cask"} ELSE {}
    [] place = "pnpm"     -> {"pnpm", "gone"}
    [] place = "uvdir"    -> {"uv"}
    [] place = "volta"    -> {"volta"}
    [] place = "sdk"      -> kinds \cap {"sdkman"}
    [] place = "vendor"   -> kinds \cap {"script"}
    [] place = "usr"      -> IF host.os = "macos" THEN {"user"}
                             ELSE {"base", "user"}
                                  \cup (IF "native" \in kinds THEN {"native"} ELSE {})
                                  \cup (IF "native" \in kinds /\ host.immutable
                                          THEN {"layered"} ELSE {})
    [] place = "home"     -> {"user"}

At(m, place, who) == place \in DOMAIN m.copies /\ m.copies[place] \in who
Has(m, kind)      == kind \in m.tool.kinds

-----------------------------------------------------------------------------
(***************************************************************************)
(* The methods that count.                                                 *)
(***************************************************************************)
\* resolve._applies; the tool's brew method may be built for another architecture.
Applies(m, kind) ==
  /\ Has(m, kind)
  /\ kind = "brew"   => m.host.brew /\ ~m.tool.otherArch
  /\ kind = "cask"   => m.host.brew /\ m.host.os = "macos"
  /\ kind = "native" => m.host.os = "linux" /\ ~m.host.immutable

\* A declared Homebrew method that does not apply is still evidence of ownership.
OwnershipOnly(m, kind) ==
  kind \in {"brew", "cask"} /\ Has(m, kind) /\ m.host.brew /\ ~Applies(m, kind)

Counts(m, kind) == Applies(m, kind) \/ OwnershipOnly(m, kind)

ManagerOf == [k \in {"brew", "cask", "node", "uv-tool"} |->
                CASE k = "node" -> "pnpm" [] k = "uv-tool" -> "uv" [] OTHER -> k]

-----------------------------------------------------------------------------
(***************************************************************************)
(* Evidence.                                                               *)
(***************************************************************************)
Listed(m, manager) ==
  /\ manager \in m.readable
  /\ CASE manager = "brew" -> At(m, "cellar", {"brew"})
       [] manager = "cask" -> At(m, "apps", {"cask"}) \/ At(m, "caskroom", {"cask"})
       [] manager = "pnpm" -> At(m, "pnpm", {"pnpm"})
       [] manager = "uv"   -> At(m, "uvdir", {"uv"})

\* plan_uninstall: what is where the installer's methods would put it, by whomever.
Artifact(m) == \/ Has(m, "download") /\ "bin" \in DOMAIN m.copies
               \/ Has(m, "app") /\ "apps" \in DOMAIN m.copies

\* _location_proof, for the kinds with no inventory.
Located(m, owner) ==
  IF owner = "sdkman" THEN Applies(m, "sdkman") /\ m.tool.binDir /\ "sdk" \in DOMAIN m.copies
  ELSE Applies(m, "script") /\ m.tool.binDir /\ "vendor" \in DOMAIN m.copies

DeclaredCandidates(m) ==
  {o \in {"installer", "sdkman"} : Located(m, o) \/ (o = "installer" /\ Artifact(m))}
  \cup {ManagerOf[k] : k \in {k \in DOMAIN ManagerOf : Counts(m, k) /\ Listed(m, ManagerOf[k])}}

\* _undeclared_brew_candidate: the active path, brew's link, or a keg-only formula's.
CellarProof(m) ==
  /\ "brew" \notin DeclaredCandidates(m) /\ {"brew", "prefix"} \subseteq m.readable
  /\ "cellar" \in DOMAIN m.copies

Candidates(m) == DeclaredCandidates(m) \cup (IF CellarProof(m) THEN {"brew"} ELSE {})

Unreadable(m) ==
  {ManagerOf[k] : k \in {k \in DOMAIN ManagerOf : Counts(m, k)}} \ m.readable

\* owner_dirs and attribute_path: the owners whose directories hold the place.
Attributed(m, place) ==
  CASE place = "bin"    -> {"installer"}
    [] place = "apps"   -> {"installer", "cask"}
    [] place \in {"prefix", "cellar", "caskroom"} ->
         IF "prefix" \in m.readable THEN {"brew", "cask"} ELSE {}
    [] place = "pnpm"   -> {"pnpm"}
    [] place = "uvdir"  -> IF "uv" \in m.readable THEN {"uv"} ELSE {}
    [] place = "volta"  -> {"volta"}
    [] place = "sdk"    -> IF Located(m, "sdkman") THEN {"sdkman"} ELSE {}
    [] place = "vendor" -> IF Located(m, "script") THEN {"installer"} ELSE {}
    [] OTHER            -> {}

\* Candidates proven by a place other than the active path's: they block nothing below.
Shadows(m) ==
  IF m.active = None THEN {}
  ELSE (IF CellarProof(m) /\ m.active # "cellar" THEN {"brew"} ELSE {})
       \cup {o \in Candidates(m) \cap {"installer", "sdkman"} :
               /\ Located(m, o) /\ ~(o = "installer" /\ Artifact(m))
               /\ o \notin Attributed(m, m.active)}

\* An app or a cask is installed as a bundle; a script also at its detect_path.
IsInstalled(m) ==
  \/ m.active # None
  \/ Has(m, "script") /\ "vendor" \in DOMAIN m.copies
  \/ Has(m, "download") /\ "bin" \in DOMAIN m.copies
  \/ (Has(m, "app") \/ Has(m, "cask")) /\ "apps" \in DOMAIN m.copies

-----------------------------------------------------------------------------
(***************************************************************************)
(* The operating system's package database (install_ownership).           *)
(***************************************************************************)
\* detect_owner: the first probe that verifies; dnf, apt and pacman stand down on ostree.
Detected(m) ==
  CASE Has(m, "host_setup") /\ At(m, "pnpm", {"pnpm"})                    -> "pnpm"
    [] Has(m, "native") /\ ~m.host.immutable /\ At(m, "usr", {"native"})  -> "native"
    [] Has(m, "native") /\ At(m, "usr", {"layered"})                      -> "rpm-ostree"
    [] OTHER                                                              -> None

\* package_owns_path: a declared package owns the file that runs.
PackageOwnsPath(m) == m.active = "usr" /\ At(m, "usr", {"native", "layered"})

\* path_owner_package: any one package does.
PathOwnerPackage(m) == m.active = "usr" /\ At(m, "usr", {"native", "layered", "base"})

-----------------------------------------------------------------------------
(***************************************************************************)
(* The answer.                                                             *)
(***************************************************************************)
Owned(owner, confidence, candidates) ==
  [owner |-> owner, confidence |-> confidence, candidates |-> candidates]

One(owners) == \E o \in owners : owners = {o}

Unknown(m) == Owned("unknown", "none", Candidates(m))

Matching(m) == IF m.active = None THEN {} ELSE Candidates(m) \cap Attributed(m, m.active)

NativeOwner(m) ==
  CASE Detected(m) = "pnpm" ->
         IF m.active # None /\ "pnpm" \in Attributed(m, m.active) THEN "pnpm" ELSE None
    [] Detected(m) \in {"native", "rpm-ostree"} ->
         IF m.active = None \/ PackageOwnsPath(m) THEN Detected(m) ELSE None
    [] OTHER -> None

\* The negative evidence is complete: no candidate that counts, no listing missing.
NobodyTracked(m) == Candidates(m) \subseteq Shadows(m) /\ Unreadable(m) = {}

\* Nothing on PATH: the one candidate, or a vendor's script that is installed.
ByElimination(m) ==
  CASE Unreadable(m) # {} -> Unknown(m)
    [] Unreadable(m) = {} /\ One(Candidates(m)) ->
         Owned(CHOOSE c \in Candidates(m) : TRUE, "by-elimination", Candidates(m))
    [] Unreadable(m) = {} /\ Candidates(m) = {} /\ Applies(m, "script") /\ IsInstalled(m) ->
         Owned("installer", "by-elimination", {"installer"})
    [] OTHER -> Unknown(m)

\* Mutant of ResolveOwnership: the package database is asked if a package is installed,
\* not if it owns the file that runs.
ResolveInstalledPackage(m) ==
  CASE One(Matching(m)) ->
         Owned(CHOOSE c \in Matching(m) : TRUE, "direct", Candidates(m))
    [] ~One(Matching(m)) /\ NobodyTracked(m) /\ Detected(m) # None ->
         Owned(Detected(m), "direct", {Detected(m)} \cup Shadows(m))
    [] OTHER -> Unknown(m)

ResolveOwnership(m) ==
  CASE m.active = "volta" ->
         Owned("volta", "direct", Candidates(m) \cup {"volta"})
    [] m.active # "volta" /\ One(Matching(m)) ->
         Owned(CHOOSE c \in Matching(m) : TRUE, "direct", Candidates(m))
    [] m.active # "volta" /\ ~One(Matching(m)) ->
         IF NobodyTracked(m) /\ NativeOwner(m) # None
           THEN Owned(NativeOwner(m), "direct", {NativeOwner(m)} \cup Shadows(m))
         ELSE IF NobodyTracked(m) /\ PathOwnerPackage(m)
           THEN Owned("os-package", "direct", {"os-package"} \cup Shadows(m))
         ELSE IF m.active # None THEN Unknown(m) ELSE ByElimination(m)

-----------------------------------------------------------------------------
(***************************************************************************)
(* What is true of the machine.                                            *)
(***************************************************************************)
\* The owner of a copy, in the words of the answer.
TrueOwner(m, place) ==
  LET by == m.copies[place] IN
  CASE by \in {"installer", "script"}   -> "installer"
    [] by \in {"brew", "other formula"} -> "brew"
    [] by = "gone"                      -> "pnpm"
    [] by = "layered"                   -> "rpm-ostree"
    [] by = "native" /\ m.host.immutable -> "os-package"
    [] by = "base"                      -> "os-package"
    [] OTHER                            -> by

\* A file of the user's own in a directory that counts as somebody's.
Strayed(m, place) == m.copies[place] = "user" /\ Attributed(m, place) # {}

(***************************************************************************)
(* Direct evidence is about the copy that runs: it is the owner's own      *)
(* (ownership.py: it "must never rest on evidence about a different        *)
(* file").  It says nothing of a user's own file in a directory that is    *)
(* taken for an owner's, nor where a listing that matters was not read.    *)
(***************************************************************************)
DirectIsTrue(m, a) ==
  a.confidence = "direct" /\ m.active # None /\ Unreadable(m) = {} /\ ~Strayed(m, m.active) =>
    TrueOwner(m, m.active) = a.owner

\* The managers the tool's methods name.
Competing(m) ==
  {ManagerOf[k] : k \in {k \in DOMAIN ManagerOf : Counts(m, k)}}
  \cup (IF \E k \in {"download", "app", "script"} : Applies(m, k) THEN {"installer"} ELSE {})
  \cup (IF Applies(m, "sdkman") THEN {"sdkman"} ELSE {})

(***************************************************************************)
(* An owner found by elimination is the only one there is: no copy that    *)
(* another of the tool's declared methods brought is on the machine.  A    *)
(* script or SDKMAN method that does not declare its directory leaves no   *)
(* trace to look for, and its copy is not counted.                         *)
(***************************************************************************)
EliminationIsSound(m, a) ==
  a.confidence = "by-elimination" =>
    \A p \in DOMAIN m.copies :
      /\ TrueOwner(m, p) \in Competing(m) /\ m.copies[p] \notin {"gone", "other formula"}
      /\ p \in {"vendor", "sdk"} => m.tool.binDir
      => TrueOwner(m, p) = a.owner
=============================================================================
