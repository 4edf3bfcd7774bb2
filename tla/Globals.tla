------------------------------- MODULE Globals -------------------------------
(***************************************************************************)
(* pnpm's global packages (installer/pnpm_globals.py), and the update of   *)
(* pnpm itself that can lose them (installer/update.py, UpdateService.run).*)
(*                                                                         *)
(* pnpm keeps each global install in a group of its own.  A set of globals *)
(* g is a record: its groups, the packages pnpm lists without saying where *)
(* they are, and the packages it lets run their build scripts.  The        *)
(* catalog declares groups of packages that must share one install: each   *)
(* is named by its first member, the catalog tool's own package.           *)
(***************************************************************************)
EXTENDS Naturals, FiniteSets

CONSTANTS Declared,   \* the declared groups: [first, members]
          AllowBuild  \* packages the catalog lets build

ASSUME GlobalsAssumption ==
  \A d \in Declared :
    /\ d.first \in d.members
    /\ \A e \in Declared \ {d} : d.members \cap e.members = {}

Packages(g) == UNION g.groups

-----------------------------------------------------------------------------
(***************************************************************************)
(* What the Doctor reports.                                                *)
(***************************************************************************)
\* parse_global_groups: a package of unread membership is listed as if alone.
Listing(g) ==
  ({group \ g.unread : group \in g.groups} \ {{}}) \cup {{p} : p \in g.unread}

SplitGroups(g) ==
  {d.members \cap Packages(g) : d \in
     {d \in Declared : LET there == d.members \cap Packages(g) IN
        /\ Cardinality(there) > 1 /\ there \cap g.unread = {}
        /\ \A group \in Listing(g) : ~(there \subseteq group)}}

IncompleteGroups(g) ==
  {d.members \cap Packages(g) : d \in
     {d \in Declared : d.first \in Packages(g) /\ ~(d.members \subseteq Packages(g))}}

-----------------------------------------------------------------------------
(***************************************************************************)
(* The replay.                                                             *)
(***************************************************************************)

\* A group is put back whole when the catalog tool that declares it was there.
Formed(packages) == {d \in Declared : d.first \in packages}

\* _reinstall_parts: one spec for a group, one for every other package.
Specs(packages) ==
  {d.members : d \in Formed(packages)}
  \cup {{p} : p \in packages \ UNION {d.members : d \in Formed(packages)}}

Granted(packages) == AllowBuild \cap UNION {d.members : d \in Formed(packages)}

\* pnpm add -g: each spec is an install of its own, and holds its packages from then on.
Replayed(g, packages) ==
  [groups  |-> Specs(packages) \cup ({group \ UNION Specs(packages) : group \in g.groups} \ {{}}),
   unread  |-> {},
   allowed |-> g.allowed \cup Granted(packages)]

Lost(g, packages) ==
  [g EXCEPT !.groups = {group \ packages : group \in @} \ {{}}, !.unread = @ \ packages]

(***************************************************************************)
(* UpdateService.run for pnpm, from the globals g.  The run can fail to    *)
(* list the globals, to update, or to replay (no pnpm, one too old, a      *)
(* failed command); the update loses some of them.                         *)
(***************************************************************************)
Runs == [listed : BOOLEAN, updates : BOOLEAN, replays : BOOLEAN]

\* Mutant of UpdatePnpm: the globals are listed when the update is over.
ListAfterwards(g, run, lost) ==
  LET left == Lost(g, lost) IN
  IF run.updates
    THEN IF run.listed /\ run.replays
           THEN [status |-> "updated", warned |-> FALSE, globals |-> Replayed(left, Packages(left))]
           ELSE [status |-> "updated", warned |-> TRUE, globals |-> left]
    ELSE [status |-> "failed", warned |-> TRUE, globals |-> left]

UpdatePnpm(g, run, lost) ==
  LET left == Lost(g, lost) IN
  CASE ~run.listed -> [status |-> "refused", warned |-> TRUE, globals |-> g]
    [] run.listed /\ ~run.updates -> [status |-> "failed", warned |-> TRUE, globals |-> left]
    [] run.listed /\ run.updates /\ (Packages(g) = {} \/ run.replays) ->
         [status |-> "updated", warned |-> FALSE, globals |-> Replayed(left, Packages(g))]
    [] OTHER -> [status |-> "updated", warned |-> TRUE, globals |-> left]

-----------------------------------------------------------------------------
(***************************************************************************)
(* An update of pnpm that reports success without a warning has every      *)
(* global package back, and leaves nothing for the Doctor to say about the *)
(* groups that are the catalog's; one that could not list them first       *)
(* touches nothing (UpdateService: "the capture cannot follow the update").*)
(***************************************************************************)
GlobalsSurvive(g, r) ==
  /\ r.status = "refused" => r.globals = g
  /\ ~r.warned =>
       /\ Packages(g) \subseteq Packages(r.globals) /\ IncompleteGroups(r.globals) = {}
       /\ \A d \in Declared : d.first \in Packages(g) =>
            \E group \in r.globals.groups : d.members \subseteq group

(***************************************************************************)
(* The replay lets a package build only inside a group whose catalog tool  *)
(* was there: a package the user installed by hand keeps the gate it had   *)
(* (_formed_groups).                                                       *)
(***************************************************************************)
NothingIsGranted(g, r) ==
  \A p \in r.globals.allowed \ g.allowed :
    \E d \in Declared : p \in d.members /\ d.first \in Packages(g)

(***************************************************************************)
(* The Doctor reports a group as split only when pnpm does hold it apart   *)
(* (split_install_groups: "Reports only what it READ").                    *)
(***************************************************************************)
SplitIsTrue(g) ==
  \A there \in SplitGroups(g) : ~\E group \in g.groups : there \subseteq group
=============================================================================
