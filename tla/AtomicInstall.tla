---------------------------- MODULE AtomicInstall ----------------------------
(***************************************************************************)
(* What a replaceable installation promises its user, with none of the     *)
(* machinery: the tree a user has is replaced in one step or not at all.   *)
(* ArchiveSwap.tla is the staged, crash-prone way the code gets there, and *)
(* implements this specification.                                          *)
(***************************************************************************)
CONSTANTS Versions,      \* the releases an operation may install
          Foreign,       \* the version of a tree somebody else put there
          Absent         \* no tree at that path

(***************************************************************************)
(* A tree on disk: the release it was unpacked from, whether every file of *)
(* it is there, and whether the binary a link names is one of them.        *)
(***************************************************************************)
Tree     == [ver : Versions \cup {Foreign}, whole : BOOLEAN, bin : BOOLEAN]
Whole(v) == [ver |-> v, whole |-> TRUE, bin |-> TRUE]

(***************************************************************************)
(* What an interrupted removal leaves of a tree: all of it, or a part.     *)
(***************************************************************************)
Leftover(t) == {t} \cup {[ver |-> t.ver, whole |-> FALSE, bin |-> b] :
                            b \in {FALSE, t.bin}}

VARIABLES cur,       \* the tree the user would have after a recovery
          settled,   \* an installation was once completed here
          exposed    \* a displaced tree outlived the run that replaced it

absVars == <<cur, settled, exposed>>

AbsInit ==
  /\ cur \in {Absent, Whole(Foreign)} \cup {Whole(v) : v \in Versions}
  /\ settled \in BOOLEAN
  /\ settled => cur \in {Whole(v) : v \in Versions}
  /\ exposed = FALSE

\* A first installation may show up before it is validated, and be withdrawn.
Appear(v) ==
  /\ cur = Absent /\ ~settled
  /\ cur' = Whole(v)
  /\ UNCHANGED <<settled, exposed>>

Withdraw ==
  /\ ~settled /\ cur # Whole(Foreign)
  /\ cur' = Absent
  /\ UNCHANGED <<settled, exposed>>

\* The one step that replaces a settled installation: all of it, at once.
Commit(v) ==
  /\ cur' = Whole(v)
  /\ settled' = TRUE
  /\ exposed' = FALSE

\* The documented residual: the displaced tree is still there (perhaps only
\* partly) after the run, and a later recovery prefers it.
Expose ==
  /\ cur # Absent
  /\ cur' \in Leftover(cur)
  /\ settled' = TRUE
  /\ exposed' = TRUE

AbsNext ==
  \/ \E v \in Versions : Appear(v) \/ Commit(v)
  \/ Withdraw
  \/ Expose

AbsSpec == AbsInit /\ [][AbsNext]_absVars
=============================================================================
