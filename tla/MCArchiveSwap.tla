---------------------------- MODULE MCArchiveSwap ----------------------------
(***************************************************************************)
(* ArchiveSwap for TLC: two releases, the second of which names its binary *)
(* by its own release (as the registry's gh does), so that relinking and   *)
(* restoring a link are not the same thing as leaving it alone.  A tree of *)
(* somebody else may be linked at the path the first release uses.         *)
(***************************************************************************)
EXTENDS ArchiveSwap, TLC

CONSTANTS v1, v2, m1, m2

MCVersions == {v1, v2}
MCMembers  == {m1, m2}
MCMemberOf == (v1 :> m1) @@ (v2 :> m2) @@ (Foreign :> m1)
=============================================================================
