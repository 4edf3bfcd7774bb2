------------------------------ MODULE MCRemoval ------------------------------
(***************************************************************************)
(* Removal for TLC: two releases, so that a path can hold another release  *)
(* than the receipt records.                                               *)
(***************************************************************************)
EXTENDS Removal, TLC

CONSTANTS r1, r2

MCReleases == {r1, r2}
Symmetric  == Permutations(MCReleases)
=============================================================================
