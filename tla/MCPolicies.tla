------------------------------ MODULE MCPolicies ------------------------------
(***************************************************************************)
(* The ban with one shim, and two tweaks, one of them with a helper.       *)
(***************************************************************************)
EXTENDS Policies

CONSTANTS t1, t2
MCTweaks == {t1, t2}
MCHelped == {t1}
MCOrder  == <<Ban, t1, t2>>

\* A byte that is not UTF-8 in .zshrc, and every call succeeds.
MCBadZshrc == {{"zshrc"}}
=============================================================================
