------------------------------ MODULE MCRefresh ------------------------------
(***************************************************************************)
(* Refresh for TLC.  Refresh.cfg: two callers, each refreshing both tools  *)
(* or one of them, so passes overlap, supersede and partly cover.          *)
(* RefreshJoin.cfg: two callers of one key and three passes, so passes are *)
(* joined and outlive their epoch.                                         *)
(***************************************************************************)
EXTENDS Refresh, TLC

CONSTANTS a, b

MCTools   == {a, b}
MCKeys    == {{a}, {a, b}}
OneTool   == {a}
OneKey    == {{a}}
Symmetric == Permutations(Callers)
=============================================================================
