------------------------------ MODULE MCScreens ------------------------------
(***************************************************************************)
(* Screens for TLC.  Screens.cfg: two mutations one after the other, of    *)
(* every kind, in sessions that go from the catalog to one or two of the   *)
(* other views.                                                            *)
(***************************************************************************)
EXTENDS Screens

SmallTours == {{"catalog", "policies"}, {"catalog", "doctor"}, {"uninstall", "policies"}}
=============================================================================
