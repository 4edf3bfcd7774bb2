----------------------------- MODULE MCUserFiles -----------------------------
(***************************************************************************)
(* UserFiles for TLC: the two settings of cursor-agent.                    *)
(***************************************************************************)
EXTENDS UserFiles

MCKeyOrder  == [auto_approve |-> <<"approvalMode">>, no_attribution |-> <<"commits", "prs">>]
MCNested    == {"commits", "prs"}
MCDefaulted == {"commits", "prs"}
=============================================================================
