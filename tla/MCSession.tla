----------------------------- MODULE MCSession ------------------------------
(***************************************************************************)
(* Instances of Session for TLC.                                           *)
(***************************************************************************)
EXTENDS Session, TLC

None == {}

Faults == {<<"fault", "app">>}

MCSites == {Query, SetThread, Goal} \cup ReturnSites
MCPersistent == {Query, SetThread}
=============================================================================
