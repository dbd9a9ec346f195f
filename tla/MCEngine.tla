------------------------------ MODULE MCEngine ------------------------------
(***************************************************************************)
(* Instances of Engine for TLC.                                            *)
(***************************************************************************)
EXTENDS Engine, TLC

(* Exceptions that can never be taken for one of the debugger's.           *)
Distinct == {<<"fault", "app">>, <<"fault", "tool">>, <<"other", "system">>}

(* Every exception, the program's own int3 and single step among them.     *)
All == Distinct \cup {<<"bp", "app">>, <<"step", "app">>}

Quiet == {}
=============================================================================
