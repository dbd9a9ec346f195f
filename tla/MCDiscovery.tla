----------------------------- MODULE MCDiscovery -----------------------------
(***************************************************************************)
(* An instance of Discovery for TLC: the program and a DLL in the loader's *)
(* list, a DLL that may be loaded, and private memory beside a free page.  *)
(***************************************************************************)
EXTENDS Discovery

Place == [exe |-> 1, dll |-> 3, late |-> 4, blob |-> 5]
Extent == [exe |-> 2, dll |-> 1, late |-> 1, blob |-> 2]
AtStart == <<"exe", "dll">>
=============================================================================
