--------------------------- MODULE MCDumpPipeline ---------------------------
(***************************************************************************)
(* Instances of DumpPipeline for TLC.                                      *)
(***************************************************************************)
EXTENDS DumpPipeline, TLC

Region(k, b) == [kind |-> k, base |-> b]

(* A target with every kind of region.                                     *)
Rich == {[found |-> <<Region("hidden", 1), Region("chunk", 2)>>,
          deps |-> <<Region("dep", 3)>>]}
OneHidden == {[found |-> <<Region("hidden", 1)>>, deps |-> <<>>]}

Four == <<10, 11, 12, 13>>
One == <<11>>
=============================================================================
