------------------------------ MODULE MCCleanDb ------------------------------
(***************************************************************************)
(* An instance of CleanDb for TLC.  A subset of a folder is what it holds  *)
(* of readable files, so that one folder with every file stands for all.   *)
(***************************************************************************)
EXTENDS CleanDb, TLC

AnyFolder == {Files}
CONSTANTS f1, f2, r1, r2
Symmetry == Permutations(Runs) \cup Permutations(Files)
=============================================================================
