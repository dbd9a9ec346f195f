-------------------------------- MODULE MCCli --------------------------------
(***************************************************************************)
(* The instance of Cli for TLC: every flag.                                *)
(***************************************************************************)
EXTENDS Cli, TLC

AllFlags == Scopes \cup Options
=============================================================================
