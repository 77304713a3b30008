------------------------------- MODULE MCCli --------------------------------
(* Cli with values for TLC.                                                 *)
EXTENDS Cli
=============================================================================
