------------------------------- MODULE MCChat -------------------------------
(* Chat with values for TLC.                                                *)
EXTENDS Chat
=============================================================================
