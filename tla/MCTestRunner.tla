---------------------------- MODULE MCTestRunner ----------------------------
(* TestRunner with values for TLC: the table holds as many runs as the      *)
(* cleanup keeps when the server starts, so that every new run deletes one. *)
EXTENDS TestRunner

CONSTANTS r1, r2, r3, r4

MCRuns == {r1, r2, r3, r4}
MCEarlierRuns == <<r1, r2>>
=============================================================================
