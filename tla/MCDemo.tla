------------------------------- MODULE MCDemo -------------------------------
(* Demo with values for TLC.                                                *)
EXTENDS Demo, TLC

\* Texts and polls are interchangeable.
Symmetry == Permutations(Texts) \cup Permutations(Polls)
=============================================================================
