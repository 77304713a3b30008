----------------------------- MODULE MCPreKeys -----------------------------
(* Instances of PreKeys for TLC.                                           *)
EXTENDS PreKeys, TLC

\* The processes on a store are interchangeable.
Symmetry == Permutations(Procs)

\* A bound: after "counter" comes "generation", and then no property claims
\* anything; and the identity key does not matter to NamedKeysAreKept, which is
\* the only one to claim something after both others.
OneKindOfOverlap == \A x, y \in overlap : x = y
=============================================================================
