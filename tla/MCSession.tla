----------------------------- MODULE MCSession -----------------------------
(* Instances of Session for TLC.                                           *)
EXTENDS Session, TLC

\* The operations a user has in progress are interchangeable.
Symmetry == Permutations(Ops)

\* A bound: once an encryption overlapped, KeysAreUsedOnce and
\* UnreadStaysReadable claim nothing of its user.
EncryptionsTakeTurns == \A u \in Users : "encrypt" \notin overlapped[u]
=============================================================================
