--------------------------- MODULE MCRelayServer ---------------------------
(* Instances of RelayServer for TLC.                                       *)
EXTENDS RelayServer, TLC

\* Clients, messages and sockets are interchangeable.
Symmetry ==
  Permutations(Clients) \cup Permutations(Msgs) \cup Permutations(Sockets)

\* A bound for the liveness run: the relay stays up and all rows carry the same
\* timestamp.  A halt takes every client offline, which ends what QueueDrains
\* promises, and equal timestamps leave the order of a backlog open.
SteadyRelay == up' /\ clock' = 0
=============================================================================
