------------------------------ MODULE MCAgent ------------------------------
(* Agent with values for TLC.  One response has counts that are missing or  *)
(* no numbers, and a total that is 0; the other has no total.               *)
EXTENDS Agent

CONSTANTS p1, p2

MCMetadata ==
  (p1 :> [input |-> <<-1, 2>>, output |-> <<0, 3>>, total |-> <<0, 7>>])
  @@ (p2 :> [input |-> <<1>>, output |-> <<>>, total |-> <<>>])
=============================================================================
