---------------------------- MODULE MCTelemetry ----------------------------
(* Telemetry with values for TLC.  From the second sample to the third, the *)
(* busy time goes backwards and the total forward; the first shows more     *)
(* memory than there is, and the third none.                                *)
EXTENDS Telemetry

MCSamples ==
  {[idle |-> 1, total |-> 1, memTotal |-> 4, memAvail |-> 5],
   [idle |-> 1, total |-> 2, memTotal |-> 4, memAvail |-> 1],
   [idle |-> 3, total |-> 3, memTotal |-> 0, memAvail |-> 0]}
=============================================================================
