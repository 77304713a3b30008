SPECIFICATION Spec
CONSTANTS
  Clients = {a}
  Msgs = {m1, m2}
  Sockets = {s1, s2}
  NoClient = NoClient
  NoSocket = NoSocket
  DbFaults = FALSE
INVARIANT DeliveredReachesClient
