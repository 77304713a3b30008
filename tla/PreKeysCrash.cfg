SPECIFICATION Spec
CONSTANTS
  Procs = {p1}
  Peers = {q1}
  MaxIds = 2
  MaxKeys = 6
  MaxIdentities = 2
  MaxCount = 1
INVARIANT IdentityIsPresent
CHECK_DEADLOCK FALSE
