SPECIFICATION Spec
CONSTANTS
  Procs = {p1, p2}
  Peers = {q1}
  MaxIds = 2
  MaxKeys = 6
  MaxIdentities = 2
  MaxCount = 2
INVARIANTS NamedKeysAreKept BootstrapExports BootstrapVerifies
CONSTRAINT OneKindOfOverlap
SYMMETRY Symmetry
CHECK_DEADLOCK FALSE
