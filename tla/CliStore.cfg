CONSTANTS
  Procs = {p1, p2}
  Msgs = {m1, m2}
  Passphrases = {w1, w2}
  Nobody = Nobody
  MaxPeerKeys = 2
SPECIFICATION Spec
INVARIANTS OneKey InboxIsOfPinned
CHECK_DEADLOCK FALSE
