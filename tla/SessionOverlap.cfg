SPECIFICATION Spec
CONSTANTS
  Ops = {o1, o2}
  NoSession = NoSession
  MaxMessages = 4
  MaxRatchets = 5
  MaxReads = 2
INVARIANTS KeysAreUsedOnce UnreadStaysReadable ReadAtMostOnce
CONSTRAINT EncryptionsTakeTurns
SYMMETRY Symmetry
CHECK_DEADLOCK FALSE
