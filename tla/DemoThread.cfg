CONSTANTS
  Texts = {t1, t2}
  NoText = NoText
  Polls = {k1, k2}
  NoPoll = NoPoll
  MaxClock = 1
  MaxErrors = 2
SPECIFICATION DemoSpec
INVARIANTS DemoTypeOK ShownOnceBarFailures NothingTypedIsLost
PROPERTIES OrderIsKept
SYMMETRY Symmetry
CHECK_DEADLOCK FALSE
