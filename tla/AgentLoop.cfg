CONSTANTS
  p1 = p1
  p2 = p2
  Prompts = {p1, p2}
  Metadata <- MCMetadata
  Reports = {t1}
  NoSocket = NoSocket
  MaxRounds = 1
  MaxTroubles = 2
SPECIFICATION FairSpec
INVARIANTS SignalReachesSocket LogMatchesReplies
PROPERTIES LoopEnds HandlersEnd
CHECK_DEADLOCK FALSE
