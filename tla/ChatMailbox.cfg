CONSTANTS
  Prompts = {p1, p2}
  Pulls = {q1}
  Directs = {d1}
  NoReader = NoReader
  MaxErrors = 1
SPECIFICATION FairSpec
INVARIANTS OwnReply
PROPERTIES LostReplyHasCause PullKeepsWhatItOpens CallsEnd
CHECK_DEADLOCK FALSE
