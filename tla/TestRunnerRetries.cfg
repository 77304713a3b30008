CONSTANTS
  r1 = r1
  r2 = r2
  r3 = r3
  r4 = r4
  Runs <- MCRuns
  EarlierRuns <- MCEarlierRuns
  NoRun = NoRun
  Tabs = {t1}
  NTests = 2
  KeptRuns = 2
  MaxFaults = 1
  MaxCrashes = 1
SPECIFICATION FairSpec
INVARIANTS LockMatchesRun RunningRowHasCause AnalysedRunsAreWhole RetentionHolds VerdictIsOfItsAttempt
PROPERTIES RunEnds PageSettles
CHECK_DEADLOCK FALSE
