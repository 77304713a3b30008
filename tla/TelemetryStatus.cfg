CONSTANTS
  Samples <- MCSamples
  NoSample = NoSample
  NoData = NoData
  MaxPolls = 2
  MaxInputs = 3
SPECIFICATION FairSpec
INVARIANTS TypeOK ReadsForward UsageIsOfItsWindow RejectedReportHasCause
PROPERTIES ProbeGoesOn PageCatchesUp
CHECK_DEADLOCK FALSE
