CONSTANTS
  Channels = {1, 2, 5, 8, 9}
  MemSize = 12
  FifoCap = 8
  Scenarios <- EeScenarios
SPECIFICATION FairSpec
INVARIANTS TypeOK SendsChain NoStaleData
PROPERTIES InterruptAfterData LineFollowsStat TransfersEnd
