CONSTANTS
  Channels = {3, 4, 9, 10}
  MemSize = 24
  FifoCap = 8
  FieldSize = 4
  TagLimit = 16
  Scenarios <- IopScenarios
SPECIFICATION FairSpec
INVARIANTS SendsChain DataBeforeInterrupt
PROPERTIES InterruptAfterData TransfersEnd
