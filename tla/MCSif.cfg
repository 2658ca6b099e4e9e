CONSTANTS
  Channels = {5, 6}
  MemSize = 7
  FifoCap = 8
  Scenarios <- EeScenarios
  IopChannels = {9, 10}
  IopMemSize = 32
  FieldSize = 4
  TagLimit = 16
  IopScenarios <- IopScenario
SPECIFICATION SifFairSpec
INVARIANTS DataInPlace
PROPERTIES SifCompletes
CONSTRAINT Untorn
