CONSTANTS
  Channels = {11}
  MemSize = 12
  FifoCap = 4
  FieldSize = 4
  TagLimit = 16
  Scenarios <- Sio2Scenarios
SPECIFICATION Spec
INVARIANTS ReachesSio2
