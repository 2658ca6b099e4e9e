CONSTANTS
  Units <- MCEeUnits
  Wide = {}
  NarrowMax = 2
  WideMax = 3
  Tasks <- MCEeTasks
  Modes <- MCModes
  Values = {0, 2}
  MaxTicks = 2
  MaxBlocks = 2
  MaxWrites = 2
  Nobody = Nobody
SPECIFICATION Spec
PROPERTIES EeSourceCached
CHECK_DEADLOCK FALSE
